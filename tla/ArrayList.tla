------------------------------- MODULE ArrayList -------------------------------
(***************************************************************************)
(* The growing array of photon/array-list.h: a length, the memory that is  *)
(* allocated, and the items. The items beyond the length are              *)
(* uninitialized and never read, `data' leaves them out.                   *)
(***************************************************************************)
EXTENDS Integers, Sequences

ArrayLists(T) == [length : Nat, allocatedLength : Nat, data : Seq(T)]

\* The constructor and clear(): the old memory is freed, new is allocated.
NewList(initialLength) ==
  [length |-> 0,
   allocatedLength |-> IF initialLength < 0 THEN 0 ELSE initialLength,
   data |-> <<>>]

NeedsMemory(list) == list.allocatedLength <= list.length

\* Mutant: the new length of the allocated memory is not kept.
Grown_Forgotten(list) == list

\* Twice the memory, or the first item's; the items are copied.
Grown(list) ==
  [list EXCEPT !.allocatedLength = IF @ <= 0 THEN 1 ELSE 2 * @]

\* add() returns true.
Added(list, item) ==
  LET roomy == IF NeedsMemory(list) THEN Grown(list) ELSE list
  IN  [roomy EXCEPT !.length = @ + 1, !.data = Append(@, item)]

\* Where memory has to be allocated add() may return false; the list then
\* stays as it is.
AddMayFail(list) == NeedsMemory(list)

Consistent(list) ==
  /\ list.length = Len(list.data)
  /\ list.length <= list.allocatedLength
================================================================================
