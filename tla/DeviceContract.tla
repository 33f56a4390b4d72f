--------------------------- MODULE DeviceContract ---------------------------
(***************************************************************************)
(* What the feeder promises to whoever talks to it, without its clock, its *)
(* timers or its servo: it asks the server what to do, it serves the meal  *)
(* it was last told to serve and no other, it serves it at most once, and  *)
(* it reports it until the server says it has taken note.                  *)
(*                                                                         *)
(* PhotonDevice (the firmware of src/photon/app.cpp) implements this       *)
(* module; CatFeeder composes it with the server.                          *)
(***************************************************************************)
EXTENDS Naturals

CONSTANT Scoops   \* the sizes a meal may have, in scoops: positive numbers

VARIABLES
  phase,    \* "idle", "asking" (checking in) or "feeding"
  order,    \* the scoops of the meal to serve next, 0 when there is none
  portion,  \* the scoops still to be served in the meal under way
  report,   \* TRUE while a served meal has to be reported
  losses    \* power losses so far

contractVars == <<phase, order, portion, report, losses>>

ContractInit ==
  /\ phase = "idle"
  /\ order = 0
  /\ portion = 0
  /\ report = FALSE
  /\ losses = 0

\* Contact the server. The pending order stands until the answer replaces it.
Ask ==
  /\ phase = "idle"
  /\ phase' = "asking"
  /\ UNCHANGED <<order, portion, report, losses>>

\* The check-in ended: n scoops are ordered (0: none), and the report is
\* dropped only if the server consumed it.
Answer(n, consumed) ==
  /\ phase = "asking"
  /\ phase' = "idle"
  /\ order' = n
  /\ report' = (report /\ ~consumed)
  /\ UNCHANGED <<portion, losses>>

\* The order becomes the meal; it can not be served a second time.
StartMeal ==
  /\ phase = "idle"
  /\ order > 0
  /\ phase' = "feeding"
  /\ order' = 0
  /\ portion' = order
  /\ UNCHANGED <<report, losses>>

ServeScoop ==
  /\ phase = "feeding"
  /\ portion > 0
  /\ portion' = portion - 1
  /\ UNCHANGED <<phase, order, report, losses>>

\* Only a meal served to its last scoop is reported.
FinishMeal ==
  /\ phase = "feeding"
  /\ portion = 0
  /\ phase' = "idle"
  /\ report' = TRUE
  /\ UNCHANGED <<order, portion, losses>>

\* The device keeps everything in RAM. Nothing else makes it forget.
LosePower ==
  /\ phase' = "idle"
  /\ order' = 0
  /\ portion' = 0
  /\ report' = FALSE
  /\ losses' = losses + 1

ContractNext ==
  \/ Ask
  \/ \E n \in Scoops \cup {0}, consumed \in BOOLEAN : Answer(n, consumed)
  \/ StartMeal
  \/ ServeScoop
  \/ FinishMeal
  \/ LosePower

ContractSpec == ContractInit /\ [][ContractNext]_contractVars
=============================================================================
