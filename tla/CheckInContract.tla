---------------------------- MODULE CheckInContract ----------------------------
(***************************************************************************)
(* What a check-in promises, without bytes: the server hears the report as *)
(* it was made, or nothing; the feeder gets the default response, or a     *)
(* beginning of the answer, cut between two fields. Module CatFeeder       *)
(* relies on this (ReceiveAnswer, ReceivePartOfAnswer, CheckInFails).      *)
(* When the feeder runs out of memory while it reads the answer, nothing   *)
(* is promised about the response.                                         *)
(***************************************************************************)
EXTENDS Integers, Sequences

CONSTANTS
  AnswersTo(_),  \* the answers that the server may give to a report
  Meaning(_),    \* what a sequence of fields says
  NoAnswer       \* before there is one

VARIABLES
  report,     \* what the feeder reports: {} or {ms}
  heard,      \* the report that the server was given
  answer,     \* the fields of the server's answer
  response,   \* what sendRequest() returned: {} before, then {message}
  exhausted   \* the feeder ran out of memory

vars == <<report, heard, answer, response, exhausted>>

DefaultResponse == Meaning(<<>>)

Readings(fields) == {Meaning(SubSeq(fields, 1, n)) : n \in 0..Len(fields)}

Init ==
  /\ heard = {}
  /\ answer = NoAnswer
  /\ response = {}
  /\ exhausted = FALSE

\* The server may still hear the report of a check-in that the feeder has
\* given up, and may fail to answer what it heard.
Hear ==
  /\ answer = NoAnswer
  /\ heard' = report
  /\ answer' \in AnswersTo(report) \cup {NoAnswer}
  /\ UNCHANGED <<report, response, exhausted>>

Respond ==
  /\ response = {}
  /\ \/ response' = {DefaultResponse}
     \/ answer # NoAnswer /\ \E m \in Readings(answer) : response' = {m}
     \/ exhausted /\ response' # {}
  /\ UNCHANGED <<report, heard, answer, exhausted>>

RunOutOfMemory ==
  /\ exhausted' = TRUE
  /\ UNCHANGED <<report, heard, answer, response>>

Next == Hear \/ Respond \/ RunOutOfMemory

Spec == Init /\ [][Next]_vars
================================================================================
