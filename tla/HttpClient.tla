------------------------------- MODULE HttpClient -------------------------------
(***************************************************************************)
(* photon/http-client.cpp: the reader of the server's answer, byte by      *)
(* byte, above a TCP client (external) that holds what has arrived. The    *)
(* answer may arrive in pieces of any size and the connection may end      *)
(* anywhere; connected() is true as long as it is open or bytes are left,  *)
(* and also when it broke and nothing told this side.                      *)
(*                                                                         *)
(* Of the header only the codes of CR, LF, SP and the digits matter; any   *)
(* other text of a line is one byte.                                       *)
(***************************************************************************)
EXTENDS ArrayList

CONSTANT MaxFailedAllocations  \* bound on the malloc() calls that fail

VARIABLES
  open,      \* the TCP connection
  unnoticed, \* who does not know that it broke: a subset of Sides
  incoming,  \* bytes of the answer on their way
  received,  \* bytes that arrived and were not read
  reading,   \* where getResponse() is
  header,    \* the locals of _processHeader()
  status,    \* what getResponse() returns
  body,      \* the list it fills
  failedAllocations, \* counted up to the bound
  holes,     \* observed: bytes of the body that add() had no memory for
  split      \* observed: the status code was not there whole when it was read

tcpVars == <<open, unnoticed, incoming, received>>
responseVars == <<reading, header, status, body, holes, split>>
clientVars == <<tcpVars, responseVars, failedAllocations>>

Sides == {"feeder", "server"}

CR == 13
LF == 10
SP == 32
Text == 120

\* The codes that have a status; 200 is 50, 48, 48 in ASCII.
Codes == [OK |-> <<50, 48, 48>>, BAD_REQUEST |-> <<52, 48, 48>>,
          INTERNAL_SERVER_ERROR |-> <<53, 48, 48>>, SERVICE_UNAVAILABLE |-> <<53, 48, 51>>]
Statuses == DOMAIN Codes \cup {"UNKNOWN", "CLIENT_ERROR"}

\* _getStatusFromCode(), _statusCodeEquals()
StatusFromCode(code) ==
  IF \E s \in DOMAIN Codes : Codes[s] = code
    THEN CHOOSE s \in DOMAIN Codes : Codes[s] = code
    ELSE "UNKNOWN"

HeaderAtStart ==
  [majorSection |-> 0, section |-> 0, statusCode |-> <<78, 78, 78>>, endSequence |-> 0]

ClientInit ==
  /\ open = FALSE
  /\ unnoticed = {}
  /\ incoming = <<>>
  /\ received = <<>>
  /\ reading = "idle"
  /\ header = HeaderAtStart
  /\ status = "UNKNOWN"
  /\ body = NewList(0)
  /\ failedAllocations = 0
  /\ holes = 0
  /\ split = FALSE

-----------------------------------------------------------------------------
(* The connection.                                                         *)

\* connect()
OpenConnection ==
  /\ open' = TRUE
  /\ UNCHANGED <<unnoticed, incoming, received>>

\* disconnect()
CloseConnection ==
  /\ open' = FALSE
  /\ incoming' = <<>>
  /\ received' = <<>>
  /\ unnoticed' = unnoticed \ {"feeder"}

\* The next piece of the answer arrives, of any size.
Arrive ==
  /\ open
  /\ \E n \in 1..Len(incoming) :
       /\ received' = received \o SubSeq(incoming, 1, n)
       /\ incoming' = SubSeq(incoming, n + 1, Len(incoming))
  /\ UNCHANGED <<open, unnoticed, responseVars, failedAllocations>>

Connected == open \/ "feeder" \in unnoticed \/ received # <<>>

-----------------------------------------------------------------------------
(* getResponse()                                                           *)

BeginResponse ==
  /\ reading' = "header"
  /\ header' = HeaderAtStart
  /\ body' = NewList(0)
  /\ UNCHANGED <<unnoticed, incoming, received, status, failedAllocations, holes, split>>

EndSequence(n, c) ==
  IF (c = CR /\ n % 2 = 0) \/ (c = LF /\ n % 2 = 1) THEN n + 1 ELSE 0

InStatusLine(h) == h.majorSection = 0

\* The end of a line, in the middle of the header.
ReadLineEnd ==
  LET ends == EndSequence(header.endSequence, Head(received)) IN
  /\ ends = 2
  /\ header' = [header EXCEPT !.endSequence = ends, !.majorSection = 1, !.section = @ + 1]
  /\ received' = Tail(received)
  /\ UNCHANGED <<reading, status, split>>

\* The empty line that ends the header.
ReadHeaderEnd ==
  /\ EndSequence(header.endSequence, Head(received)) = 4
  /\ status' = StatusFromCode(header.statusCode)
  /\ reading' = IF status' = "OK" THEN "body" ELSE "done"
  /\ received' = Tail(received)
  /\ UNCHANGED <<header, split>>

\* The space after the version: read(statusCode, 3) takes three bytes, or
\* those that are there.
ReadStatusCode ==
  LET there == Tail(received)
      count == IF Len(there) < 3 THEN Len(there) ELSE 3
  IN
  /\ Head(received) = SP
  /\ InStatusLine(header) /\ header.section = 0
  /\ header' = [header EXCEPT
                  !.section = 1, !.endSequence = 0,
                  !.statusCode = [i \in 1..3 |-> IF i <= count THEN there[i] ELSE @[i]]]
  /\ received' = SubSeq(there, count + 1, Len(there))
  /\ split' = (count < 3)
  /\ UNCHANGED <<reading, status>>

\* Any other byte.
ReadText ==
  LET c == Head(received)
      ends == EndSequence(header.endSequence, c)
      counts == c = SP /\ InStatusLine(header)
  IN
  /\ ends \notin {2, 4}
  /\ ~(counts /\ header.section = 0)
  /\ header' = [header EXCEPT !.endSequence = ends, !.section = IF counts THEN @ + 1 ELSE @]
  /\ received' = Tail(received)
  /\ UNCHANGED <<reading, status, split>>

ReadHeader ==
  /\ reading = "header"
  /\ received # <<>>
  /\ ReadLineEnd \/ ReadHeaderEnd \/ ReadStatusCode \/ ReadText
  /\ UNCHANGED <<open, unnoticed, incoming, body, failedAllocations, holes>>

\* _processHeader() gives up.
HeaderCutOff ==
  /\ reading = "header"
  /\ ~Connected
  /\ status' = "CLIENT_ERROR"
  /\ reading' = "done"
  /\ UNCHANGED <<tcpVars, header, body, failedAllocations, holes, split>>

ReadBodyByte ==
  /\ reading = "body"
  /\ received # <<>>
  /\ body' = Added(body, Head(received))
  /\ received' = Tail(received)
  /\ UNCHANGED <<open, unnoticed, incoming, reading, header, status, failedAllocations, holes, split>>

\* add() returns false, which getResponse() does not look at.
LoseBodyByte ==
  /\ reading = "body"
  /\ received # <<>>
  /\ AddMayFail(body)
  /\ failedAllocations < MaxFailedAllocations
  /\ failedAllocations' = failedAllocations + 1
  /\ holes' = holes + 1
  /\ received' = Tail(received)
  /\ UNCHANGED <<open, unnoticed, incoming, reading, header, status, body, split>>

\* Mutant: the body ends when nothing is there to be read.
BodyEnds_WhenEmpty ==
  /\ reading = "body"
  /\ received = <<>>
  /\ reading' = "done"
  /\ UNCHANGED <<tcpVars, header, status, body, failedAllocations, holes, split>>

BodyEnds ==
  /\ reading = "body"
  /\ ~Connected
  /\ reading' = "done"
  /\ UNCHANGED <<tcpVars, header, status, body, failedAllocations, holes, split>>

ClientStep ==
  \/ ReadHeader
  \/ HeaderCutOff
  \/ ReadBodyByte
  \/ LoseBodyByte
  \/ BodyEnds

-----------------------------------------------------------------------------

ClientTypeOK ==
  /\ open \in BOOLEAN
  /\ unnoticed \subseteq Sides
  /\ incoming \in Seq(0..255)
  /\ received \in Seq(0..255)
  /\ reading \in {"idle", "header", "body", "done"}
  /\ header \in [majorSection : 0..1, section : Nat,
                 statusCode : [1..3 -> 0..255], endSequence : 0..3]
  /\ status \in Statuses
  /\ body \in ArrayLists(0..255) /\ Consistent(body)
  /\ failedAllocations \in 0..MaxFailedAllocations
  /\ holes \in 0..failedAllocations
  /\ split \in BOOLEAN
================================================================================
