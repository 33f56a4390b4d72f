---------------------------- MODULE CheckInExchange ----------------------------
(***************************************************************************)
(* One check-in on the wire: sendRequest() of photon/app.cpp with its HTTP *)
(* client and decoder, a TCP connection, and the thread of HttpServer.java *)
(* that reads the request and answers it. It implements CheckInContract,   *)
(* what CatFeeder assumes of a check-in.                                   *)
(***************************************************************************)
EXTENDS NanopbDecoder, HttpClient, Charsets

CONSTANTS
  ServerCharset,     \* the default charset of the server's platform
  Reports,           \* the times since the last feeding that are reported
  Answers(_)         \* the fields that the server may answer, given whether
                     \* a feeding is reported

ASSUME ExchangeAssumption ==
  /\ ServerCharset \in Charset
  /\ Reports \subseteq Uint64
  /\ MaxFailedAllocations \in Nat
  /\ DefaultCheckInDelay \in Uint64 /\ DefaultCheckInDelay # 0
  /\ \A reported \in BOOLEAN : Answers(reported) \subseteq Seq(WireFields)

VARIABLES
  phase,     \* where sendRequest() is
  report,    \* time_since_last_feeding_ms of the request: {} or {ms}
  request,   \* requestBuffer
  outgoing,  \* what of the request is on its way: header and body
  server,    \* the connection's thread
  heard,     \* observed: the report that the thread parsed
  answer,    \* observed: the fields it answered, <<>> before
  response,  \* what sendRequest() returns
  broken     \* observed: the connection broke

exchangeVars == <<phase, report, request, outgoing, server, heard, answer, response, broken>>
vars == <<decoderVars, clientVars, exchangeVars>>

EncodedReport(r) == IF r = {} THEN <<>> ELSE Encoded(<<Number(1, CHOOSE ms \in r : TRUE)>>)

NoRequest == [header |-> FALSE, length |-> 0, body |-> <<>>]

\* The locals of HttpServer.handle(); `arrived' is what InputStreamReader has.
NoThread == [pc |-> "none", contentLength |-> 0, arrived |-> <<>>, bytesRead |-> 0]

Init ==
  /\ DecoderInit
  /\ ClientInit
  /\ phase = "connect"
  /\ report \in {{}} \cup {{ms} : ms \in Reports}
  /\ request = NewList(0)
  /\ outgoing = NoRequest
  /\ server = NoThread
  /\ heard = {}
  /\ answer = <<>>
  /\ response = DefaultMessage
  /\ broken = FALSE

-----------------------------------------------------------------------------
(* The feeder.                                                             *)

Connect ==
  /\ phase = "connect"
  /\ OpenConnection
  /\ server' = [server EXCEPT !.pc = "header"]
  /\ phase' = "encode"
  /\ UNCHANGED <<decoderVars, responseVars, failedAllocations,
                 report, request, outgoing, heard, answer, response, broken>>

\* sendRequest() disconnects and returns the default response.
GiveUp ==
  /\ CloseConnection
  /\ response' = DefaultMessage
  /\ phase' = "done"

ConnectFails ==
  /\ phase = "connect"
  /\ GiveUp
  /\ UNCHANGED <<decoderVars, responseVars, failedAllocations,
                 report, request, outgoing, server, heard, answer, broken>>

StillToEncode ==
  SubSeq(EncodedReport(report), request.length + 1, Len(EncodedReport(report)))

\* pb_encode() (external) writes through arrayListOstreamWrite().
EncodeByte ==
  /\ phase = "encode"
  /\ StillToEncode # <<>>
  /\ request' = Added(request, Head(StillToEncode))
  /\ UNCHANGED <<decoderVars, clientVars, phase, report, outgoing, server,
                 heard, answer, response, broken>>

RunOutOfMemory ==
  /\ phase = "encode"
  /\ StillToEncode # <<>>
  /\ AddMayFail(request)
  /\ failedAllocations < MaxFailedAllocations
  /\ failedAllocations' = failedAllocations + 1

\* Mutant: what pb_encode() returns is not looked at.
EncodeFails_Sending ==
  /\ RunOutOfMemory
  /\ phase' = "send"
  /\ UNCHANGED <<decoderVars, tcpVars, responseVars, report, request, outgoing, server,
                 heard, answer, response, broken>>

\* add() returns false, therefore arrayListOstreamWrite(), therefore pb_encode().
EncodeFails ==
  /\ RunOutOfMemory
  /\ GiveUp
  /\ UNCHANGED <<decoderVars, responseVars, report, request, outgoing, server,
                 heard, answer, broken>>

Encode ==
  /\ phase = "encode"
  /\ StillToEncode = <<>>
  /\ phase' = "send"
  /\ UNCHANGED <<decoderVars, clientVars, report, request, outgoing, server,
                 heard, answer, response, broken>>

\* HttpClient::sendRequest(), and getResponse() begins. What is written to a
\* connection that broke is lost.
SendRequest ==
  /\ phase = "send"
  /\ outgoing' = IF open THEN [header |-> TRUE, length |-> request.length, body |-> request.data]
                 ELSE NoRequest
  /\ BeginResponse
  /\ phase' = "response"
  /\ UNCHANGED <<decoderVars, open, report, request, server, heard, answer, response, broken>>

ReadResponse ==
  /\ phase = "response"
  /\ ClientStep
  /\ UNCHANGED <<decoderVars, exchangeVars>>

\* A status other than OK.
ResponseRefused ==
  /\ phase = "response"
  /\ reading = "done"
  /\ status # "OK"
  /\ GiveUp
  /\ UNCHANGED <<decoderVars, responseVars, failedAllocations,
                 report, request, outgoing, server, heard, answer, broken>>

ResponseTaken ==
  /\ phase = "response"
  /\ reading = "done"
  /\ status = "OK"
  /\ CloseConnection
  /\ BeginDecode(body.data)
  /\ phase' = "decode"
  /\ UNCHANGED <<responseVars, failedAllocations,
                 report, request, outgoing, server, heard, answer, response, broken>>

Decode ==
  /\ phase = "decode"
  /\ DecoderStep
  /\ UNCHANGED <<clientVars, exchangeVars>>

\* Mutant: what was decoded before an error is used.
Decoded_EvenIfMalformed ==
  /\ phase = "decode"
  /\ decoding \in {"ok", "failed"}
  /\ response' = message
  /\ phase' = "done"
  /\ UNCHANGED <<decoderVars, clientVars, report, request, outgoing, server, heard, answer, broken>>

Decoded ==
  /\ phase = "decode"
  /\ decoding \in {"ok", "failed"}
  /\ response' = IF decoding = "ok" THEN message ELSE DefaultMessage
  /\ phase' = "done"
  /\ UNCHANGED <<decoderVars, clientVars, report, request, outgoing, server, heard, answer, broken>>

-----------------------------------------------------------------------------
(* The server's thread.                                                    *)

feederVars == <<phase, report, request, response>>

ReadRequestHeader ==
  /\ server.pc = "header"
  /\ outgoing.header
  /\ outgoing' = [outgoing EXCEPT !.header = FALSE]
  /\ server' = [server EXCEPT !.pc = IF outgoing.length > 0 THEN "body" ELSE "handle",
                              !.contentLength = outgoing.length]
  /\ UNCHANGED <<decoderVars, clientVars, feederVars, heard, answer, broken>>

\* What the thread finds at the end of what arrived: the end of the stream, or
\* nothing, for as long as it does not know of it (the socket has no timeout).
StreamEnds == ~open /\ "server" \notin unnoticed

\* readLine() returns null, and null.equals("") throws.
RequestHeaderCutOff ==
  /\ server.pc = "header"
  /\ StreamEnds /\ ~outgoing.header
  /\ server' = [server EXCEPT !.pc = "close"]
  /\ UNCHANGED <<decoderVars, clientVars, feederVars, outgoing, heard, answer, broken>>

\* A piece of the body arrives, and read() returns the characters it ends,
\* if it ends any. Content-Length is a number of bytes, bytesRead of characters.
ReadRequestBody ==
  /\ server.pc = "body"
  /\ \E n \in 1..Len(outgoing.body) :
       LET now == server.arrived \o SubSeq(outgoing.body, 1, n)
           chars == Len(Characters(ServerCharset, now))
       IN  /\ outgoing' = [outgoing EXCEPT !.body = SubSeq(@, n + 1, Len(@))]
           /\ server' = [server EXCEPT !.arrived = now, !.bytesRead = chars,
                           !.pc = IF chars < server.contentLength THEN "body" ELSE "handle"]
  /\ UNCHANGED <<decoderVars, clientVars, feederVars, heard, answer, broken>>

\* Mutant: the -1 is left out of the sum.
RequestBodyCutOff_NotAdded ==
  /\ server.pc = "body"
  /\ StreamEnds /\ outgoing.body = <<>>
  /\ UNCHANGED vars

\* read() returns -1 at the end of the stream, which is added up, until the
\* offset is negative and read() throws.
RequestBodyCutOff ==
  /\ server.pc = "body"
  /\ StreamEnds /\ outgoing.body = <<>>
  /\ server' = IF server.bytesRead >= 0
                 THEN [server EXCEPT !.bytesRead = @ - 1]
                 ELSE [server EXCEPT !.pc = "close"]
  /\ UNCHANGED <<decoderVars, clientVars, feederVars, outgoing, heard, answer, broken>>

\* requestBody.getBytes()
RequestBody == BytesOf(Characters(ServerCharset, server.arrived))

\* EmbeddedRequest.parseFrom() (external), for a key and a varint: nothing
\* else becomes of a report in the charsets that are modelled.
IsReport(bytes) == bytes = <<>> \/ (Head(bytes) = 8 /\ IsVarint(Tail(bytes)))
ParsedReport(bytes) == IF bytes = <<>> THEN {} ELSE {VarintValue(Tail(bytes))}

\* ProtoBodyRenderer.render(): of a report the answer only says whether it was
\* there.
AnswersTo(heardReport) == Answers(heardReport # {})

\* handleRequest(): what it does to the preferences is in Backend. A request
\* that can not be parsed ends it, and so does, once the report is stored, a
\* timer that is dead (Backend.java:64) or a missing schedule (68).
HandleRequest ==
  /\ server.pc = "handle"
  /\ IF IsReport(RequestBody)
       THEN /\ heard' = ParsedReport(RequestBody)
            /\ \/ /\ answer' \in AnswersTo(heard')
                  /\ server' = [server EXCEPT !.pc = "write"]
               \/ /\ server' = [server EXCEPT !.pc = "close"]
                  /\ UNCHANGED answer
       ELSE /\ server' = [server EXCEPT !.pc = "close"]
            /\ UNCHANGED <<heard, answer>>
  /\ UNCHANGED <<decoderVars, clientVars, feederVars, outgoing, broken>>

AnswerHeader ==
  <<Text, SP>> \o Codes["OK"] \o <<SP, Text, CR, LF>>  \* HTTP/1.1 200 OK
  \o <<Text, SP, Text, CR, LF>>                        \* Server, Date, ...
  \o <<CR, LF>>

\* writeHeader(), then the body.
WriteAnswer ==
  /\ server.pc = "write"
  /\ incoming' = IF open THEN AnswerHeader \o Encoded(answer) ELSE <<>>
  /\ server' = [server EXCEPT !.pc = "close"]
  /\ UNCHANGED <<decoderVars, open, unnoticed, received, responseVars, failedAllocations,
                 feederVars, outgoing, heard, answer, broken>>

\* The `finally' of connect(); the feeder sees it after all that was written.
CloseSocket ==
  /\ server.pc = "close"
  /\ incoming = <<>>
  /\ open' = FALSE
  /\ unnoticed' = unnoticed \ {"server"}
  /\ server' = [server EXCEPT !.pc = "closed"]
  /\ UNCHANGED <<decoderVars, incoming, received, responseVars, failedAllocations, feederVars,
                 outgoing, heard, answer, broken>>

-----------------------------------------------------------------------------
(* The network.                                                            *)

AnswerArrives ==
  /\ Arrive
  /\ UNCHANGED <<decoderVars, exchangeVars>>

\* The connection breaks, and what is on its way is lost. Both sides may see
\* it, or one, or none.
ConnectionBreaks ==
  /\ open
  /\ open' = FALSE
  /\ unnoticed' \in SUBSET Sides
  /\ broken' = TRUE
  /\ incoming' = <<>>
  /\ outgoing' = NoRequest
  /\ UNCHANGED <<decoderVars, received, responseVars, failedAllocations, feederVars,
                 server, heard, answer>>

\* A side hears of it later, if ever.
BreakIsNoticed ==
  /\ \E side \in unnoticed : unnoticed' = unnoticed \ {side}
  /\ UNCHANGED <<decoderVars, open, incoming, received, responseVars, failedAllocations,
                 exchangeVars>>

-----------------------------------------------------------------------------

FeederStep ==
  \/ Connect
  \/ ConnectFails
  \/ EncodeByte
  \/ EncodeFails
  \/ Encode
  \/ SendRequest
  \/ ReadResponse
  \/ ResponseRefused
  \/ ResponseTaken
  \/ Decode
  \/ Decoded

ServerStep ==
  \/ ReadRequestHeader
  \/ RequestHeaderCutOff
  \/ ReadRequestBody
  \/ RequestBodyCutOff
  \/ HandleRequest
  \/ WriteAnswer
  \/ CloseSocket

\* Both sides are through. Anything else that has no next step is a deadlock.
Through ==
  /\ phase = "done"
  /\ server.pc \in {"none", "closed"}
  /\ UNCHANGED vars

Next ==
  \/ FeederStep
  \/ ServerStep
  \/ AnswerArrives
  \/ ConnectionBreaks
  \/ BreakIsNoticed
  \/ Through

Spec == Init /\ [][Next]_vars

\* Both programs go on, and TCP delivers what was written on a connection
\* that does not break. Nothing obliges it to tell of one that did.
FairSpec == Spec /\ WF_vars(FeederStep) /\ WF_vars(ServerStep) /\ WF_vars(AnswerArrives)

-----------------------------------------------------------------------------
(* Properties.                                                             *)

\* Every variable keeps its type; in particular both lists have the memory
\* for what they hold (array-list.h), and the stream of the decoder ends
\* where its buffer does.
TypeOK ==
  /\ DecoderTypeOK
  /\ ClientTypeOK
  /\ phase \in {"connect", "encode", "send", "response", "decode", "done"}
  /\ report \in SUBSET Reports
  /\ request \in ArrayLists(Byte) /\ Consistent(request)
  /\ outgoing \in [header : BOOLEAN, length : Nat, body : Seq(Byte)]
  /\ server \in [pc : {"none", "header", "body", "handle", "write", "close", "closed"},
                 contentLength : Nat, arrived : Seq(Byte), bytesRead : Int]
  /\ server.bytesRead \in -1..server.contentLength
  /\ heard \in SUBSET Uint64
  /\ response \in Messages
  /\ broken \in BOOLEAN

\* The server hears the report that the feeder made: "How long ago the device
\* last fed the cat." (cat_feeder.proto:8). Neither a lack of memory in
\* arrayListOstreamWrite() nor pieces nor a broken connection nor the way
\* through a String (Backend.java:63) may change it.
ReportArrivesAsSent == answer # <<>> \/ heard # {} => heard = report

\* An answer that was delivered whole is taken as it was meant, whatever
\* pieces it came in: the header parser finds the body, nanopb agrees with
\* the encoder on each varint up to the full width, skips the fields it does
\* not know and finds the known ones in any order. Excepted is a status code
\* that came in pieces (http-client.cpp:145), and a lack of memory.
WholeAnswerIsTaken ==
  phase = "done" /\ answer # <<>> /\ ~broken /\ ~split /\ holes = 0
    => response = Meaning(answer)

\* Both sides of a check-in come to an end, wherever the connection breaks
\* and whatever pieces it delivers: neither waits for bytes that the other
\* does not send. There are no timeouts (http-client.cpp:34, 86, 113,
\* HttpServer.java:74), so that two conditions are needed: each side gets to
\* know of a break (Backend.java:22 knows that a server which is killed leaves
\* the feeder stuck), and the server's charset has a character for each byte.
ExchangeEnds ==
  \/ <>[](phase = "done" /\ server.pc \in {"none", "closed"})
  \/ <>[](unnoticed # {})

\* The exchange keeps what CatFeeder assumes of a check-in: a cut answer
\* counts up to the end of a field or not at all, never more.
Contract == INSTANCE CheckInContract WITH
  AnswersTo <- AnswersTo,
  NoAnswer <- <<>>,
  response <- IF phase = "done" THEN {response} ELSE {},
  exhausted <- holes > 0

ImplementsCheckIn == Contract!Spec
================================================================================
