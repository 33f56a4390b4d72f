--------------------------- MODULE MCCheckInExchange ---------------------------
(***************************************************************************)
(* CheckInExchange for TLC: a few answers that reach the limits of each    *)
(* field, some of a server that is newer than the feeder, and some of      *)
(* whatever else may answer on the way.                                    *)
(***************************************************************************)
EXTENDS CheckInExchange

Consumed(reported) == Number(4, IF reported THEN 1 ELSE 0)

\* ProtoBodyRenderer.java sets all four fields, protobuf-java writes them in
\* the order of their tags.
AnswersOfThisServer(reported) == {
  <<Number(1, 300), Number(2, 0), Number(3, 1), Consumed(reported)>>,
  <<Number(1, 0), Number(2, 2^Bits64 - 1), Number(3, 2^Bits32 - 1), Consumed(reported)>>}

\* Fields the feeder does not know, of each wire type, and another order.
AnswersOfANewerServer(reported) == {
  <<Consumed(reported), Number(16, 300), Number(1, 2^(Bits64 - 1)), Field(6, WT_STRING, <<8, 0, 0>>, 0)>>,
  <<Field(5, WT_64BIT, <<8, 1, 8, 1, 8, 1, 8, 1>>, 0), Number(2, 128),
    Field(7, WT_32BIT, <<24, 1, 32, 1>>, 0), Number(3, 2)>>}

Bytes(byte, count) == [i \in 1..count |-> byte]
WholeBytes32 == Bits32 \div 7
WholeBytes64 == Bits64 \div 7

\* One bit more than the width; a negative number as a bool, which is true,
\* and one whose ones end too early; a varint that is too long; a zero, which
\* ends the message; wire types that are unknown or cut short.
AnswersOfOthers == {
  <<Number(2, 5), Field(3, WT_VARINT, Varint[2^Bits32], Malformed)>>,
  <<Number(2, 5), Field(4, WT_VARINT, Bytes(128, WholeBytes32) \o <<16>>, Malformed)>>,
  <<Field(4, WT_VARINT, Bytes(255, WholeBytes32 + 1) \o <<2>>, Malformed)>>,
  <<Field(4, WT_VARINT, Bytes(255, WholeBytes64) \o <<1>>, 1), Field(0, WT_VARINT, <<>>, 0)>>,
  <<Field(1, WT_VARINT, Bytes(128, VarintBytes) \o <<0>>, Malformed)>>,
  <<Number(2, 5), Field(6, 3, <<>>, Malformed)>>,
  <<Number(2, 5), Field(6, WT_64BIT, <<1, 2, 3>>, Malformed)>>}

MCAnswers(reported) == AnswersOfThisServer(reported) \cup AnswersOfANewerServer(reported) \cup AnswersOfOthers
================================================================================
