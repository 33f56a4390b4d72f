----------------------------- MODULE NanopbDecoder -----------------------------
(***************************************************************************)
(* pb_decode() of photon/nanopb for the one message that the feeder        *)
(* decodes, EmbeddedResponse, byte by byte. The loop over the fields and   *)
(* pb_read() come from Device OS and are external; what is skipped and     *)
(* what is decoded, and how, is in pb_decode_partial.c. All fields of the  *)
(* message are static, optional and scalar; the decoders of other kinds of *)
(* fields cannot be reached from it.                                       *)
(***************************************************************************)
EXTENDS WireFormat

CONSTANT DefaultCheckInDelay  \* 10000 in the proto

VARIABLES
  buffer,      \* responseBuffer.data
  stream,      \* pb_istream_t: the bytes taken so far, the bytes left
  decoding,    \* what the next byte belongs to, or how pb_decode() ended
  varint,      \* the varint under way: bitpos and result
  iter,        \* pb_field_iter_t: the position in the fields
  message      \* EmbeddedResponse: has_field and the value of each field

decoderVars == <<buffer, stream, decoding, varint, iter, message>>

\* catfeeder_api_EmbeddedResponse_fields, in the order of the struct.
Fields == <<
  [tag |-> 1, ltype |-> "UVARINT", bits |-> Bits64, default |-> DefaultCheckInDelay],
  [tag |-> 2, ltype |-> "UVARINT", bits |-> Bits64, default |-> 0],
  [tag |-> 3, ltype |-> "UVARINT", bits |-> Bits32, default |-> 0],
  [tag |-> 4, ltype |-> "BOOL",    bits |-> 1,      default |-> 0]>>

\* The members of the struct: has_x, and x with false and true as 0 and 1.
Messages == [has : [1..4 -> BOOLEAN], value : [1..4 -> Uint64]]

\* pb_message_set_to_defaults() and EmbeddedResponse_init_default.
DefaultMessage ==
  [has |-> [i \in 1..4 |-> FALSE], value |-> [i \in 1..4 |-> Fields[i].default]]

NoVarint == [bitpos |-> 0, result |-> 0]

\* pb_istream_from_buffer()
StreamOf(bytes) == [state |-> 0, bytes_left |-> Len(bytes)]

DecoderInit ==
  /\ buffer = <<>>
  /\ stream = StreamOf(<<>>)
  /\ decoding = "idle"
  /\ varint = NoVarint
  /\ iter = 1
  /\ message = DefaultMessage

BeginDecode(bytes) ==
  /\ decoding = "idle"
  /\ buffer' = bytes
  /\ stream' = StreamOf(bytes)
  /\ decoding' = "tag"
  /\ message' = DefaultMessage
  /\ UNCHANGED <<varint, iter>>

-----------------------------------------------------------------------------
(* The stream. Each step below takes one byte, and may skip more.          *)

HasByte == stream.bytes_left > 0
NextByte == buffer[stream.state + 1]

\* buf_read() and pb_readbyte(): the state moves on, fewer bytes are left.
Taken(count) ==
  [state |-> stream.state + count, bytes_left |-> stream.bytes_left - count]

Fail(count) ==
  /\ decoding' = "failed"
  /\ stream' = Taken(count)
  /\ varint' = NoVarint
  /\ UNCHANGED <<iter, message>>

-----------------------------------------------------------------------------
(* The fields.                                                             *)

\* pb_field_iter_next(): after the last field comes the first.
IterNext(i) == IF i = Len(Fields) THEN 1 ELSE i + 1

\* Mutant: the search ends at the last field and does not wrap.
IterFind_NoWrap(start, tag) ==
  {i \in start..Len(Fields) : Fields[i].tag = tag}

\* pb_field_iter_find(): from where the last search ended, around once.
IterFind(start, tag) ==
  LET visited[k \in 0..(Len(Fields) - 1)] ==
        IF k = 0 THEN start ELSE IterNext(visited[k - 1])
  IN  {i \in {visited[k] : k \in 0..(Len(Fields) - 1)} : Fields[i].tag = tag}

-----------------------------------------------------------------------------
(* Varints.                                                                *)

\* pb_decode_varint32_eof(): beyond the width only zeros are allowed, or the
\* ones of a negative number; a last byte at bit 28 has four bits to give.
Overflows32(v, byte) ==
  \/ /\ v.bitpos >= Bits32
     /\ byte % 128 # 0
     /\ \/ v.result < TwoTo[Bits32 - 1]
        \/ byte # (IF v.bitpos < Bits64 - 1 THEN 255 ELSE 1)
  \/ /\ v.bitpos = Bits32 - 4
     /\ IsLast(byte)
     /\ byte >= 16

Add32(v, byte) ==
  [bitpos |-> v.bitpos + 7,
   result |-> IF v.bitpos >= Bits32 THEN v.result
              ELSE v.result + Shifted(byte, v.bitpos, Bits32)]

\* pb_decode_varint()
Add64(v, byte) ==
  [bitpos |-> v.bitpos + 7, result |-> v.result + Shifted(byte, v.bitpos, Bits64)]

\* One byte of a varint of 32 bits that is not its last, or is one too many.
ReadVarint32 ==
  /\ decoding \in {"tag", "BOOL", "skip_string"}
  /\ HasByte
  /\ \/ Overflows32(varint, NextByte) /\ Fail(1)
     \/ /\ ~Overflows32(varint, NextByte)
        /\ ~IsLast(NextByte)
        /\ varint' = Add32(varint, NextByte)
        /\ stream' = Taken(1)
        /\ UNCHANGED <<decoding, iter, message>>
  /\ UNCHANGED buffer

\* Its last byte, and the value.
EndsVarint32 ==
  /\ HasByte
  /\ ~Overflows32(varint, NextByte)
  /\ IsLast(NextByte)
  /\ varint' = NoVarint
  /\ UNCHANGED buffer
Value32 == Add32(varint, NextByte).result

-----------------------------------------------------------------------------
(* pb_decode()                                                             *)

\* The byte that was just read, and count more: pb_read() without a buffer.
Skip(count) ==
  /\ IF stream.bytes_left - 1 >= count
       THEN decoding' = "tag" /\ stream' = Taken(1 + count)
       ELSE decoding' = "failed" /\ stream' = Taken(1)
  /\ UNCHANGED <<iter, message>>

ReadOn(next) ==
  /\ decoding' = next
  /\ stream' = Taken(1)
  /\ UNCHANGED iter

\* pb_skip_field()
SkipField(wireType) ==
  \/ wireType = WT_VARINT /\ ReadOn("skip_varint") /\ UNCHANGED message
  \/ wireType = WT_64BIT /\ Skip(8)
  \/ wireType = WT_STRING /\ ReadOn("skip_string") /\ UNCHANGED message
  \/ wireType = WT_32BIT /\ Skip(4)
  \/ /\ wireType \notin {WT_VARINT, WT_64BIT, WT_STRING, WT_32BIT}
     /\ ReadOn("failed") /\ UNCHANGED message

\* decode_field(), decode_static_field(): has_field is set before the value
\* is there; the decoder goes by the type of the field alone.
DecodeField(i) ==
  /\ iter' = i
  /\ message' = [message EXCEPT !.has[i] = TRUE]
  /\ decoding' = Fields[i].ltype
  /\ stream' = Taken(1)

\* pb_decode_tag(): a zero ends the message.
EndMessage ==
  /\ decoding = "tag"
  /\ EndsVarint32
  /\ Value32 = 0
  /\ ReadOn("ok")
  /\ UNCHANGED message

Tag == Value32 \div 8
WireType == Value32 % 8

DecodeKnown ==
  /\ decoding = "tag"
  /\ EndsVarint32
  /\ Value32 # 0
  /\ \E i \in IterFind(iter, Tag) : DecodeField(i)

SkipUnknown ==
  /\ decoding = "tag"
  /\ EndsVarint32
  /\ Value32 # 0
  /\ IterFind(iter, Tag) = {}
  /\ SkipField(WireType)

\* pb_dec_uvarint(): the value is stored, then compared.
ReadUvarint ==
  /\ decoding = "UVARINT"
  /\ HasByte
  /\ UNCHANGED buffer
  /\ \/ varint.bitpos >= Bits64 /\ Fail(0)
     \/ /\ varint.bitpos < Bits64
        /\ ~IsLast(NextByte)
        /\ varint' = Add64(varint, NextByte)
        /\ stream' = Taken(1)
        /\ UNCHANGED <<decoding, iter, message>>
     \/ /\ varint.bitpos < Bits64
        /\ IsLast(NextByte)
        /\ LET value == Add64(varint, NextByte).result
               clamped == value % TwoTo[Fields[iter].bits]
           IN  /\ message' = [message EXCEPT !.value[iter] = clamped]
               /\ ReadOn(IF clamped = value THEN "tag" ELSE "failed")
        /\ varint' = NoVarint

\* pb_dec_bool()
ReadBool ==
  /\ decoding = "BOOL"
  /\ EndsVarint32
  /\ message' = [message EXCEPT !.value[iter] = IF Value32 # 0 THEN 1 ELSE 0]
  /\ ReadOn("tag")

\* pb_skip_varint(): of any length.
SkipVarint ==
  /\ decoding = "skip_varint"
  /\ HasByte
  /\ decoding' = IF IsLast(NextByte) THEN "tag" ELSE "skip_varint"
  /\ stream' = Taken(1)
  /\ UNCHANGED <<buffer, varint, iter, message>>

\* pb_skip_string(): the length is a varint of 32 bits.
SkipString ==
  /\ decoding = "skip_string"
  /\ EndsVarint32
  /\ Skip(Value32)

\* No byte is left: the end of the message where a tag would begin, an error
\* anywhere else.
EndOfStream ==
  /\ decoding \in {"tag", "UVARINT", "BOOL", "skip_varint", "skip_string"}
  /\ ~HasByte
  /\ decoding' = IF decoding = "tag" /\ varint.bitpos = 0 THEN "ok" ELSE "failed"
  /\ varint' = NoVarint
  /\ UNCHANGED <<buffer, stream, iter, message>>

DecoderStep ==
  \/ ReadVarint32
  \/ EndMessage
  \/ DecodeKnown
  \/ SkipUnknown
  \/ ReadUvarint
  \/ ReadBool
  \/ SkipVarint
  \/ SkipString
  \/ EndOfStream

-----------------------------------------------------------------------------

DecoderTypeOK ==
  /\ buffer \in Seq(Byte)
  /\ stream \in [state : Nat, bytes_left : Nat]
  /\ stream.state + stream.bytes_left = Len(buffer)
  /\ decoding \in {"idle", "tag", "UVARINT", "BOOL", "skip_varint", "skip_string", "ok", "failed"}
  /\ varint \in [bitpos : Nat, result : Uint64]
  /\ iter \in 1..Len(Fields)
  /\ message \in Messages
  /\ message.value[3] < TwoTo[Bits32] /\ message.value[4] \in {0, 1}

\* What the fields on the wire say, by the rules of protocol buffers: the
\* last one of a tag counts, others are unknown and left out. Nothing is
\* taken from a message with a malformed field.
Meaning(fields) ==
  LET with(m, f) ==
        LET i == f.tag IN
        IF i \notin 1..Len(Fields) THEN m
        ELSE [m EXCEPT !.has[i] = TRUE, !.value[i] = f.value]
      upTo[k \in 0..Len(fields)] ==
        IF k = 0 THEN DefaultMessage ELSE with(upTo[k - 1], fields[k])
  IN  IF \E k \in 1..Len(fields) : fields[k].value = Malformed THEN DefaultMessage
      ELSE upTo[Len(fields)]
================================================================================
