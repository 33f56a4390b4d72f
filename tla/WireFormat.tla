------------------------------ MODULE WireFormat ------------------------------
(***************************************************************************)
(* Protocol buffers as bytes. The encoders are external (the feeder's is   *)
(* in Device OS, the server's is protobuf-java): what they write for the   *)
(* two messages of api/cat_feeder.proto is given here, as the reference    *)
(* that the feeder's decoder is held against.                              *)
(*                                                                         *)
(* Bytes are numbers and keep their seven bits per byte and their layout   *)
(* of keys. The widths of the integers are parameters; they agree with 32  *)
(* and 64 modulo 7, so that the last byte of a varint that fills the width *)
(* has as many bits to spare as in the code.                               *)
(***************************************************************************)
EXTENDS Integers, Sequences

CONSTANTS
  Bits32,  \* the width of uint32_t
  Bits64   \* the width of uint64_t

ASSUME WidthAssumption ==
  /\ Bits32 \in Nat /\ Bits64 \in Nat
  /\ 7 < Bits32 /\ Bits32 < Bits64
  /\ Bits32 % 7 = 32 % 7
  /\ Bits64 % 7 = 64 % 7

Byte == 0..255

\* The powers of 2 that a width needs.
TwoTo[n \in 0..Bits64] == IF n = 0 THEN 1 ELSE 2 * TwoTo[n - 1]

Uint64 == 0..(TwoTo[Bits64] - 1)

\* A number, seven bits at a time, the low ones first; bit 7 of a byte says
\* that more follow.
Varint[n \in Nat] ==
  IF n < 128 THEN <<n>> ELSE <<128 + (n % 128)>> \o Varint[n \div 128]

IsLast(byte) == byte < 128

\* The seven bits of a byte moved to their place; what exceeds the width is
\* lost.
Shifted(byte, bitpos, bits) ==
  ((byte % 128) % TwoTo[bits - bitpos]) * TwoTo[bitpos]

\* What a sequence of bytes stands for when read as one varint.
VarintBytes == (Bits64 + 6) \div 7
VarintValue(bytes) ==
  LET value[i \in 0..Len(bytes)] ==
        IF i = 0 THEN 0 ELSE value[i - 1] + Shifted(bytes[i], 7 * (i - 1), Bits64)
  IN  value[Len(bytes)]
IsVarint(bytes) ==
  /\ Len(bytes) \in 1..VarintBytes
  /\ \A i \in 1..Len(bytes) : bytes[i] < 128 <=> i = Len(bytes)

\* The wire types.
WT_VARINT == 0
WT_64BIT == 1
WT_STRING == 2
WT_32BIT == 5

\* A field on the wire: its tag, its wire type, the bytes of its value, and
\* the number they stand for, or that they are malformed.
Malformed == -1
WireFields == [tag : Nat, wireType : 0..7, bytes : Seq(Byte), value : Int]
Field(tag, wireType, bytes, value) ==
  [tag |-> tag, wireType |-> wireType, bytes |-> bytes, value |-> value]
Number(tag, n) == Field(tag, WT_VARINT, Varint[n], n)

EncodedField(field) ==
  Varint[8 * field.tag + field.wireType]
  \o (IF field.wireType = WT_STRING THEN Varint[Len(field.bytes)] ELSE <<>>)
  \o field.bytes

Encoded(fields) ==
  LET upTo[i \in 0..Len(fields)] ==
        IF i = 0 THEN <<>> ELSE upTo[i - 1] \o EncodedField(fields[i])
  IN  upTo[Len(fields)]
================================================================================
