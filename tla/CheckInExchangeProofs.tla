------------------------- MODULE CheckInExchangeProofs -------------------------
(***************************************************************************)
(* Proofs about CheckInExchange, for any widths, reports and answers, in   *)
(* three parts: the types, with the lists and the varints in their bounds  *)
(* (ExchangeInv); the report on its way to the server (HeardInv); and the  *)
(* answer on its way to what sendRequest() returns (AnswerInv), by way of  *)
(* what nanopb decodes, what _processHeader() takes, and the connection.   *)
(***************************************************************************)
EXTENDS CheckInExchange, WireFormatProofs, TLAPS

-----------------------------------------------------------------------------
(* Characters.                                                             *)

LEMMA ValidBytesType ==
  ASSUME NEW bytes \in Seq(Byte), NEW i \in 1 .. Len(bytes)
  PROVE  ValidBytes(bytes, i) \in 0 .. (Len(bytes) - i + 1)
  <1> DEFINE most == IF Utf8Length(bytes[i]) <= Len(bytes) - i + 1
                       THEN Utf8Length(bytes[i]) ELSE Len(bytes) - i + 1
             follows(k) == bytes[i + k] \in IF k = 1 THEN SecondBytes(bytes[i]) ELSE 128..191
             Longest(n) == /\ \A k \in 1..(n - 1) : follows(k)
                           /\ n < most => n > 0 /\ ~follows(n)
  <1>1. most \in 0 .. (Len(bytes) - i + 1)
    BY DEF Utf8Length
  <1>2. ValidBytes(bytes, i) = CHOOSE n \in 0 .. most : Longest(n)
    BY DEF ValidBytes
  <1> HIDE DEF most, follows
  <1>3. \E n \in 0 .. most : Longest(n)
    <2>1. CASE most = 0
      BY <2>1
    <2>2. CASE most # 0
      <3> DEFINE ends == {n \in 1 .. most : n < most => ~follows(n)}
      <3>1. most \in ends /\ ends \in SUBSET Nat
        BY <1>1, <2>2
      <3>2. PICK n \in ends : \A m \in ends : n <= m
        BY <3>1, LeastNumber
      <3>3. Longest(n)
        BY <1>1, <3>2
      <3>4. n \in 0 .. most
        BY <1>1
      <3> QED  BY <3>3, <3>4
    <2> QED  BY <2>1, <2>2
  <1> HIDE DEF Longest
  <1>4. ValidBytes(bytes, i) \in 0 .. most
    BY <1>2, <1>3
  <1> QED  BY <1>1, <1>4

\* There are no more characters than bytes.
LEMMA Utf8CharactersType ==
  ASSUME NEW bytes \in Seq(Byte)
  PROVE  /\ Utf8Characters(bytes) \in Seq(Seq(Byte))
         /\ Len(Utf8Characters(bytes)) <= Len(bytes)
  <1> DEFINE N == Len(bytes)
             n(i) == ValidBytes(bytes, i)
             complete(i) == n(i) > 0 /\ n(i) = Utf8Length(bytes[i])
             IsReader(f) ==
               f = [i \in 1 .. (N + 1) |->
                 IF i > N THEN <<>>
                 ELSE IF complete(i) THEN <<SubSeq(bytes, i, i + n(i) - 1)>> \o f[i + n(i)]
                 ELSE IF n(i) > 0 /\ i + n(i) > N THEN <<>>
                 ELSE <<Replacement>> \o f[i + (IF n(i) = 0 THEN 1 ELSE n(i))]]
             from == CHOOSE f : IsReader(f)
             Chars == Seq(Seq(Byte))
             cut(i) == ~complete(i) /\ n(i) > 0 /\ i + n(i) > N
             char(i) == IF complete(i) THEN SubSeq(bytes, i, i + n(i) - 1) ELSE Replacement
             taken(i) == IF n(i) = 0 THEN 1 ELSE n(i)
             Reads(f) == \A i \in 1 .. (N + 1) :
                           f[i] = IF i > N \/ cut(i) THEN <<>> ELSE <<char(i)>> \o f[i + taken(i)]
  <1>1. Utf8Characters(bytes) = from[1]
    BY DEF Utf8Characters
  <1>2. N \in Nat
    OBVIOUS
  <1>3. ASSUME NEW i \in 1 .. N
        PROVE  n(i) \in 0 .. (N - i + 1) /\ taken(i) \in 1 .. (N - i + 1)
    <2>1. n(i) \in 0 .. (N - i + 1)
      BY ValidBytesType
    <2> QED  BY <1>2, <2>1
  <1>4. ASSUME NEW i \in 1 .. N
        PROVE  char(i) \in Seq(Byte)
    <2>1. CASE complete(i)
      <3>1. \A k \in i .. (i + n(i) - 1) : k \in 1 .. Len(bytes)
        BY <1>2, <1>3
      <3>2. SubSeq(bytes, i, i + n(i) - 1) \in Seq(Byte)
        <4> HIDE DEF n
        <4>1. n(i) \in Nat
          BY <1>3
        <4> QED  BY <3>1, <4>1
      <3> QED  BY <2>1, <3>2
    <2>2. CASE ~complete(i)
      <3>1. Replacement \in Seq(Byte)
        BY DEF Replacement, Byte
      <3> QED  BY <2>2, <3>1
    <2> QED  BY <2>1, <2>2
  <1> HIDE DEF n, N
  <1>5. ASSUME NEW f, NEW i \in 1 .. (N + 1)
        PROVE  (IF i > N \/ cut(i) THEN <<>> ELSE <<char(i)>> \o f[i + taken(i)])
                 = IF i > N THEN <<>>
                   ELSE IF complete(i) THEN <<SubSeq(bytes, i, i + n(i) - 1)>> \o f[i + n(i)]
                   ELSE IF n(i) > 0 /\ i + n(i) > N THEN <<>>
                   ELSE <<Replacement>> \o f[i + (IF n(i) = 0 THEN 1 ELSE n(i))]
    <2>1. complete(i) => n(i) # 0
      OBVIOUS
    <2> QED  BY <2>1, Zenon
  <1>6. \A f : IsReader(f) => Reads(f)
    BY <1>5
  <1>7. \A f \in [1 .. (N + 1) -> Chars] : Reads(f) => IsReader(f)
    BY <1>5
  <1> HIDE DEF IsReader, char, cut, taken, complete
  <1>8. \E f : IsReader(f)
    \* by recursion on what is left of the bytes
    <2> DEFINE D == 0 .. N
               at(r) == N + 1 - r
               less == [r \in D |-> IF r = 0 \/ cut(at(r)) THEN r ELSE r - taken(at(r))]
               base == [r \in D |-> <<>>]
               step == [x \in D \X Chars |-> IF x[1] = 0 THEN <<>> ELSE <<char(at(x[1]))>> \o x[2]]
    <2>1. \A r \in D : r # 0 => at(r) \in 1 .. N
      BY <1>2
    <2>2. base \in [D -> Chars] /\ D \in SUBSET Nat /\ <<>> \in Chars
      OBVIOUS
    <2>3. step \in [D \X Chars -> Chars]
      <3>1. ASSUME NEW r \in D, NEW s \in Chars, r # 0
            PROVE  <<char(at(r))>> \o s \in Chars
        <4>1. <<char(at(r))>> \in Seq(Seq(Byte))
          <5>1. char(at(r)) \in Seq(Byte)
            BY <1>4, <2>1, <3>1
          <5> QED  BY <5>1
        <4> QED  BY <4>1, ConcatProperties
      <3> QED  BY <2>2, <3>1
    <2>4. PICK h \in [D -> Chars] : Solves(h, D, base, less, step)
      <3> HIDE DEF D, less, base, step, Chars
      <3> QED  BY <2>2, <2>3, RecursiveFunction
    <2> DEFINE f == [i \in 1 .. (N + 1) |-> h[N + 1 - i]]
    <2>5. ASSUME NEW i \in 1 .. (N + 1)
          PROVE  f[i] = IF i > N \/ cut(i) THEN <<>> ELSE <<char(i)>> \o f[i + taken(i)]
      <3> DEFINE r == N + 1 - i
      <3>1. r \in D /\ at(r) = i /\ (r = 0 <=> i > N) /\ f[i] = h[r]
        BY <1>2
      <3>2. h[r] = IF Recursive(D, less, r) THEN step[<<r, h[less[r]]>>] ELSE base[r]
        BY <2>4, <3>1 DEF Solves
      <3>3. CASE i > N \/ cut(i)
        <4>1. ~Recursive(D, less, r)
          BY <3>1, <3>3 DEF Recursive
        <4> QED  BY <3>1, <3>2, <3>3, <4>1
      <3>4. CASE ~(i > N \/ cut(i))
        <4>1. taken(i) \in 1 .. r
          BY <1>2, <1>3, <3>4
        <4>2. less[r] = r - taken(i) /\ r # 0
          BY <3>1, <3>4
        <4>3. Recursive(D, less, r) /\ less[r] \in D
          <5>1. r \in 0 .. N /\ r - taken(i) \in 0 .. N /\ r - taken(i) < r
            BY <1>2, <4>1
          <5> QED  BY <4>2, <5>1 DEF Recursive
        <4>4. h[less[r]] \in Chars
          BY <4>3
        <4>5. step[<<r, h[less[r]]>>] = <<char(i)>> \o h[less[r]]
          BY <3>1, <4>2, <4>4
        <4>6. i + taken(i) \in 1 .. (N + 1) /\ N + 1 - (i + taken(i)) = r - taken(i)
          BY <1>2, <4>1
        <4>7. f[i + taken(i)] = h[less[r]]
          BY <4>2, <4>6
        <4> QED  BY <3>1, <3>2, <3>4, <4>3, <4>5, <4>7
      <3> QED  BY <3>3, <3>4
    <2>6. f \in [1 .. (N + 1) -> Chars]
      <3>1. \A i \in 1 .. (N + 1) : N + 1 - i \in D
        BY <1>2
      <3> QED  BY <3>1
    <2> HIDE DEF f
    <2> QED  BY <1>7, <2>5, <2>6
  <1>9. Reads(from)
    BY <1>6, <1>8
  <1> HIDE DEF from
  <1> DEFINE Typed(i) == from[i] \in Chars /\ Len(from[i]) <= N + 1 - i
             T == {r \in Nat : r <= N => Typed(N + 1 - r)}
  <1>10. ASSUME NEW r \in Nat, \A q \in Nat : q < r => q \in T
         PROVE  r \in T
    <2> SUFFICES ASSUME r <= N
                 PROVE  Typed(N + 1 - r)
      OBVIOUS
    <2> DEFINE i == N + 1 - r
    <2>1. i \in 1 .. (N + 1) /\ N + 1 - i = r
      BY <1>2
    <2> HIDE DEF i
    <2>2. CASE i > N \/ cut(i)
      <3>1. from[i] = <<>>
        BY <1>9, <2>1, <2>2
      <3> QED  BY <2>1, <3>1 DEF i
    <2>3. CASE ~(i > N \/ cut(i))
      <3>1. i \in 1 .. N
        BY <1>2, <2>1, <2>3
      <3>2. taken(i) \in 1 .. r
        <4>1. N - i + 1 = r
          BY <1>2, <2>1
        <4> QED  BY <1>3, <3>1, <4>1
      <3> DEFINE q == r - taken(i)
      <3>3. q \in Nat /\ q < r /\ q <= N /\ N + 1 - q = i + taken(i)
        BY <1>2, <2>1, <3>2
      <3>4. Typed(i + taken(i))
        BY <1>10, <3>3
      <3>5. from[i] = <<char(i)>> \o from[i + taken(i)]
        BY <1>9, <2>1, <2>3
      <3>6. <<char(i)>> \in Chars /\ Len(<<char(i)>>) = 1
        BY <1>4, <3>1
      <3>7. from[i] \in Chars /\ Len(from[i]) = 1 + Len(from[i + taken(i)])
        BY <3>4, <3>5, <3>6, ConcatProperties
      <3>8. Len(from[i + taken(i)]) \in Nat /\ Len(from[i + taken(i)]) <= q
        BY <1>2, <2>1, <3>2, <3>4
      <3>9. Len(from[i]) <= N + 1 - i
        BY <2>1, <3>2, <3>7, <3>8
      <3> QED  BY <3>7, <3>9 DEF i
    <2> QED  BY <2>2, <2>3
  <1>11. Nat \subseteq T
    <2> HIDE DEF T
    <2> QED  BY <1>10, StrongInduction
  <1>12. Typed(1)
    <2>1. N \in T /\ N + 1 - N = 1
      BY <1>2, <1>11
    <2> QED  BY <1>2, <2>1
  <1>13. N + 1 - 1 = N
    BY <1>2
  <1> QED  BY <1>1, <1>12, <1>13 DEF N

LEMMA CharactersType ==
  ASSUME NEW charset \in Charset, NEW bytes \in Seq(Byte)
  PROVE  /\ Characters(charset, bytes) \in Seq(Seq(Byte))
         /\ Len(Characters(charset, bytes)) \in 0 .. Len(bytes)
  <1>1. CASE charset = "UTF-8"
    <2>1. Characters(charset, bytes) = Utf8Characters(bytes)
      BY <1>1 DEF Characters
    <2> QED  BY <2>1, Utf8CharactersType
  <1>2. CASE charset # "UTF-8"
    <2> DEFINE single == [i \in 1 .. Len(bytes) |-> <<bytes[i]>>]
    <2>1. Characters(charset, bytes) = single
      BY <1>2 DEF Characters
    <2>2. single \in [1 .. Len(bytes) -> Seq(Byte)] /\ Len(bytes) \in Nat
      OBVIOUS
    <2>3. single \in Seq(Seq(Byte)) /\ Len(single) = Len(bytes)
      <3> HIDE DEF single
      <3> QED  BY <2>2
    <2> QED  BY <2>1, <2>2, <2>3
  <1> QED  BY <1>1, <1>2

\* The recursion in getBytes() is a function.
IsBytesOf(f, characters) ==
  Concatenates(f, Len(characters), characters)

LEMMA BytesOfRecursion ==
  ASSUME NEW characters \in Seq(Seq(Byte))
  PROVE  \E f \in [0 .. Len(characters) -> Seq(Byte)] :
           IsBytesOf(f, characters) /\ BytesOf(characters) = f[Len(characters)]
  <1> DEFINE Upto(f) ==
               f = [i \in 0 .. Len(characters) |-> IF i = 0 THEN <<>> ELSE f[i - 1] \o characters[i]]
             upTo == CHOOSE f : Upto(f)
  <1>1. Len(characters) \in Nat /\ characters \in [1 .. Len(characters) -> Seq(Byte)]
    OBVIOUS
  <1>2. \A f : Upto(f) <=> IsBytesOf(f, characters)
    BY DEF IsBytesOf, Concatenates
  <1>3. BytesOf(characters) = upTo[Len(characters)]
    BY DEF BytesOf
  <1> HIDE DEF Upto
  <1>4. \E f : Upto(f)
    BY <1>1, <1>2, Concatenation DEF IsBytesOf
  <1>5. Upto(upTo)
    BY <1>4
  <1> HIDE DEF upTo
  <1>6. upTo \in [0 .. Len(characters) -> Seq(Byte)]
    BY <1>1, <1>2, <1>5, Concatenation DEF IsBytesOf
  <1> QED  BY <1>2, <1>3, <1>5, <1>6

LEMMA BytesOfType ==
  ASSUME NEW characters \in Seq(Seq(Byte))
  PROVE  BytesOf(characters) \in Seq(Byte)
  <1>1. PICK f \in [0 .. Len(characters) -> Seq(Byte)] : BytesOf(characters) = f[Len(characters)]
    BY BytesOfRecursion
  <1>2. Len(characters) \in 0 .. Len(characters)
    OBVIOUS
  <1> QED  BY <1>1, <1>2

\* In ISO-8859-1 each byte is a character, and the same byte again.
LEMMA Latin1IsTransparent ==
  ASSUME NEW bytes \in Seq(Byte)
  PROVE  /\ BytesOf(Characters("ISO-8859-1", bytes)) = bytes
         /\ Len(Characters("ISO-8859-1", bytes)) = Len(bytes)
  <1> DEFINE N == Len(bytes)
             single == [i \in 1 .. N |-> <<bytes[i]>>]
  <1>1. Characters("ISO-8859-1", bytes) = single
    BY DEF Characters
  <1>2. /\ N \in Nat /\ Len(single) = N /\ single \in Seq(Seq(Byte))
        /\ \A i \in 1 .. N : single[i] = <<bytes[i]>>
    <2>1. single \in [1 .. N -> Seq(Byte)] /\ N \in Nat /\ \A i \in 1 .. N : single[i] = <<bytes[i]>>
      OBVIOUS
    <2> HIDE DEF single, N
    <2> QED  BY <2>1
  <1> HIDE DEF single
  <1>3. PICK f \in [0 .. N -> Seq(Byte)] :
          Concatenates(f, N, single) /\ BytesOf(single) = f[N]
    BY <1>2, BytesOfRecursion DEF IsBytesOf
  <1> DEFINE T == {i \in 0 .. N : f[i] = SubSeq(bytes, 1, i)}
  <1>4. 0 \in T
    <2>1. 0 \in 0 .. N
      BY <1>2
    <2>2. f[0] = <<>>
      BY <1>3, <2>1 DEF Concatenates
    <2>3. SubSeq(bytes, 1, 0) = <<>>
      OBVIOUS
    <2> QED  BY <2>1, <2>2, <2>3
  <1>5. ASSUME NEW i \in 1 .. N, i - 1 \in T
        PROVE  i \in T
    <2>1. i \in 0 .. N /\ i # 0
      BY <1>2
    <2>2. f[i] = SubSeq(bytes, 1, i - 1) \o <<bytes[i]>>
      BY <1>2, <1>3, <1>5, <2>1 DEF Concatenates
    <2>3. SubSeq(bytes, 1, i - 1) \o <<bytes[i]>> = SubSeq(bytes, 1, i)
      BY <1>2
    <2> QED  BY <2>1, <2>2, <2>3
  <1>6. 0 .. N \subseteq T
    <2> HIDE DEF T
    <2> QED  BY <1>2, <1>4, <1>5, CountingInduction
  <1>7. SubSeq(bytes, 1, N) = bytes
    OBVIOUS
  <1>8. f[N] = bytes
    <2>1. N \in T
      BY <1>2, <1>6
    <2> QED  BY <1>7, <2>1
  <1> QED  BY <1>1, <1>2, <1>3, <1>8 DEF N

-----------------------------------------------------------------------------
(* The decoder.                                                            *)

\* The bits that the varint under way may have.
Width == IF decoding = "UVARINT" THEN Bits64 ELSE Bits32

\* What was read of it is in the bits below the position.
VarintInWidth ==
  /\ varint \in [bitpos : Nat, result : Nat]
  /\ varint.result < TwoTo[Least(varint.bitpos, Width)]

DecoderInv == DecoderTypeOK /\ VarintInWidth

LEMMA WidthType == Width \in 0 .. Bits64 /\ Width' \in 0 .. Bits64
  BY Widths DEF Width

LEMMA NoVarintInWidth ==
  /\ varint = NoVarint => VarintInWidth
  /\ varint' = NoVarint => VarintInWidth'
  <1>1. \A w \in 0 .. Bits64 : Least(0, w) = 0
    BY DEF Least
  <1>2. NoVarint \in [bitpos : Nat, result : Nat] /\ NoVarint.bitpos = 0 /\ NoVarint.result = 0
    BY DEF NoVarint
  <1> QED  BY <1>1, <1>2, WidthType, PowersOfTwo DEF VarintInWidth

LEMMA VarintInWidthType ==
  ASSUME VarintInWidth
  PROVE  varint \in [bitpos : Nat, result : Uint64]
  <1>1. Least(varint.bitpos, Width) \in 0 .. Bits64
    <2>1. \A m \in Nat, w \in 0 .. Bits64 : Least(m, w) \in 0 .. Bits64
      BY Widths DEF Least
    <2> QED  BY <2>1, WidthType DEF VarintInWidth
  <1>2. varint.result \in Uint64
    BY <1>1, WidthsAreUint64 DEF VarintInWidth
  <1> QED  BY <1>2 DEF VarintInWidth

LEMMA VarintInWidthTypeNext ==
  ASSUME VarintInWidth'
  PROVE  varint' \in [bitpos : Nat, result : Uint64]
  <1>1. Least(varint'.bitpos, Width') \in 0 .. Bits64
    <2>1. \A m \in Nat, w \in 0 .. Bits64 : Least(m, w) \in 0 .. Bits64
      BY Widths DEF Least
    <2> QED  BY <2>1, WidthType DEF VarintInWidth
  <1>2. varint'.result \in Uint64
    BY <1>1, WidthsAreUint64 DEF VarintInWidth
  <1> QED  BY <1>2 DEF VarintInWidth

LEMMA FieldsType ==
  /\ Len(Fields) = 4
  /\ \A i \in 1..4 : /\ Fields[i].tag = i
                     /\ Fields[i].ltype \in {"UVARINT", "BOOL"}
                     /\ Fields[i].bits \in 0 .. Bits64
                     /\ Fields[i].default \in Uint64
  /\ Fields[3].bits = Bits32 /\ Fields[3].default = 0
  /\ Fields[4].bits = 1 /\ Fields[4].default = 0
  <1>1. 0 \in Uint64
    BY PowerType, WidthsAreUint64, PowersOfTwo, Widths
  <1>2. DefaultCheckInDelay \in Uint64
    BY ExchangeAssumption
  <1> QED  BY <1>1, <1>2, Widths DEF Fields

MessageOK(m) ==
  /\ m \in Messages
  /\ m.value[3] < TwoTo[Bits32] /\ m.value[4] \in {0, 1}

LEMMA DefaultMessageOK == MessageOK(DefaultMessage)
  <1>1. DefaultMessage \in Messages
    BY FieldsType DEF DefaultMessage, Messages
  <1>2. DefaultMessage.value[3] = 0 /\ DefaultMessage.value[4] = 0
    BY FieldsType DEF DefaultMessage
  <1>3. TwoTo[Bits32] \in Nat /\ TwoTo[Bits32] >= 1
    BY PowerType, Widths
  <1> QED  BY <1>1, <1>2, <1>3 DEF MessageOK

\* The search goes around once, so that it finds a field from wherever the
\* last one ended.
LEMMA IterFindAll ==
  ASSUME NEW start \in 1..4, NEW tag
  PROVE  IterFind(start, tag) = {i \in 1..4 : i = tag}
  <1> DEFINE Visits(f) == f = [k \in 0 .. (Len(Fields) - 1) |-> IF k = 0 THEN start ELSE IterNext(f[k - 1])]
             visited == CHOOSE f : Visits(f)
             step == [x \in (1 .. 3) \X (1..4) |-> IterNext(x[2])]
  <1>1. \A i \in 1..4 : IterNext(i) \in 1..4 /\ IterNext(i) = IF i = 4 THEN 1 ELSE i + 1
    BY FieldsType DEF IterNext
  <1>2. step \in [(1 .. 3) \X (1..4) -> 1..4]
    BY <1>1
  <1>3. PICK f \in [0 .. 3 -> 1..4] : Counts(f, 3, start, step)
    <2> HIDE DEF step
    <2>1. 3 \in Nat
      OBVIOUS
    <2> QED  BY <1>2, <2>1, CountingFunction
  <1>4. Visits(f)
    <2>1. f[0] = start /\ \A k \in 1 .. 3 : f[k] = IterNext(f[k - 1])
      BY <1>3 DEF Counts
    <2>2. Len(Fields) - 1 = 3 /\ \A k \in 0 .. 3 : k # 0 => k \in 1 .. 3
      BY FieldsType
    <2> QED  BY <2>1, <2>2
  <1>5. Visits(visited)
    BY <1>4
  <1>6. IterFind(start, tag)
          = {i \in {visited[k] : k \in 0 .. (Len(Fields) - 1)} : Fields[i].tag = tag}
    BY DEF IterFind
  <1> HIDE DEF visited
  <1>7. Len(Fields) - 1 = 3
    BY FieldsType
  <1>8. /\ visited[0] = start /\ visited[1] = IterNext(visited[0])
        /\ visited[2] = IterNext(visited[1]) /\ visited[3] = IterNext(visited[2])
    <2>1. \A k \in 0 .. 3 : visited[k] = IF k = 0 THEN start ELSE IterNext(visited[k - 1])
      BY <1>5, <1>7
    <2>2. /\ visited[1] = IterNext(visited[1 - 1]) /\ visited[2] = IterNext(visited[2 - 1])
          /\ visited[3] = IterNext(visited[3 - 1]) /\ visited[0] = start
      BY <2>1
    <2>3. 1 - 1 = 0 /\ 2 - 1 = 1 /\ 3 - 1 = 2
      OBVIOUS
    <2> QED  BY <2>2, <2>3
  <1>9. {visited[k] : k \in 0 .. 3} = 1..4
    <2>1. \A k \in 0 .. 3 : visited[k] \in 1..4
      BY <1>1, <1>8
    <2>2. ASSUME NEW i \in 1..4
          PROVE  \E k \in 0 .. 3 : visited[k] = i
      <3>1. \/ start = i \/ IterNext(start) = i \/ IterNext(IterNext(start)) = i
            \/ IterNext(IterNext(IterNext(start))) = i
        <4>1. IterNext(1) = 2 /\ IterNext(2) = 3 /\ IterNext(3) = 4 /\ IterNext(4) = 1
          BY <1>1
        <4>2. start \in {1, 2, 3, 4} /\ i \in {1, 2, 3, 4}
          OBVIOUS
        <4> QED  BY <4>1, <4>2
      <3>2. 0 \in 0 .. 3 /\ 1 \in 0 .. 3 /\ 2 \in 0 .. 3 /\ 3 \in 0 .. 3
        OBVIOUS
      <3> QED  BY <1>8, <3>1, <3>2
    <2> QED  BY <2>1, <2>2
  <1> QED  BY <1>6, <1>7, <1>9, FieldsType

\* The invariant by its parts.
StreamOK ==
  /\ buffer \in Seq(Byte)
  /\ stream \in [state : Nat, bytes_left : Nat]
  /\ stream.state + stream.bytes_left = Len(buffer)
DecodingOK ==
  decoding \in {"idle", "tag", "UVARINT", "BOOL", "skip_varint", "skip_string", "ok", "failed"}
DecoderParts ==
  StreamOK /\ DecodingOK /\ VarintInWidth /\ iter \in 1..4 /\ MessageOK(message)

LEMMA DecoderInvByParts ==
  /\ DecoderInv <=> DecoderParts
  /\ DecoderInv' <=> DecoderParts'
  BY VarintInWidthType, VarintInWidthTypeNext, FieldsType
     DEF DecoderInv, DecoderTypeOK, DecoderParts, StreamOK, DecodingOK, MessageOK

LEMMA StreamMovesOn ==
  ASSUME StreamOK, UNCHANGED buffer, NEW count \in 0 .. stream.bytes_left, stream' = Taken(count)
  PROVE  StreamOK'
  BY DEF StreamOK, Taken

LEMMA NextByteType ==
  ASSUME StreamOK, HasByte
  PROVE  NextByte \in Byte /\ NextByte \in Nat /\ 1 \in 0 .. stream.bytes_left
  <1>1. stream.state + 1 \in 1 .. Len(buffer) /\ 1 \in 0 .. stream.bytes_left
    BY DEF StreamOK, HasByte
  <1>2. NextByte \in Byte
    BY <1>1 DEF StreamOK, NextByte
  <1>3. \A b \in Byte : b \in Nat
    BY DEF Byte
  <1> QED  BY <1>1, <1>2, <1>3

LEMMA Add32InWidth ==
  ASSUME VarintInWidth, Width = Bits32, NEW b \in Nat
  PROVE  /\ Add32(varint, b) \in [bitpos : Nat, result : Nat]
         /\ Add32(varint, b).result < TwoTo[Least(Add32(varint, b).bitpos, Bits32)]
  <1> DEFINE p == varint.bitpos
             r == varint.result
  <1>1. p \in Nat /\ r \in Nat /\ r < TwoTo[Least(p, Bits32)] /\ Bits32 \in 0 .. Bits64
    BY Widths DEF VarintInWidth
  <1>2. Add32(varint, b) =
          [bitpos |-> p + 7, result |-> IF p >= Bits32 THEN r ELSE r + Shifted(b, p, Bits32)]
    BY DEF Add32
  <1> HIDE DEF p, r
  <1>3. CASE p >= Bits32
    <2>1. Least(p, Bits32) = Bits32 /\ Least(p + 7, Bits32) = Bits32
      BY <1>1, <1>3, Widths DEF Least
    <2> QED  BY <1>1, <1>2, <1>3, <2>1
  <1>4. CASE ~(p >= Bits32)
    <2>1. p \in 0 .. Bits32 /\ Least(p, Bits32) = p
      BY <1>1, <1>4, Widths DEF Least
    <2>2. /\ r + Shifted(b, p, Bits32) \in Nat
          /\ r + Shifted(b, p, Bits32) < TwoTo[Least(p + 7, Bits32)]
      BY <1>1, <2>1, NextSevenBits
    <2> QED  BY <1>1, <1>2, <1>4, <2>2
  <1> QED  BY <1>3, <1>4

LEMMA Add64InWidth ==
  ASSUME VarintInWidth, Width = Bits64, varint.bitpos < Bits64, NEW b \in Nat
  PROVE  /\ Add64(varint, b) \in [bitpos : Nat, result : Nat]
         /\ Add64(varint, b).result < TwoTo[Least(Add64(varint, b).bitpos, Bits64)]
  <1> DEFINE p == varint.bitpos
             r == varint.result
  <1>1. p \in 0 .. Bits64 /\ r \in Nat /\ Least(p, Bits64) = p /\ r < TwoTo[p] /\ Bits64 \in 0 .. Bits64
    BY Widths DEF VarintInWidth, Least
  <1>2. Add64(varint, b) = [bitpos |-> p + 7, result |-> r + Shifted(b, p, Bits64)]
    BY DEF Add64
  <1> HIDE DEF p, r
  <1>3. /\ r + Shifted(b, p, Bits64) \in Nat
        /\ r + Shifted(b, p, Bits64) < TwoTo[Least(p + 7, Bits64)]
    BY <1>1, NextSevenBits
  <1> QED  BY <1>1, <1>2, <1>3

LEMMA Value32Type ==
  ASSUME StreamOK, VarintInWidth, Width = Bits32, HasByte
  PROVE  Value32 \in Nat
  BY Add32InWidth, NextByteType DEF Value32

\* What the steps have in common: one byte is taken, perhaps more; a varint
\* that was read whole is forgotten.
LEMMA SkipKeepsInv ==
  ASSUME DecoderParts, HasByte, UNCHANGED buffer, varint' = NoVarint, NEW count \in Nat, Skip(count)
  PROVE  DecoderParts'
  <1>1. 1 \in 0 .. stream.bytes_left
    BY NextByteType DEF DecoderParts
  <1>2. StreamOK'
    <2>1. CASE stream.bytes_left - 1 >= count
      <3>1. 1 + count \in 0 .. stream.bytes_left
        BY <1>1, <2>1 DEF DecoderParts, StreamOK
      <3> QED  BY <2>1, <3>1, StreamMovesOn DEF DecoderParts, Skip
    <2>2. CASE ~(stream.bytes_left - 1 >= count)
      BY <1>1, <2>2, StreamMovesOn DEF DecoderParts, Skip
    <2> QED  BY <2>1, <2>2
  <1> QED  BY <1>2, NoVarintInWidth DEF DecoderParts, DecodingOK, Skip

LEMMA DecoderStepKeepsInv ==
  ASSUME DecoderInv, DecoderStep
  PROVE  DecoderInv'
  <1> USE DEF DecoderParts
  <1>1. DecoderParts
    BY DecoderInvByParts
  <1>2. ASSUME ReadVarint32
        PROVE  DecoderParts'
    <2>1. HasByte /\ UNCHANGED <<buffer, iter, message>> /\ Width = Bits32
      BY <1>2 DEF ReadVarint32, Fail, Width
    <2>2. stream' = Taken(1)
      BY <1>2 DEF ReadVarint32, Fail
    <2>3. StreamOK'
      BY <1>1, <2>1, <2>2, NextByteType, StreamMovesOn
    <2>4. CASE Fail(1)
      BY <1>1, <2>1, <2>3, <2>4, NoVarintInWidth DEF Fail, DecodingOK
    <2>5. CASE varint' = Add32(varint, NextByte) /\ UNCHANGED decoding
      <3>1. Width' = Bits32
        BY <2>1, <2>5 DEF Width
      <3>2. VarintInWidth'
        BY <1>1, <2>1, <2>5, <3>1, Add32InWidth, NextByteType DEF VarintInWidth
      <3> QED  BY <1>1, <2>1, <2>3, <2>5, <3>2 DEF DecodingOK
    <2> QED  BY <1>2, <2>4, <2>5 DEF ReadVarint32
  <1>3. ASSUME EndMessage
        PROVE  DecoderParts'
    <2>1. /\ HasByte /\ varint' = NoVarint /\ stream' = Taken(1) /\ decoding' = "ok"
          /\ UNCHANGED <<buffer, iter, message>>
      BY <1>3 DEF EndMessage, EndsVarint32, ReadOn
    <2>2. StreamOK'
      BY <1>1, <2>1, NextByteType, StreamMovesOn
    <2> QED  BY <1>1, <2>1, <2>2, NoVarintInWidth DEF DecodingOK
  <1>4. ASSUME DecodeKnown
        PROVE  DecoderParts'
    <2>1. PICK i \in IterFind(iter, Tag) : DecodeField(i)
      BY <1>4 DEF DecodeKnown
    <2>2. i \in 1..4
      BY <1>1, IterFindAll
    <2>3. HasByte /\ varint' = NoVarint /\ UNCHANGED buffer
      BY <1>4 DEF DecodeKnown, EndsVarint32
    <2>4. StreamOK'
      BY <1>1, <2>1, <2>3, NextByteType, StreamMovesOn DEF DecodeField
    <2>5. MessageOK(message')
      BY <1>1, <2>1, <2>2 DEF MessageOK, Messages, DecodeField
    <2>6. DecodingOK' /\ iter' \in 1..4
      BY <2>1, <2>2, FieldsType DEF DecodingOK, DecodeField
    <2> QED  BY <2>3, <2>4, <2>5, <2>6, NoVarintInWidth
  <1>5. ASSUME SkipUnknown
        PROVE  DecoderParts'
    <2>1. HasByte /\ varint' = NoVarint /\ UNCHANGED buffer /\ SkipField(WireType)
      BY <1>5 DEF SkipUnknown, EndsVarint32
    <2>2. ASSUME NEW next \in {"skip_varint", "skip_string", "failed"},
                 ReadOn(next), UNCHANGED message
          PROVE  DecoderParts'
      <3>1. StreamOK'
        BY <1>1, <2>1, <2>2, NextByteType, StreamMovesOn DEF ReadOn
      <3> QED  BY <1>1, <2>1, <2>2, <3>1, NoVarintInWidth DEF DecodingOK, ReadOn
    <2>3. ASSUME NEW count \in {4, 8}, Skip(count)
          PROVE  DecoderParts'
      BY <1>1, <2>1, <2>3, SkipKeepsInv
    <2> QED  BY <2>1, <2>2, <2>3 DEF SkipField
  <1>6. ASSUME ReadUvarint
        PROVE  DecoderParts'
    <2>1. HasByte /\ UNCHANGED buffer /\ Width = Bits64
      BY <1>6 DEF ReadUvarint, Width
    <2>2. CASE Fail(0)
      <3>1. 0 \in 0 .. stream.bytes_left
        BY <1>1 DEF StreamOK
      <3>2. StreamOK'
        BY <1>1, <2>1, <2>2, <3>1, StreamMovesOn DEF Fail
      <3> QED  BY <1>1, <2>2, <3>2, NoVarintInWidth DEF Fail, DecodingOK
    <2>3. CASE /\ varint.bitpos < Bits64
               /\ varint' = Add64(varint, NextByte)
               /\ stream' = Taken(1)
               /\ UNCHANGED <<decoding, iter, message>>
      <3>1. Width' = Bits64
        BY <2>1, <2>3 DEF Width
      <3>2. VarintInWidth'
        BY <1>1, <2>1, <2>3, <3>1, Add64InWidth, NextByteType DEF VarintInWidth
      <3>3. StreamOK'
        BY <1>1, <2>1, <2>3, NextByteType, StreamMovesOn
      <3> QED  BY <1>1, <2>3, <3>2, <3>3 DEF DecodingOK
    <2>4. CASE /\ varint.bitpos < Bits64
               /\ LET value == Add64(varint, NextByte).result
                      clamped == value % TwoTo[Fields[iter].bits]
                  IN  /\ message' = [message EXCEPT !.value[iter] = clamped]
                      /\ ReadOn(IF clamped = value THEN "tag" ELSE "failed")
               /\ varint' = NoVarint
      <3> DEFINE value == Add64(varint, NextByte).result
                 width == Fields[iter].bits
                 clamped == value % TwoTo[width]
      <3>1. value \in Nat
        BY <1>1, <2>1, <2>4, Add64InWidth, NextByteType
      <3>2. width \in 0 .. Bits64 /\ TwoTo[width] \in Nat /\ TwoTo[width] >= 1
        BY <1>1, FieldsType, PowerType
      <3>3. clamped \in Nat /\ clamped < TwoTo[width]
        <4>1. \A x, y \in Nat : y >= 1 => x % y \in Nat /\ x % y < y
          BY SMTT(30)
        <4> HIDE DEF value, width
        <4> QED  BY <3>1, <3>2, <4>1
      <3>4. message' = [message EXCEPT !.value[iter] = clamped]
        BY <2>4
      <3>5. stream' = Taken(1) /\ decoding' \in {"tag", "failed"} /\ UNCHANGED iter
        BY <2>4 DEF ReadOn
      <3>6. clamped \in Uint64
        BY <3>2, <3>3, WidthsAreUint64
      <3>7. iter = 3 => clamped < TwoTo[Bits32]
        BY <3>3, FieldsType
      <3>8. iter = 4 => clamped \in {0, 1}
        <4> SUFFICES ASSUME iter = 4
                     PROVE  clamped \in {0, 1}
          OBVIOUS
        <4>1. width = 1
          BY FieldsType
        <4> HIDE DEF clamped, width
        <4> QED  BY <3>3, <4>1, OneBit
      <3> HIDE DEF clamped
      <3>9. MessageOK(message')
        BY <1>1, <3>4, <3>6, <3>7, <3>8 DEF MessageOK, Messages
      <3>10. StreamOK'
        BY <1>1, <2>1, <3>5, NextByteType, StreamMovesOn
      <3> QED  BY <1>1, <2>4, <3>5, <3>9, <3>10, NoVarintInWidth DEF DecodingOK
    <2> QED  BY <1>6, <2>2, <2>3, <2>4 DEF ReadUvarint
  <1>7. ASSUME ReadBool
        PROVE  DecoderParts'
    <2>1. /\ HasByte /\ varint' = NoVarint /\ UNCHANGED <<buffer, iter>>
          /\ stream' = Taken(1) /\ decoding' = "tag"
      BY <1>7 DEF ReadBool, EndsVarint32, ReadOn
    <2>2. StreamOK'
      BY <1>1, <2>1, NextByteType, StreamMovesOn
    <2>3. PICK bit \in {0, 1} : message' = [message EXCEPT !.value[iter] = bit]
      BY <1>7 DEF ReadBool
    <2>4. bit \in Uint64 /\ bit < TwoTo[Bits32]
      <3>1. \A n \in Nat : n >= 2 => 0 < n /\ 1 < n
        OBVIOUS
      <3>2. 2 <= TwoTo[Bits32] /\ TwoTo[Bits32] \in Nat
        <4>1. 1 \in Nat /\ Bits32 \in Nat /\ 1 <= Bits32 /\ Bits32 <= Bits64 /\ Bits32 \in 0 .. Bits64
          BY Widths
        <4>2. TwoTo[1] <= TwoTo[Bits32] /\ TwoTo[Bits32] \in Nat
          BY <4>1, PowersGrow, PowerType
        <4> QED  BY <4>2, OneBit
      <3>3. bit \in Nat /\ bit < TwoTo[Bits32]
        BY <3>1, <3>2
      <3>4. Bits32 \in 0 .. Bits64
        BY Widths
      <3> QED  BY <3>3, <3>4, WidthsAreUint64
    <2>5. MessageOK(message')
      BY <1>1, <2>3, <2>4 DEF MessageOK, Messages
    <2> QED  BY <1>1, <2>1, <2>2, <2>5, NoVarintInWidth DEF DecodingOK
  <1>8. ASSUME SkipVarint
        PROVE  DecoderParts'
    <2>1. /\ HasByte /\ UNCHANGED <<buffer, varint, iter, message>> /\ stream' = Taken(1)
          /\ decoding = "skip_varint" /\ decoding' \in {"tag", "skip_varint"}
      BY <1>8 DEF SkipVarint
    <2>2. StreamOK'
      BY <1>1, <2>1, NextByteType, StreamMovesOn
    <2>3. VarintInWidth'
      BY <1>1, <2>1 DEF VarintInWidth, Width
    <2> QED  BY <1>1, <2>1, <2>2, <2>3 DEF DecodingOK
  <1>9. ASSUME SkipString
        PROVE  DecoderParts'
    <2>1. HasByte /\ varint' = NoVarint /\ UNCHANGED buffer /\ Skip(Value32) /\ Width = Bits32
      BY <1>9 DEF SkipString, EndsVarint32, Width
    <2>2. Value32 \in Nat
      BY <1>1, <2>1, Value32Type
    <2> QED  BY <1>1, <2>1, <2>2, SkipKeepsInv
  <1>10. ASSUME EndOfStream
         PROVE  DecoderParts'
    BY <1>1, <1>10, NoVarintInWidth DEF EndOfStream, StreamOK, DecodingOK
  <1> QED
    BY <1>2, <1>3, <1>4, <1>5, <1>6, <1>7, <1>8, <1>9, <1>10, DecoderInvByParts DEF DecoderStep

-----------------------------------------------------------------------------
(* The lists and the client.                                               *)

LEMMA NewListType ==
  ASSUME NEW S
  PROVE  NewList(0) \in ArrayLists(S) /\ Consistent(NewList(0))
  BY DEF NewList, ArrayLists, Consistent

\* There is memory for what is added.
LEMMA AddedType ==
  ASSUME NEW S, NEW list \in ArrayLists(S), Consistent(list), NEW item \in S
  PROVE  /\ Added(list, item) \in ArrayLists(S) /\ Consistent(Added(list, item))
         /\ Added(list, item).length = list.length + 1
         /\ Added(list, item).data = Append(list.data, item)
  <1> DEFINE roomy == IF NeedsMemory(list) THEN Grown(list) ELSE list
  <1>1. /\ list.length \in Nat /\ list.allocatedLength \in Nat /\ list.data \in Seq(S)
        /\ list.length = Len(list.data) /\ list.length <= list.allocatedLength
    BY DEF ArrayLists, Consistent
  <1>2. /\ roomy \in ArrayLists(S)
        /\ roomy.length = list.length /\ roomy.data = list.data
        /\ list.length + 1 <= roomy.allocatedLength
    <2>1. CASE NeedsMemory(list)
      <3>1. roomy = [list EXCEPT !.allocatedLength = IF @ <= 0 THEN 1 ELSE 2 * @]
        BY <2>1 DEF Grown
      <3>2. (IF list.allocatedLength <= 0 THEN 1 ELSE 2 * list.allocatedLength) \in Nat
        BY <1>1
      <3>3. list.length + 1 <= (IF list.allocatedLength <= 0 THEN 1 ELSE 2 * list.allocatedLength)
        BY <1>1
      <3> QED  BY <1>1, <3>1, <3>2, <3>3 DEF ArrayLists
    <2>2. CASE ~NeedsMemory(list)
      BY <1>1, <2>2 DEF NeedsMemory
    <2> QED  BY <2>1, <2>2
  <1>3. Added(list, item) = [roomy EXCEPT !.length = @ + 1, !.data = Append(@, item)]
    BY DEF Added
  <1> HIDE DEF roomy
  <1>4. Append(list.data, item) \in Seq(S) /\ Len(Append(list.data, item)) = list.length + 1
    BY <1>1
  <1>5. /\ Added(list, item) \in ArrayLists(S)
        /\ Added(list, item).length = list.length + 1
        /\ Added(list, item).allocatedLength = roomy.allocatedLength
        /\ Added(list, item).data = Append(list.data, item)
    <2>1. list.length + 1 \in Nat
      BY <1>1
    <2> QED  BY <1>2, <1>3, <1>4, <2>1 DEF ArrayLists
  <1> QED  BY <1>2, <1>4, <1>5 DEF Consistent

LEMMA StatusType ==
  ASSUME NEW code
  PROVE  StatusFromCode(code) \in Statuses
  BY DEF StatusFromCode, Statuses

LEMMA PieceType ==
  ASSUME NEW S, NEW s \in Seq(S), NEW n \in 1 .. Len(s)
  PROVE  /\ SubSeq(s, 1, n) \in Seq(S) /\ Len(SubSeq(s, 1, n)) = n
         /\ SubSeq(s, n + 1, Len(s)) \in Seq(S)
         /\ Len(SubSeq(s, n + 1, Len(s))) = Len(s) - n
         /\ \A i \in 1 .. n : SubSeq(s, 1, n)[i] = s[i]
         /\ \A i \in 1 .. (Len(s) - n) : SubSeq(s, n + 1, Len(s))[i] = s[n + i]
  OBVIOUS

LEMMA ArriveKeepsType ==
  ASSUME ClientTypeOK, Arrive
  PROVE  ClientTypeOK'
  <1>1. PICK n \in 1..Len(incoming) :
          /\ received' = received \o SubSeq(incoming, 1, n)
          /\ incoming' = SubSeq(incoming, n + 1, Len(incoming))
    BY DEF Arrive
  <1>2. incoming \in Seq(0..255) /\ received \in Seq(0..255)
    BY DEF ClientTypeOK
  <1>3. SubSeq(incoming, 1, n) \in Seq(0..255) /\ SubSeq(incoming, n + 1, Len(incoming)) \in Seq(0..255)
    BY <1>2, PieceType
  <1>4. incoming' \in Seq(0..255) /\ received' \in Seq(0..255)
    BY <1>1, <1>2, <1>3, ConcatProperties
  <1> QED  BY <1>4 DEF ClientTypeOK, Arrive, responseVars

HeadersWith(Code) ==
  [majorSection : 0..1, section : Nat, statusCode : Code, endSequence : 0..3]

LEMMA ReadHeaderKeepsType ==
  ASSUME ClientTypeOK, ReadHeader
  PROVE  ClientTypeOK'
  <1> DEFINE CodeBytes == [1..3 -> 0..255]
             Headers == HeadersWith(CodeBytes)
  <1>1. /\ received # <<>> /\ received \in Seq(0..255)
        /\ header \in Headers
        /\ UNCHANGED <<open, unnoticed, incoming, body, failedAllocations, holes>>
    BY DEF ClientTypeOK, ReadHeader, HeadersWith
  <1>2. Head(received) \in 0..255 /\ Tail(received) \in Seq(0..255)
    BY <1>1, HeadTailProperties
  <1>3. /\ header.endSequence \in 0..3 /\ header.statusCode \in CodeBytes
        /\ header.section \in Nat /\ header.section + 1 \in Nat
        /\ EndSequence(header.endSequence, Head(received)) \in 0 .. 4
    BY <1>1, <1>2 DEF EndSequence, HeadersWith
  <1> DEFINE ResponseTypeOK ==
               /\ received' \in Seq(0..255)
               /\ reading' \in {"idle", "header", "body", "done"}
               /\ header' \in Headers
               /\ status' \in Statuses
               /\ split' \in BOOLEAN
  <1>4. ASSUME ReadLineEnd
        PROVE  ResponseTypeOK
    <2> DEFINE next == header.section + 1
    <2>1. header' = [header EXCEPT !.endSequence = 2, !.majorSection = 1, !.section = next]
      BY <1>4 DEF ReadLineEnd
    <2>2. header' \in Headers
      <3>1. next \in Nat /\ 1 \in 0..1 /\ 2 \in 0..3
        BY <1>3
      <3> HIDE DEF CodeBytes, next
      <3> QED  BY <1>1, <2>1, <3>1 DEF HeadersWith
    <2> QED  BY <1>2, <1>4, <2>2 DEF ReadLineEnd, ClientTypeOK
  <1>5. ASSUME ReadHeaderEnd
        PROVE  ResponseTypeOK
    BY <1>1, <1>2, <1>5, StatusType DEF ReadHeaderEnd, ClientTypeOK
  <1>6. ASSUME ReadStatusCode
        PROVE  ResponseTypeOK
    <2> DEFINE there == Tail(received)
               count == IF Len(there) < 3 THEN Len(there) ELSE 3
               newCode == [i \in 1..3 |-> IF i <= count THEN there[i] ELSE header.statusCode[i]]
    <2>1. there \in Seq(0..255)
      BY <1>2
    <2> HIDE DEF there
    <2>2. count \in 0 .. 3 /\ count <= Len(there) /\ Len(there) \in Nat
      <3>1. Len(there) \in Nat
        BY <2>1, LenProperties
      <3>2. \A n \in Nat : /\ (IF n < 3 THEN n ELSE 3) \in 0 .. 3
                            /\ (IF n < 3 THEN n ELSE 3) <= n
        OBVIOUS
      <3> QED  BY <3>1, <3>2, Zenon
    <2>3. \A i \in 1..3 : i <= count => there[i] \in 0..255
      <3>1. \A i \in 1..3 : i <= count => i \in 1 .. Len(there)
        BY <2>2
      <3> QED  BY <2>1, <3>1, ElementOfSeq
    <2>4. \A i \in 1..3 : header.statusCode[i] \in 0..255
      BY <1>3
    <2> HIDE DEF count
    <2>5. newCode \in [1..3 -> 0..255]
      BY <2>3, <2>4
    <2>6. header' = [header EXCEPT !.section = 1, !.endSequence = 0, !.statusCode = newCode]
      BY <1>6 DEF ReadStatusCode, there, count
    <2>7. received' = SubSeq(there, count + 1, Len(there)) /\ split' = (count < 3)
          /\ UNCHANGED <<reading, status>>
      BY <1>6 DEF ReadStatusCode, there, count
    <2>8. received' \in Seq(0..255)
      <3>1. \A i \in (count + 1) .. Len(there) : i \in 1 .. Len(there)
        BY <2>2
      <3>2. \A i \in (count + 1) .. Len(there) : there[i] \in 0..255
        BY <2>1, <3>1, ElementOfSeq
      <3>3. count + 1 \in Int /\ Len(there) \in Int
        BY <2>2
      <3> QED  BY <2>1, <2>7, <3>2, <3>3, SubSeqProperties
    <2> HIDE DEF newCode
    <2>9. header' \in Headers
      <3> HIDE DEF CodeBytes
      <3>1. newCode \in CodeBytes /\ 1 \in Nat /\ 0 \in 0..3
        BY <2>5 DEF CodeBytes
      <3> QED  BY <1>1, <2>6, <3>1 DEF HeadersWith
    <2>10. split' \in BOOLEAN
      BY <2>7
    <2> QED  BY <2>7, <2>8, <2>9, <2>10 DEF ClientTypeOK
  <1>7. ASSUME ReadText
        PROVE  ResponseTypeOK
    <2> DEFINE ends == EndSequence(header.endSequence, Head(received))
               next == IF Head(received) = SP /\ InStatusLine(header)
                         THEN header.section + 1 ELSE header.section
    <2>1. ends \in 0 .. 3
      BY <1>3, <1>7 DEF ReadText
    <2>2. header' = [header EXCEPT !.endSequence = ends, !.section = next]
      BY <1>7 DEF ReadText
    <2>3. header' \in Headers
      <3>1. next \in Nat
        BY <1>3
      <3> HIDE DEF CodeBytes, ends, next
      <3> QED  BY <1>1, <2>1, <2>2, <3>1 DEF HeadersWith
    <2> QED  BY <1>2, <1>7, <2>3 DEF ReadText, ClientTypeOK
  <1>8. ResponseTypeOK
    BY <1>4, <1>5, <1>6, <1>7 DEF ReadHeader
  <1> QED  BY <1>1, <1>8 DEF ClientTypeOK, HeadersWith

LEMMA ClientStepKeepsType ==
  ASSUME ClientTypeOK, ClientStep
  PROVE  ClientTypeOK'
  <1>1. ASSUME received # <<>>
        PROVE  Head(received) \in 0..255 /\ Tail(received) \in Seq(0..255)
    BY <1>1, HeadTailProperties DEF ClientTypeOK
  <1>2. CASE HeaderCutOff
    BY <1>2 DEF HeaderCutOff, ClientTypeOK, tcpVars, Statuses
  <1>3. CASE ReadBodyByte
    BY <1>1, <1>3, AddedType DEF ReadBodyByte, ClientTypeOK
  <1>4. CASE LoseBodyByte
    BY <1>1, <1>4, ExchangeAssumption DEF LoseBodyByte, ClientTypeOK
  <1>5. CASE BodyEnds
    BY <1>5 DEF BodyEnds, ClientTypeOK, tcpVars
  <1> QED  BY <1>2, <1>3, <1>4, <1>5, ReadHeaderKeepsType DEF ClientStep

-----------------------------------------------------------------------------
(* The invariant of the exchange.                                          *)

FeederTypeOK ==
  /\ phase \in {"connect", "encode", "send", "response", "decode", "done"}
  /\ report \in SUBSET Reports
  /\ request \in ArrayLists(Byte) /\ Consistent(request)
  /\ response \in Messages

ServerTypeOK ==
  /\ outgoing \in [header : BOOLEAN, length : Nat, body : Seq(Byte)]
  /\ server \in [pc : {"none", "header", "body", "handle", "write", "close", "closed"},
                 contentLength : Nat, arrived : Seq(Byte), bytesRead : Int]
  /\ server.bytesRead \in -1..server.contentLength
  /\ heard \in SUBSET Uint64
  /\ answer \in Seq(WireFields)
  /\ broken \in BOOLEAN

\* The report on its way: what is in requestBuffer, then in the connection,
\* then at the server is a beginning of it, and the whole of it once
\* sendRequest() sends it.
Delivery ==
  /\ \E ms : report \subseteq {ms}
  /\ IsBeginningOf(request.data, EncodedReport(report))
  /\ phase = "send" => request.data = EncodedReport(report)
  /\ phase = "connect" => server.pc = "none"
  /\ phase \in {"connect", "encode", "send"} =>
       ~outgoing.header /\ server.pc \in {"none", "header", "close", "closed"}
  /\ outgoing.header =>
       /\ server.pc \notin {"body", "handle", "write"}
       /\ outgoing.length = Len(EncodedReport(report))
       /\ outgoing.body = EncodedReport(report)
  /\ server.pc \in {"none", "header"} => server.arrived = <<>> /\ server.bytesRead = 0
  /\ server.pc = "body" =>
       /\ server.contentLength = Len(EncodedReport(report))
       /\ IsBeginningOf(server.arrived \o outgoing.body, EncodedReport(report))

ExchangeInv ==
  DecoderInv /\ ClientTypeOK /\ FeederTypeOK /\ ServerTypeOK /\ Delivery

LEMMA ReportType ==
  ASSUME NEW r \in SUBSET Reports, NEW ms, r \subseteq {ms}
  PROVE  /\ EncodedReport(r) \in Seq(Byte)
         /\ EncodedReport(r) # <<>> => /\ r = {ms} /\ ms \in Uint64
                                       /\ EncodedReport(r) = <<8>> \o Varint[ms]
         /\ EncodedReport(r) = <<>> => r = {}
  <1>1. CASE r = {}
    BY <1>1 DEF EncodedReport
  <1>2. CASE r # {}
    <2>1. r = {ms} /\ ms \in Uint64 /\ ms \in Nat
      BY <1>2, ExchangeAssumption, Uint64Type
    <2>2. (CHOOSE m \in r : TRUE) = ms
      BY <2>1
    <2>3. EncodedReport(r) = <<8>> \o Varint[ms]
      BY <1>2, <2>1, <2>2, NumberOnTheWire DEF EncodedReport
    <2>4. <<8>> \in Seq(Byte) /\ Varint[ms] \in Seq(Byte) /\ Len(<<8>>) = 1
      <3>1. 8 \in Byte
        BY DEF Byte
      <3>2. <<8>> \in Seq(Byte) /\ Len(<<8>>) = 1
        BY <3>1
      <3>3. Varint[ms] \in Seq(Byte)
        BY <2>1, VarintBySevenBits
      <3> QED  BY <3>2, <3>3
    <2>5. <<8>> \o Varint[ms] \in Seq(Byte) /\ Len(<<8>> \o Varint[ms]) = 1 + Len(Varint[ms])
      BY <2>4, ConcatProperties
    <2>6. <<8>> \o Varint[ms] # <<>>
      <3>1. Len(Varint[ms]) \in Nat
        BY <2>4, LenProperties
      <3>2. Len(<<8>> \o Varint[ms]) # 0
        BY <2>5, <3>1
      <3> QED  BY <2>5, <3>2, EmptySeq
    <2> QED  BY <2>1, <2>3, <2>5, <2>6
  <1> QED  BY <1>1, <1>2

LEMMA DecoderUnchanged ==
  ASSUME DecoderInv, UNCHANGED decoderVars
  PROVE  DecoderInv'
  BY DEF DecoderInv, DecoderTypeOK, VarintInWidth, Width, decoderVars, HasByte

LEMMA ClientUnchanged ==
  ASSUME ClientTypeOK, UNCHANGED clientVars
  PROVE  ClientTypeOK'
  BY DEF ClientTypeOK, clientVars, tcpVars, responseVars

\* Only the connection changes, and perhaps an allocation fails.
LEMMA ConnectionKeepsType ==
  ASSUME ClientTypeOK, UNCHANGED responseVars,
         open' \in BOOLEAN, unnoticed' \subseteq Sides,
         incoming' \in Seq(0..255), received' \in Seq(0..255),
         failedAllocations' \in 0 .. MaxFailedAllocations, failedAllocations <= failedAllocations'
  PROVE  ClientTypeOK'
  <1>1. holes' \in 0 .. failedAllocations'
    BY ExchangeAssumption DEF ClientTypeOK, responseVars
  <1> QED  BY <1>1 DEF ClientTypeOK, responseVars

LEMMA InitEstablishesInv == Init => ExchangeInv
  <1> SUFFICES ASSUME Init
               PROVE  ExchangeInv
    OBVIOUS
  <1> USE DEF Init
  <1>1. DecoderInv
    <2>1. StreamOK
      BY DEF DecoderInit, StreamOf, StreamOK
    <2>2. DecodingOK /\ iter \in 1..4 /\ varint = NoVarint /\ message = DefaultMessage
      BY DEF DecoderInit, DecodingOK
    <2> QED  BY <2>1, <2>2, NoVarintInWidth, DefaultMessageOK, DecoderInvByParts DEF DecoderParts
  <1>2. ClientTypeOK
    <2>1. HeaderAtStart \in [majorSection : 0..1, section : Nat,
                             statusCode : [1..3 -> 0..255], endSequence : 0..3]
      BY DEF HeaderAtStart
    <2>2. body \in ArrayLists(0..255) /\ Consistent(body)
      BY NewListType DEF ClientInit
    <2>3. /\ open \in BOOLEAN /\ unnoticed \subseteq Sides /\ incoming = <<>> /\ received = <<>> /\ reading = "idle"
          /\ header = HeaderAtStart /\ status \in Statuses /\ split \in BOOLEAN
      BY DEF ClientInit, Statuses
    <2>4. failedAllocations \in 0 .. MaxFailedAllocations /\ holes \in 0 .. failedAllocations
      BY ExchangeAssumption DEF ClientInit
    <2>5. <<>> \in Seq(0..255)
      BY EmptySeq
    <2> QED  BY <2>1, <2>2, <2>3, <2>4, <2>5 DEF ClientTypeOK
  <1>3. FeederTypeOK
    BY NewListType, DefaultMessageOK DEF FeederTypeOK, MessageOK
  <1>4. ServerTypeOK
    <2>1. <<>> \in Seq(Byte) /\ <<>> \in Seq(WireFields)
      BY EmptySeq
    <2>2. outgoing \in [header : BOOLEAN, length : Nat, body : Seq(Byte)]
      BY <2>1 DEF NoRequest
    <2>3. server \in [pc : {"none", "header", "body", "handle", "write", "close", "closed"},
                      contentLength : Nat, arrived : Seq(Byte), bytesRead : Int]
      BY <2>1 DEF NoThread
    <2>4. server.bytesRead \in -1..server.contentLength
      BY DEF NoThread
    <2> QED  BY <2>1, <2>2, <2>3, <2>4 DEF ServerTypeOK
  <1>5. PICK ms : report \subseteq {ms}
    OBVIOUS
  <1>6. request.data = <<>> /\ Len(EncodedReport(report)) \in Nat
    <2>1. EncodedReport(report) \in Seq(Byte)
      BY <1>3, <1>5, ReportType DEF FeederTypeOK
    <2> QED  BY <2>1 DEF NewList
  <1>7. Delivery
    BY <1>5, <1>6 DEF Delivery, NoRequest, NoThread, IsBeginningOf
  <1> QED  BY <1>1, <1>2, <1>3, <1>4, <1>7 DEF ExchangeInv

\* What a step of the feeder leaves alone of the server, and the other way
\* round.
LEMMA ServerUnchanged ==
  ASSUME ServerTypeOK, UNCHANGED <<outgoing, server, heard, answer, broken>>
  PROVE  ServerTypeOK'
  BY DEF ServerTypeOK

LEMMA FeederUnchanged ==
  ASSUME FeederTypeOK, UNCHANGED feederVars
  PROVE  FeederTypeOK'
  BY DEF FeederTypeOK, feederVars

\* Where nothing of the report moves.
LEMMA DeliveryUnchanged ==
  ASSUME Delivery, UNCHANGED <<report, request, outgoing, server>>,
         phase' \in {"encode", "send", "connect"} => phase' = phase
  PROVE  Delivery'
  BY DEF Delivery

LEMMA FeederStepKeepsInv ==
  ASSUME ExchangeInv, FeederStep
  PROVE  ExchangeInv'
  <1> DEFINE E == EncodedReport(report)
  <1>1. /\ DecoderInv /\ ClientTypeOK /\ FeederTypeOK /\ ServerTypeOK /\ Delivery
        /\ E \in Seq(Byte) /\ Len(E) \in Nat
    <2>1. DecoderInv /\ ClientTypeOK /\ FeederTypeOK /\ ServerTypeOK /\ Delivery
      BY DEF ExchangeInv
    <2>2. E \in Seq(Byte)
      BY <2>1, ReportType DEF Delivery, FeederTypeOK
    <2> QED  BY <2>1, <2>2, LenProperties
  <1>2. <<>> \in Seq(0..255)
    BY EmptySeq
  <1>3. failedAllocations \in 0 .. MaxFailedAllocations /\ failedAllocations <= failedAllocations
    BY <1>1, ExchangeAssumption DEF ClientTypeOK
  <1>4. DefaultMessage \in Messages
    BY DefaultMessageOK DEF MessageOK
  <1>5. CASE Connect
    <2>1. DecoderInv'
      BY <1>1, <1>5, DecoderUnchanged DEF Connect
    <2>2. ClientTypeOK'
      BY <1>1, <1>3, <1>5, ConnectionKeepsType DEF Connect, OpenConnection, ClientTypeOK
    <2>3. FeederTypeOK'
      BY <1>1, <1>5 DEF Connect, FeederTypeOK
    <2>4. ServerTypeOK'
      BY <1>1, <1>5 DEF Connect, ServerTypeOK
    <2>5. Delivery'
      BY <1>1, <1>5 DEF Connect, Delivery, ServerTypeOK
    <2> QED  BY <2>1, <2>2, <2>3, <2>4, <2>5 DEF ExchangeInv
  <1>6. ASSUME ConnectFails \/ EncodeFails \/ ResponseRefused
        PROVE  ExchangeInv'
    <2>1. /\ GiveUp
          /\ UNCHANGED <<decoderVars, responseVars, report, request, outgoing, server, heard, answer, broken>>
      BY <1>6 DEF ConnectFails, EncodeFails, ResponseRefused
    <2>2. failedAllocations' \in 0 .. MaxFailedAllocations /\ failedAllocations <= failedAllocations'
      BY <1>1, <1>3, <1>6, ExchangeAssumption
         DEF ConnectFails, EncodeFails, ResponseRefused, RunOutOfMemory, ClientTypeOK
    <2>3. DecoderInv'
      BY <1>1, <2>1, DecoderUnchanged
    <2>4. ClientTypeOK'
      <3>1. /\ open' = FALSE /\ incoming' = <<>> /\ received' = <<>>
            /\ unnoticed' = unnoticed \ {"feeder"}
        BY <2>1 DEF GiveUp, CloseConnection
      <3>2. unnoticed' \subseteq Sides
        BY <1>1, <3>1 DEF ClientTypeOK
      <3> QED  BY <1>1, <1>2, <2>1, <2>2, <3>1, <3>2, ConnectionKeepsType
    <2>5. FeederTypeOK'
      BY <1>1, <1>4, <2>1 DEF GiveUp, FeederTypeOK
    <2>6. ServerTypeOK'
      BY <1>1, <2>1, ServerUnchanged
    <2>7. Delivery'
      BY <1>1, <2>1, DeliveryUnchanged DEF GiveUp
    <2> QED  BY <2>3, <2>4, <2>5, <2>6, <2>7 DEF ExchangeInv
  <1>7. CASE EncodeByte
    <2> DEFINE n == request.length
    <2>1. /\ request \in ArrayLists(Byte) /\ Consistent(request)
          /\ n \in Nat /\ n = Len(request.data) /\ n <= Len(E) /\ request.data \in Seq(Byte)
          /\ \A i \in 1 .. n : request.data[i] = E[i]
      BY <1>1 DEF FeederTypeOK, Delivery, IsBeginningOf, ArrayLists, Consistent
    <2>2. /\ StillToEncode = SubSeq(E, n + 1, Len(E)) /\ StillToEncode # <<>>
          /\ request' = Added(request, Head(StillToEncode))
      BY <1>7 DEF EncodeByte, StillToEncode
    <2>3. n < Len(E) /\ Head(StillToEncode) = E[n + 1] /\ E[n + 1] \in Byte
      <3> HIDE DEF E, n
      <3>1. n + 1 <= Len(E)
        <4>1. SubSeq(E, n + 1, Len(E)) # <<>>
          BY <2>2
        <4>2. n + 1 \in Int /\ Len(E) \in Int
          BY <1>1, <2>1
        <4>3. ~(Len(E) < n + 1)
          BY <4>1, <4>2, SubSeqEmpty
        <4> QED  BY <4>2, <4>3
      <3>2. Head(SubSeq(E, n + 1, Len(E))) = E[n + 1]
        BY <1>1, <2>1, <3>1
      <3>3. n + 1 \in 1 .. Len(E)
        BY <1>1, <2>1, <3>1
      <3> QED  BY <1>1, <2>1, <2>2, <3>1, <3>2, <3>3
    <2>4. /\ request' \in ArrayLists(Byte) /\ Consistent(request')
          /\ request'.data = Append(request.data, E[n + 1])
      <3>1. request' = Added(request, E[n + 1]) /\ E[n + 1] \in Byte
        BY <2>2, <2>3
      <3> HIDE DEF E, n
      <3> QED  BY <2>1, <3>1, AddedType
    <2>5. IsBeginningOf(request'.data, E)
      <3> HIDE DEF E, n
      <3>1. Len(request'.data) = n + 1
        BY <2>1, <2>3, <2>4
      <3>2. \A i \in 1 .. n : request'.data[i] = E[i]
        BY <2>1, <2>3, <2>4
      <3>3. request'.data[n + 1] = E[n + 1]
        BY <2>1, <2>3, <2>4
      <3>4. \A i \in 1 .. n + 1 : i \in 1 .. n \/ i = n + 1
        BY <2>1
      <3> QED  BY <1>1, <2>1, <2>3, <3>1, <3>2, <3>3, <3>4 DEF IsBeginningOf
    <2>6. phase = "encode" /\ UNCHANGED <<decoderVars, clientVars, phase, report, outgoing, server,
                                          heard, answer, response, broken>>
      BY <1>7 DEF EncodeByte
    <2>7. DecoderInv' /\ ClientTypeOK' /\ ServerTypeOK'
      BY <1>1, <2>6, DecoderUnchanged, ClientUnchanged, ServerUnchanged
    <2>8. FeederTypeOK'
      BY <1>1, <2>4, <2>6 DEF FeederTypeOK
    <2>9. Delivery'
      BY <1>1, <2>5, <2>6 DEF Delivery
    <2> QED  BY <2>7, <2>8, <2>9 DEF ExchangeInv
  <1>8. CASE Encode
    <2> DEFINE n == request.length
    <2>1. /\ n \in Nat /\ n = Len(request.data) /\ n <= Len(E) /\ request.data \in Seq(Byte)
          /\ \A i \in 1 .. n : request.data[i] = E[i]
      BY <1>1 DEF FeederTypeOK, Delivery, IsBeginningOf, ArrayLists, Consistent
    <2>2. SubSeq(E, n + 1, Len(E)) = <<>>
      BY <1>8 DEF Encode, StillToEncode
    <2>3. request.data = E
      <3> HIDE DEF E, n
      <3>1. n = Len(E)
        <4>1. n + 1 \in Int /\ Len(E) \in Int
          BY <1>1, <2>1
        <4>2. \A i \in (n + 1) .. Len(E) : E[i] \in Byte
          <5>1. \A i \in (n + 1) .. Len(E) : i \in 1 .. Len(E)
            BY <2>1
          <5> QED  BY <1>1, <5>1, ElementOfSeq
        <4>3. Len(SubSeq(E, n + 1, Len(E))) = IF n + 1 <= Len(E) THEN Len(E) - (n + 1) + 1 ELSE 0
          BY <4>1, <4>2, SubSeqProperties
        <4>4. Len(SubSeq(E, n + 1, Len(E))) = 0
          <5>1. SubSeq(E, n + 1, Len(E)) = <<>> /\ Len(<<>>) = 0
            BY <2>2
          <5> QED  BY <5>1, Zenon
        <4>5. ~(n + 1 <= Len(E))
          BY <4>1, <4>3, <4>4
        <4> QED  BY <1>1, <2>1, <4>5
      <3> QED  BY <1>1, <2>1, <3>1, SeqEqual
    <2>4. phase = "encode" /\ phase' = "send"
          /\ UNCHANGED <<decoderVars, clientVars, report, request, outgoing, server,
                         heard, answer, response, broken>>
      BY <1>8 DEF Encode
    <2>5. DecoderInv' /\ ClientTypeOK' /\ ServerTypeOK'
      BY <1>1, <2>4, DecoderUnchanged, ClientUnchanged, ServerUnchanged
    <2>6. FeederTypeOK'
      BY <1>1, <2>4 DEF FeederTypeOK
    <2>7. Delivery'
      BY <1>1, <2>3, <2>4 DEF Delivery
    <2> QED  BY <2>5, <2>6, <2>7 DEF ExchangeInv
  <1>9. CASE SendRequest
    <2>1. /\ phase = "send" /\ phase' = "response" /\ BeginResponse
          /\ UNCHANGED <<decoderVars, open, report, request, server, heard, answer, response, broken>>
      BY <1>9 DEF SendRequest
    <2>2. /\ request.data = E /\ request.length = Len(E)
          /\ server.pc \in {"none", "header", "close", "closed"}
      BY <1>1, <2>1 DEF Delivery, FeederTypeOK, Consistent
    <2>3. \/ outgoing' = [header |-> TRUE, length |-> Len(E), body |-> E]
          \/ outgoing' = NoRequest
      BY <1>9, <2>2 DEF SendRequest
    <2>4. DecoderInv'
      BY <1>1, <2>1, DecoderUnchanged
    <2>5. ClientTypeOK'
      <3>1. HeaderAtStart \in [majorSection : 0..1, section : Nat,
                               statusCode : [1..3 -> 0..255], endSequence : 0..3]
        BY DEF HeaderAtStart
      <3>2. body' \in ArrayLists(0..255) /\ Consistent(body')
        BY <2>1, NewListType DEF BeginResponse
      <3> QED  BY <1>1, <2>1, <3>1, <3>2 DEF BeginResponse, ClientTypeOK
    <2>6. FeederTypeOK'
      BY <1>1, <2>1 DEF FeederTypeOK
    <2>7. outgoing' \in [header : BOOLEAN, length : Nat, body : Seq(Byte)]
      <3>1. <<>> \in Seq(Byte)
        BY EmptySeq
      <3>2. NoRequest \in [header : BOOLEAN, length : Nat, body : Seq(Byte)]
        BY <3>1 DEF NoRequest
      <3> HIDE DEF E
      <3>3. [header |-> TRUE, length |-> Len(E), body |-> E] \in [header : BOOLEAN, length : Nat, body : Seq(Byte)]
        BY <1>1
      <3> QED  BY <2>3, <3>2, <3>3
    <2>8. ServerTypeOK'
      BY <1>1, <2>1, <2>7 DEF ServerTypeOK
    <2>9. Delivery'
      <3>1. outgoing'.header => outgoing'.length = Len(E) /\ outgoing'.body = E
        BY <2>3 DEF NoRequest
      <3> QED  BY <1>1, <2>1, <2>2, <3>1 DEF Delivery
    <2> QED  BY <2>4, <2>5, <2>6, <2>8, <2>9 DEF ExchangeInv
  <1>10. CASE ReadResponse
    <2>1. ClientStep /\ UNCHANGED <<decoderVars, exchangeVars>>
      BY <1>10 DEF ReadResponse
    <2>2. DecoderInv' /\ ClientTypeOK'
      BY <1>1, <2>1, DecoderUnchanged, ClientStepKeepsType
    <2>3. FeederTypeOK' /\ ServerTypeOK'
      BY <1>1, <2>1, FeederUnchanged, ServerUnchanged DEF exchangeVars, feederVars
    <2>4. Delivery'
      BY <1>1, <2>1, DeliveryUnchanged DEF exchangeVars
    <2> QED  BY <2>2, <2>3, <2>4 DEF ExchangeInv
  <1>11. CASE ResponseTaken
    <2>1. /\ CloseConnection /\ BeginDecode(body.data) /\ phase' = "decode"
          /\ UNCHANGED <<responseVars, failedAllocations,
                         report, request, outgoing, server, heard, answer, response, broken>>
      BY <1>11 DEF ResponseTaken
    <2>2. body.data \in Seq(Byte) /\ Len(body.data) \in Nat
      BY <1>1 DEF ClientTypeOK, ArrayLists, Byte
    <2>3. DecoderInv'
      <3>1. StreamOK'
        BY <2>1, <2>2 DEF BeginDecode, StreamOf, StreamOK
      <3>2. DecoderParts
        BY <1>1, DecoderInvByParts
      <3>3. decoding = "idle" /\ decoding' = "tag" /\ message' = DefaultMessage /\ UNCHANGED <<varint, iter>>
        BY <2>1 DEF BeginDecode
      <3>4. VarintInWidth'
        BY <3>2, <3>3 DEF DecoderParts, VarintInWidth, Width
      <3>5. DecoderParts'
        BY <3>1, <3>2, <3>3, <3>4, DefaultMessageOK DEF DecoderParts, DecodingOK
      <3> QED  BY <3>5, DecoderInvByParts
    <2>4. ClientTypeOK'
      <3>1. /\ open' = FALSE /\ incoming' = <<>> /\ received' = <<>>
            /\ unnoticed' = unnoticed \ {"feeder"}
        BY <2>1 DEF CloseConnection
      <3>2. unnoticed' \subseteq Sides
        BY <1>1, <3>1 DEF ClientTypeOK
      <3> QED  BY <1>1, <1>2, <1>3, <2>1, <3>1, <3>2, ConnectionKeepsType
    <2>5. FeederTypeOK'
      BY <1>1, <2>1 DEF FeederTypeOK
    <2>6. ServerTypeOK' /\ Delivery'
      BY <1>1, <2>1, ServerUnchanged, DeliveryUnchanged
    <2> QED  BY <2>3, <2>4, <2>5, <2>6 DEF ExchangeInv
  <1>12. CASE Decode
    <2>1. DecoderStep /\ UNCHANGED <<clientVars, exchangeVars>>
      BY <1>12 DEF Decode
    <2>2. DecoderInv' /\ ClientTypeOK'
      BY <1>1, <2>1, ClientUnchanged, DecoderStepKeepsInv
    <2>3. FeederTypeOK' /\ ServerTypeOK'
      BY <1>1, <2>1, FeederUnchanged, ServerUnchanged DEF exchangeVars, feederVars
    <2>4. Delivery'
      BY <1>1, <2>1, DeliveryUnchanged DEF exchangeVars
    <2> QED  BY <2>2, <2>3, <2>4 DEF ExchangeInv
  <1>13. CASE Decoded
    <2>1. /\ response' = (IF decoding = "ok" THEN message ELSE DefaultMessage) /\ phase' = "done"
          /\ UNCHANGED <<decoderVars, clientVars, report, request, outgoing, server, heard, answer, broken>>
      BY <1>13 DEF Decoded
    <2>2. DecoderInv' /\ ClientTypeOK' /\ ServerTypeOK'
      BY <1>1, <2>1, DecoderUnchanged, ClientUnchanged, ServerUnchanged
    <2>3. response' \in Messages
      BY <1>1, <1>4, <2>1 DEF DecoderInv, DecoderTypeOK
    <2>4. FeederTypeOK'
      BY <1>1, <2>1, <2>3 DEF FeederTypeOK
    <2>5. Delivery'
      BY <1>1, <2>1, DeliveryUnchanged
    <2> QED  BY <2>2, <2>4, <2>5 DEF ExchangeInv
  <1> QED
    BY <1>5, <1>6, <1>7, <1>8, <1>9, <1>10, <1>11, <1>12, <1>13 DEF FeederStep

AreAppendedInTurn(s, t, u) == (s \o t) \o u = s \o (t \o u)

LEMMA OnePieceAfterAnother ==
  ASSUME NEW S, NEW s \in Seq(S), NEW t \in Seq(S), NEW u \in Seq(S)
  PROVE  AreAppendedInTurn(s, t, u)
  <1>1. (s \o t) \o u = s \o (t \o u)
    BY ConcatAssociative
  <1> QED  BY <1>1 DEF AreAppendedInTurn

\* Taking a piece off one sequence and appending it to the other moves no byte.
LEMMA PieceMoves ==
  ASSUME NEW S, NEW s \in Seq(S), NEW t \in Seq(S), NEW n \in 1 .. Len(t)
  PROVE  /\ s \o SubSeq(t, 1, n) \in Seq(S)
         /\ (s \o SubSeq(t, 1, n)) \o SubSeq(t, n + 1, Len(t)) = s \o t
  <1>1. /\ SubSeq(t, 1, n) \in Seq(S) /\ SubSeq(t, n + 1, Len(t)) \in Seq(S)
        /\ SubSeq(t, 1, n) \o SubSeq(t, n + 1, Len(t)) = t
    OBVIOUS
  <1> DEFINE piece == SubSeq(t, 1, n)
             rest == SubSeq(t, n + 1, Len(t))
  <1> HIDE DEF piece, rest
  <1>2. piece \in Seq(S) /\ rest \in Seq(S) /\ piece \o rest = t
    BY <1>1 DEF piece, rest
  <1>3. s \o piece \in Seq(S)
    BY <1>2, ConcatProperties
  <1>4. (s \o piece) \o rest = s \o (piece \o rest)
    <2>1. AreAppendedInTurn(s, piece, rest)
      BY <1>2, OnePieceAfterAnother
    <2> QED  BY <2>1 DEF AreAppendedInTurn
  <1> QED  BY <1>2, <1>3, <1>4 DEF piece, rest

LEMMA BeginningIsShorter ==
  ASSUME NEW S, NEW s \in Seq(S), NEW t \in Seq(S), NEW u \in Seq(S), IsBeginningOf(s \o t, u)
  PROVE  IsBeginningOf(s, u) /\ (Len(s) >= Len(u) => s = u)
  <1>1. /\ Len(s) \in Nat /\ Len(t) \in Nat /\ Len(u) \in Nat
        /\ Len(s \o t) = Len(s) + Len(t)
        /\ \A i \in 1 .. Len(s) : i \in 1 .. Len(s) + Len(t) /\ (s \o t)[i] = s[i]
    OBVIOUS
  <1>2. Len(s) <= Len(u) /\ \A i \in 1 .. Len(s) : s[i] = u[i]
    BY <1>1 DEF IsBeginningOf
  <1>3. Len(s) >= Len(u) => s = u
    <2> SUFFICES ASSUME Len(s) >= Len(u)
                 PROVE  s = u
      OBVIOUS
    <2>1. Len(s) = Len(u)
      BY <1>1, <1>2
    <2> QED  BY <1>2, <2>1, SeqEqual
  <1> QED  BY <1>2, <1>3 DEF IsBeginningOf

\* The thread hears a number of 64 bits or nothing, whatever the charset.
LEMMA ParsedReportType ==
  ASSUME NEW bytes \in Seq(Byte), IsReport(bytes)
  PROVE  ParsedReport(bytes) \in SUBSET Uint64
  <1>1. CASE bytes = <<>>
    BY <1>1 DEF ParsedReport
  <1>2. CASE bytes # <<>>
    <2>1. Tail(bytes) \in Seq(Byte) /\ IsVarint(Tail(bytes))
      BY <1>2, HeadTailProperties DEF IsReport
    <2> QED  BY <1>2, <2>1, VarintValueType DEF ParsedReport
  <1> QED  BY <1>1, <1>2

LEMMA ServerStepKeepsInv ==
  ASSUME ExchangeInv, ServerStep
  PROVE  ExchangeInv'
  <1> DEFINE E == EncodedReport(report)
  <1>1. /\ DecoderInv /\ ClientTypeOK /\ FeederTypeOK /\ ServerTypeOK /\ Delivery
        /\ E \in Seq(Byte) /\ Len(E) \in Nat
    <2>1. DecoderInv /\ ClientTypeOK /\ FeederTypeOK /\ ServerTypeOK /\ Delivery
      BY DEF ExchangeInv
    <2>2. E \in Seq(Byte)
      BY <2>1, ReportType DEF Delivery, FeederTypeOK
    <2> QED  BY <2>1, <2>2, LenProperties
  <1>2. /\ UNCHANGED <<decoderVars, feederVars, failedAllocations, responseVars, received, broken>>
        /\ UNCHANGED <<phase, report, request>>
    BY DEF ServerStep, ReadRequestHeader, RequestHeaderCutOff, ReadRequestBody, RequestBodyCutOff,
           HandleRequest, WriteAnswer, CloseSocket, clientVars, tcpVars, feederVars
  <1>3. DecoderInv' /\ FeederTypeOK'
    BY <1>1, <1>2, DecoderUnchanged, FeederUnchanged
  <1>4. /\ failedAllocations' \in 0 .. MaxFailedAllocations /\ failedAllocations <= failedAllocations'
        /\ received' \in Seq(0..255)
    BY <1>1, <1>2, ExchangeAssumption DEF ClientTypeOK
  <1>5. CASE ReadRequestHeader
    <2>1. /\ server.pc = "header" /\ outgoing.header
          /\ outgoing' = [outgoing EXCEPT !.header = FALSE]
          /\ server' = [server EXCEPT !.pc = IF outgoing.length > 0 THEN "body" ELSE "handle",
                                      !.contentLength = outgoing.length]
          /\ UNCHANGED <<clientVars, heard, answer>>
      BY <1>5 DEF ReadRequestHeader
    <2>2. /\ outgoing.length = Len(E) /\ outgoing.body = E
          /\ server.arrived = <<>> /\ server.bytesRead = 0
          /\ phase \notin {"connect", "encode", "send"}
      BY <1>1, <2>1 DEF Delivery
    <2>3. ClientTypeOK'
      BY <1>1, <2>1, ClientUnchanged
    <2>4. /\ outgoing' \in [header : BOOLEAN, length : Nat, body : Seq(Byte)]
          /\ server' \in [pc : {"none", "header", "body", "handle", "write", "close", "closed"},
                         contentLength : Nat, arrived : Seq(Byte), bytesRead : Int]
      BY <1>1, <2>1 DEF ServerTypeOK
    <2>5. /\ server'.arrived = <<>> /\ server'.contentLength = Len(E) /\ outgoing'.body = E
          /\ ~outgoing'.header /\ server'.pc \in {"body", "handle"} /\ server'.bytesRead = 0
      BY <1>1, <2>1, <2>2 DEF ServerTypeOK
    <2>8. ServerTypeOK'
      <3>1. server'.bytesRead \in -1..server'.contentLength
        <4> HIDE DEF E
        <4> QED  BY <1>1, <2>5
      <3> QED  BY <1>1, <1>2, <2>1, <2>4, <3>1 DEF ServerTypeOK
    <2>6. IsBeginningOf(server'.arrived \o outgoing'.body, E)
      <3>1. <<>> \o E = E
        BY <1>1, ConcatEmptySeq
      <3>2. IsBeginningOf(E, E)
        BY <1>1 DEF IsBeginningOf
      <3> QED  BY <2>5, <3>1, <3>2
    <2>7. Delivery'
      BY <1>1, <1>2, <2>2, <2>5, <2>6 DEF Delivery
    <2> QED  BY <1>3, <2>3, <2>7, <2>8 DEF ExchangeInv
  <1>6. CASE RequestHeaderCutOff
    <2>1. /\ server' = [server EXCEPT !.pc = "close"] /\ ~outgoing.header
          /\ UNCHANGED <<clientVars, outgoing, heard, answer>> /\ server.pc = "header"
      BY <1>6 DEF RequestHeaderCutOff
    <2>2. ClientTypeOK' /\ ServerTypeOK'
      BY <1>1, <1>2, <2>1, ClientUnchanged DEF ServerTypeOK
    <2>3. Delivery'
      BY <1>1, <1>2, <2>1 DEF Delivery, ServerTypeOK
    <2> QED  BY <1>3, <2>2, <2>3 DEF ExchangeInv
  <1>7. CASE ReadRequestBody
    <2>1. PICK n \in 1 .. Len(outgoing.body) :
            LET now == server.arrived \o SubSeq(outgoing.body, 1, n)
                chars == Len(Characters(ServerCharset, now))
            IN  /\ outgoing' = [outgoing EXCEPT !.body = SubSeq(@, n + 1, Len(@))]
                /\ server' = [server EXCEPT !.arrived = now, !.bytesRead = chars,
                                !.pc = IF chars < server.contentLength THEN "body" ELSE "handle"]
      BY <1>7 DEF ReadRequestBody
    <2> DEFINE now == server.arrived \o SubSeq(outgoing.body, 1, n)
               rest == SubSeq(outgoing.body, n + 1, Len(outgoing.body))
               chars == Len(Characters(ServerCharset, now))
    <2>2. /\ server.pc = "body" /\ UNCHANGED <<clientVars, heard, answer>>
          /\ outgoing' = [outgoing EXCEPT !.body = rest]
          /\ server' = [server EXCEPT !.arrived = now, !.bytesRead = chars,
                          !.pc = IF chars < server.contentLength THEN "body" ELSE "handle"]
      BY <1>7, <2>1 DEF ReadRequestBody
    <2>3. /\ server.contentLength = Len(E) /\ ~outgoing.header
          /\ IsBeginningOf(server.arrived \o outgoing.body, E)
          /\ phase \notin {"connect", "encode", "send"}
      BY <1>1, <2>2 DEF Delivery
    <2>4. server.arrived \in Seq(Byte) /\ outgoing.body \in Seq(Byte)
      BY <1>1 DEF ServerTypeOK
    <2>5. now \in Seq(Byte) /\ rest \in Seq(Byte) /\ now \o rest = server.arrived \o outgoing.body
      BY <2>1, <2>4, PieceMoves, PieceType
    <2> HIDE DEF now, rest
    <2>6. IsBeginningOf(now, E)
      BY <1>1, <2>3, <2>5, BeginningIsShorter
    <2>7. chars \in Nat /\ chars <= Len(E)
      <3>1. chars \in 0 .. Len(now)
        BY <2>5, ExchangeAssumption, CharactersType
      <3>2. Len(now) <= Len(E) /\ Len(now) \in Nat
        BY <2>5, <2>6, LenProperties DEF IsBeginningOf
      <3> HIDE DEF chars, E
      <3> QED  BY <1>1, <3>1, <3>2
    <2> HIDE DEF chars
    <2>8. ClientTypeOK'
      BY <1>1, <2>2, ClientUnchanged
    <2>9. ServerTypeOK'
      <3>1. outgoing' \in [header : BOOLEAN, length : Nat, body : Seq(Byte)]
        BY <1>1, <2>2, <2>5 DEF ServerTypeOK
      <3>2. server' \in [pc : {"none", "header", "body", "handle", "write", "close", "closed"},
                         contentLength : Nat, arrived : Seq(Byte), bytesRead : Int]
        <4> DEFINE next == IF chars < server.contentLength THEN "body" ELSE "handle"
        <4>1. next \in {"none", "header", "body", "handle", "write", "close", "closed"}
          OBVIOUS
        <4>2. chars \in Int /\ server' = [server EXCEPT !.arrived = now, !.bytesRead = chars, !.pc = next]
          BY <2>2, <2>7
        <4> HIDE DEF next
        <4> QED  BY <1>1, <2>5, <4>1, <4>2 DEF ServerTypeOK
      <3>3. server'.bytesRead = chars /\ server'.contentLength = Len(E)
        BY <1>1, <2>2, <2>3 DEF ServerTypeOK
      <3>4. server'.bytesRead \in -1..server'.contentLength
        <4> HIDE DEF E
        <4> QED  BY <1>1, <2>7, <3>3
      <3> QED  BY <1>1, <1>2, <2>2, <3>1, <3>2, <3>4 DEF ServerTypeOK
    <2>10. /\ server'.arrived = now /\ outgoing'.body = rest /\ server'.contentLength = Len(E)
           /\ ~outgoing'.header /\ server'.pc \in {"body", "handle"}
      BY <1>1, <2>2, <2>3 DEF ServerTypeOK
    <2>11. Delivery'
      BY <1>1, <1>2, <2>3, <2>5, <2>10 DEF Delivery
    <2> QED  BY <1>3, <2>8, <2>9, <2>11 DEF ExchangeInv
  <1>8. CASE RequestBodyCutOff
    <2>1. /\ server.pc = "body" /\ UNCHANGED <<clientVars, outgoing, heard, answer>>
          /\ server' = IF server.bytesRead >= 0
                         THEN [server EXCEPT !.bytesRead = @ - 1]
                         ELSE [server EXCEPT !.pc = "close"]
      BY <1>8 DEF RequestBodyCutOff
    <2>2. ClientTypeOK' /\ ServerTypeOK'
      BY <1>1, <1>2, <2>1, ClientUnchanged DEF ServerTypeOK
    <2>3. /\ server'.arrived = server.arrived /\ server'.contentLength = server.contentLength
          /\ server'.pc \in {"body", "close"}
      BY <1>1, <2>1 DEF ServerTypeOK
    <2>4. Delivery'
      BY <1>1, <1>2, <2>1, <2>3 DEF Delivery
    <2> QED  BY <1>3, <2>2, <2>4 DEF ExchangeInv
  <1>9. CASE HandleRequest
    <2>1. /\ server.pc = "handle" /\ UNCHANGED <<clientVars, outgoing>>
          /\ server' \in {[server EXCEPT !.pc = "write"], [server EXCEPT !.pc = "close"]}
          /\ \/ /\ IsReport(RequestBody)
                /\ heard' = ParsedReport(RequestBody)
                /\ answer' \in AnswersTo(heard') \/ UNCHANGED answer
             \/ UNCHANGED <<heard, answer>>
      BY <1>9 DEF HandleRequest
    <2>2. RequestBody \in Seq(Byte)
      BY <1>1, ExchangeAssumption, CharactersType, BytesOfType DEF RequestBody, ServerTypeOK
    <2>3. heard' \in SUBSET Uint64 /\ answer' \in Seq(WireFields)
      BY <1>1, <2>1, <2>2, ParsedReportType, ExchangeAssumption DEF ServerTypeOK, AnswersTo
    <2>4. ClientTypeOK' /\ ServerTypeOK'
      BY <1>1, <1>2, <2>1, <2>3, ClientUnchanged DEF ServerTypeOK
    <2>5. Delivery'
      BY <1>1, <1>2, <2>1 DEF Delivery, ServerTypeOK
    <2> QED  BY <1>3, <2>4, <2>5 DEF ExchangeInv
  <1>10. CASE WriteAnswer
    <2>1. /\ server.pc = "write" /\ UNCHANGED <<open, unnoticed, outgoing, heard, answer>>
          /\ incoming' = IF open THEN AnswerHeader \o Encoded(answer) ELSE <<>>
          /\ server' = [server EXCEPT !.pc = "close"]
      BY <1>10 DEF WriteAnswer
    <2>2. incoming' \in Seq(0..255)
      <3>1. AnswerHeader \in Seq(Byte)
        BY DEF AnswerHeader, Codes, Text, SP, CR, LF, Byte
      <3>2. Encoded(answer) \in Seq(Byte)
        BY <1>1, EncodedType DEF ServerTypeOK
      <3>3. AnswerHeader \o Encoded(answer) \in Seq(Byte)
        BY <3>1, <3>2, ConcatProperties
      <3>4. <<>> \in Seq(0..255)
        BY EmptySeq
      <3> QED  BY <2>1, <3>3, <3>4 DEF Byte
    <2>3. ClientTypeOK'
      BY <1>1, <1>2, <1>4, <2>1, <2>2, ConnectionKeepsType DEF ClientTypeOK
    <2>4. ServerTypeOK'
      BY <1>1, <1>2, <2>1 DEF ServerTypeOK
    <2>5. Delivery'
      BY <1>1, <1>2, <2>1 DEF Delivery, ServerTypeOK
    <2> QED  BY <1>3, <2>3, <2>4, <2>5 DEF ExchangeInv
  <1>11. CASE CloseSocket
    <2>1. /\ server.pc = "close" /\ UNCHANGED <<incoming, outgoing, heard, answer>>
          /\ open' = FALSE /\ unnoticed' \subseteq unnoticed
          /\ server' = [server EXCEPT !.pc = "closed"]
      BY <1>11 DEF CloseSocket
    <2>2. ClientTypeOK'
      BY <1>1, <1>2, <1>4, <2>1, ConnectionKeepsType DEF ClientTypeOK
    <2>3. ServerTypeOK'
      BY <1>1, <1>2, <2>1 DEF ServerTypeOK
    <2>4. Delivery'
      BY <1>1, <1>2, <2>1 DEF Delivery, ServerTypeOK
    <2> QED  BY <1>3, <2>2, <2>3, <2>4 DEF ExchangeInv
  <1> QED
    BY <1>5, <1>6, <1>7, <1>8, <1>9, <1>10, <1>11 DEF ServerStep

LEMMA NetworkStepKeepsInv ==
  ASSUME ExchangeInv, AnswerArrives \/ ConnectionBreaks \/ BreakIsNoticed \/ UNCHANGED vars
  PROVE  ExchangeInv'
  <1>1. DecoderInv /\ ClientTypeOK /\ FeederTypeOK /\ ServerTypeOK /\ Delivery
    BY DEF ExchangeInv
  <1>2. CASE AnswerArrives
    <2>1. Arrive /\ UNCHANGED <<decoderVars, exchangeVars>>
      BY <1>2 DEF AnswerArrives
    <2>2. DecoderInv' /\ ClientTypeOK'
      BY <1>1, <2>1, DecoderUnchanged, ArriveKeepsType
    <2>3. FeederTypeOK' /\ ServerTypeOK'
      BY <1>1, <2>1, FeederUnchanged, ServerUnchanged DEF exchangeVars, feederVars
    <2>4. Delivery'
      BY <1>1, <2>1, DeliveryUnchanged DEF exchangeVars
    <2> QED  BY <2>2, <2>3, <2>4 DEF ExchangeInv
  <1>3. CASE ConnectionBreaks
    <2>1. /\ open' = FALSE /\ broken' = TRUE /\ incoming' = <<>> /\ outgoing' = NoRequest
          /\ unnoticed' \subseteq Sides
          /\ UNCHANGED <<decoderVars, received, responseVars, failedAllocations, feederVars,
                         server, heard, answer>>
          /\ UNCHANGED <<phase, report, request>>
      BY <1>3 DEF ConnectionBreaks, feederVars
    <2>2. DecoderInv' /\ FeederTypeOK'
      BY <1>1, <2>1, DecoderUnchanged, FeederUnchanged
    <2>3. ClientTypeOK'
      <3>1. /\ failedAllocations' \in 0 .. MaxFailedAllocations /\ failedAllocations <= failedAllocations'
            /\ received' \in Seq(0..255)
        BY <1>1, <2>1, ExchangeAssumption DEF ClientTypeOK
      <3>2. <<>> \in Seq(0..255)
        BY EmptySeq
      <3> QED  BY <1>1, <2>1, <3>1, <3>2, ConnectionKeepsType
    <2>4. ServerTypeOK'
      <3>1. <<>> \in Seq(Byte)
        BY EmptySeq
      <3>2. outgoing' \in [header : BOOLEAN, length : Nat, body : Seq(Byte)]
        BY <2>1, <3>1 DEF NoRequest
      <3> QED  BY <1>1, <2>1, <3>2 DEF ServerTypeOK
    <2>5. /\ outgoing'.body = <<>> /\ ~outgoing'.header
      BY <2>1 DEF NoRequest
    <2>6. ASSUME server.pc = "body"
          PROVE  IsBeginningOf(server.arrived \o <<>>, EncodedReport(report))
      <3>1. IsBeginningOf(server.arrived \o outgoing.body, EncodedReport(report))
        BY <1>1, <2>6 DEF Delivery
      <3>2. server.arrived \in Seq(Byte) /\ outgoing.body \in Seq(Byte)
        BY <1>1 DEF ServerTypeOK
      <3>3. EncodedReport(report) \in Seq(Byte)
        BY <1>1, ReportType DEF Delivery, FeederTypeOK
      <3>4. server.arrived \o <<>> = server.arrived
        BY <3>2, ConcatEmptySeq
      <3> QED  BY <3>1, <3>2, <3>3, <3>4, BeginningIsShorter
    <2>7. Delivery'
      BY <1>1, <2>1, <2>5, <2>6 DEF Delivery
    <2> QED  BY <2>2, <2>3, <2>4, <2>7 DEF ExchangeInv
  <1>4. CASE UNCHANGED vars
    <2>1. /\ UNCHANGED decoderVars /\ UNCHANGED clientVars /\ UNCHANGED feederVars
          /\ UNCHANGED <<phase, report, request, outgoing, server, heard, answer, broken>>
      BY <1>4 DEF vars, exchangeVars, feederVars
    <2> QED
      BY <1>1, <2>1, DecoderUnchanged, ClientUnchanged, FeederUnchanged, ServerUnchanged, DeliveryUnchanged
      DEF ExchangeInv
  <1>5. CASE BreakIsNoticed
    <2>1. /\ unnoticed' \subseteq unnoticed
          /\ UNCHANGED <<decoderVars, open, incoming, received, responseVars, failedAllocations>>
          /\ UNCHANGED feederVars
          /\ UNCHANGED <<phase, report, request, outgoing, server, heard, answer, broken>>
      BY <1>5 DEF BreakIsNoticed, exchangeVars, feederVars
    <2>2. failedAllocations \in 0 .. MaxFailedAllocations /\ failedAllocations <= failedAllocations'
      BY <1>1, <2>1, ExchangeAssumption DEF ClientTypeOK
    <2>3. ClientTypeOK'
      BY <1>1, <2>1, <2>2, ConnectionKeepsType DEF ClientTypeOK
    <2> QED
      BY <1>1, <2>1, <2>3, DecoderUnchanged, FeederUnchanged, ServerUnchanged, DeliveryUnchanged
      DEF ExchangeInv
  <1> QED  BY <1>2, <1>3, <1>4, <1>5

LEMMA NextKeepsInv ==
  ASSUME ExchangeInv, [Next]_vars
  PROVE  ExchangeInv'
  <1>1. FeederStep \/ ServerStep \/ AnswerArrives \/ ConnectionBreaks \/ BreakIsNoticed
          \/ UNCHANGED vars
    BY DEF Next, Through
  <1> QED  BY <1>1, FeederStepKeepsInv, ServerStepKeepsInv, NetworkStepKeepsInv

\* The inductive invariant of a check-in, for any charset of the server, any
\* reports and any answers: besides the types, a varint that nanopb has begun
\* is no wider than what it is shifted into, and what the server has of the
\* request is a beginning of the report that sendRequest() encoded.
THEOREM ExchangeInvariant == Spec => []ExchangeInv
  <1>1. Init => ExchangeInv
    BY InitEstablishesInv
  <1>2. ExchangeInv /\ [Next]_vars => ExchangeInv'
    BY NextKeepsInv
  <1> QED  BY <1>1, <1>2, PTL DEF Spec

\* Every variable of the feeder's client and decoder, of the connection and of
\* the server's thread keeps its type, whatever bytes arrive in whatever
\* pieces: in particular the decoder (pb_decode_partial.c) never reads beyond
\* its stream and no varint grows beyond 64 bits, and both lists have the
\* memory for what they hold (array-list.h).
THEOREM TypeCorrect == Spec => []TypeOK
  <1>1. ExchangeInv => TypeOK
    BY DEF ExchangeInv, DecoderInv, FeederTypeOK, ServerTypeOK, TypeOK
  <1> QED  BY <1>1, ExchangeInvariant, PTL

-----------------------------------------------------------------------------
(* The report arrives as it was sent, through a charset of one byte to a   *)
(* character.                                                              *)

\* The thread handles the request with the whole report, never with a part
\* of it.
HeardInv ==
  /\ server.pc = "handle" => server.arrived = EncodedReport(report)
  /\ answer # <<>> \/ heard # {} => heard = report

\* parseFrom() is the inverse of pb_encode().
LEMMA ReportIsParsed ==
  ASSUME NEW r \in SUBSET Reports, NEW ms, r \subseteq {ms}
  PROVE  IsReport(EncodedReport(r)) => ParsedReport(EncodedReport(r)) = r
  <1>1. CASE EncodedReport(r) = <<>>
    BY <1>1, ReportType DEF ParsedReport
  <1>2. CASE EncodedReport(r) # <<>>
    <2>1. r = {ms} /\ ms \in Uint64 /\ EncodedReport(r) = <<8>> \o Varint[ms]
      BY <1>2, ReportType
    <2>2. Varint[ms] \in Seq(Byte)
      BY <2>1, Uint64Type, VarintBySevenBits
    <2>3. Tail(<<8>> \o Varint[ms]) = Varint[ms]
      BY <2>2
    <2>4. VarintValue(Varint[ms]) = ms
      BY <2>1, VarintsRoundTrip
    <2> QED  BY <1>2, <2>1, <2>3, <2>4 DEF ParsedReport
  <1> QED  BY <1>1, <1>2

LEMMA HandlerHearsTheReport ==
  ASSUME ServerCharset = "ISO-8859-1", ExchangeInv, HeardInv, HandleRequest, IsReport(RequestBody)
  PROVE  heard' = report
  <1> DEFINE E == EncodedReport(report)
  <1>1. server.pc = "handle" /\ heard' = ParsedReport(RequestBody)
    BY DEF HandleRequest
  <1>2. server.arrived = E /\ E \in Seq(Byte)
    BY <1>1, ReportType DEF HeardInv, ExchangeInv, Delivery, FeederTypeOK
  <1>3. RequestBody = E
    BY <1>2, Latin1IsTransparent DEF RequestBody
  <1>4. IsReport(E) => ParsedReport(E) = report
    BY ReportIsParsed DEF ExchangeInv, Delivery, FeederTypeOK
  <1> HIDE DEF E
  <1> QED  BY <1>1, <1>3, <1>4

LEMMA FeederStepLeavesHeard ==
  ASSUME ExchangeInv, HeardInv, FeederStep
  PROVE  HeardInv'
  <1>1. UNCHANGED <<report, heard, answer>>
    BY DEF FeederStep, Connect, ConnectFails, EncodeByte, EncodeFails, RunOutOfMemory, Encode, SendRequest,
           ReadResponse, ResponseRefused, ResponseTaken, Decode, Decoded, exchangeVars
  <1>2. server' = server \/ server'.pc = "header"
    <2>1. CASE Connect
      BY <2>1 DEF Connect, ExchangeInv, ServerTypeOK
    <2>2. CASE ~Connect
      BY <2>2 DEF FeederStep, ConnectFails, EncodeByte, EncodeFails, RunOutOfMemory, Encode, SendRequest,
                  ReadResponse, ResponseRefused, ResponseTaken, Decode, Decoded, exchangeVars
    <2> QED  BY <2>1, <2>2
  <1> QED  BY <1>1, <1>2 DEF HeardInv

LEMMA ServerHearsTheReport ==
  ASSUME ServerCharset = "ISO-8859-1", ExchangeInv, HeardInv, ServerStep
  PROVE  HeardInv'
  <1> DEFINE E == EncodedReport(report)
  <1>1. /\ DecoderInv /\ ClientTypeOK /\ FeederTypeOK /\ ServerTypeOK /\ Delivery
        /\ E \in Seq(Byte) /\ Len(E) \in Nat
    <2>1. DecoderInv /\ ClientTypeOK /\ FeederTypeOK /\ ServerTypeOK /\ Delivery
      BY DEF ExchangeInv
    <2>2. E \in Seq(Byte)
      BY <2>1, ReportType DEF Delivery, FeederTypeOK
    <2> QED  BY <2>1, <2>2, LenProperties
  <1>2. UNCHANGED report
    BY DEF ServerStep, ReadRequestHeader, RequestHeaderCutOff, ReadRequestBody, RequestBodyCutOff,
           HandleRequest, WriteAnswer, CloseSocket, feederVars
  <1>3. CASE ReadRequestHeader
    <2>1. /\ outgoing.length = Len(E) /\ server.arrived = <<>> /\ UNCHANGED <<heard, answer>>
          /\ server' = [server EXCEPT !.pc = IF outgoing.length > 0 THEN "body" ELSE "handle",
                                      !.contentLength = outgoing.length]
      BY <1>1, <1>3 DEF Delivery, ReadRequestHeader
    <2>2. server'.pc = "handle" => E = <<>>
      <3>1. server'.pc = IF outgoing.length > 0 THEN "body" ELSE "handle"
        BY <1>1, <2>1 DEF ServerTypeOK
      <3> HIDE DEF E
      <3>2. server'.pc = "handle" => ~(Len(E) > 0)
        BY <2>1, <3>1
      <3> QED  BY <1>1, <3>2, EmptySeq
    <2>3. server'.arrived = <<>>
      BY <1>1, <2>1 DEF ServerTypeOK
    <2> QED  BY <1>2, <2>1, <2>2, <2>3 DEF HeardInv
  <1>4. CASE ReadRequestBody
    <2>1. PICK n \in 1 .. Len(outgoing.body) :
            LET now == server.arrived \o SubSeq(outgoing.body, 1, n)
                chars == Len(Characters(ServerCharset, now))
            IN  /\ outgoing' = [outgoing EXCEPT !.body = SubSeq(@, n + 1, Len(@))]
                /\ server' = [server EXCEPT !.arrived = now, !.bytesRead = chars,
                                !.pc = IF chars < server.contentLength THEN "body" ELSE "handle"]
      BY <1>4 DEF ReadRequestBody
    <2> DEFINE now == server.arrived \o SubSeq(outgoing.body, 1, n)
               rest == SubSeq(outgoing.body, n + 1, Len(outgoing.body))
               chars == Len(Characters(ServerCharset, now))
    <2>2. /\ server.pc = "body" /\ UNCHANGED <<heard, answer>>
          /\ server' = [server EXCEPT !.arrived = now, !.bytesRead = chars,
                          !.pc = IF chars < server.contentLength THEN "body" ELSE "handle"]
      BY <1>4, <2>1 DEF ReadRequestBody
    <2>3. /\ server.contentLength = Len(E)
          /\ IsBeginningOf(server.arrived \o outgoing.body, E)
      BY <1>1, <2>2 DEF Delivery
    <2>4. server.arrived \in Seq(Byte) /\ outgoing.body \in Seq(Byte)
      BY <1>1 DEF ServerTypeOK
    <2>5. now \in Seq(Byte) /\ rest \in Seq(Byte) /\ now \o rest = server.arrived \o outgoing.body
      BY <2>1, <2>4, PieceMoves, PieceType
    <2>6. chars = Len(now)
      BY <2>5, Latin1IsTransparent
    <2> HIDE DEF now, rest, chars
    <2>7. Len(now) >= Len(E) => now = E
      BY <1>1, <2>3, <2>5, BeginningIsShorter
    <2>8. server'.arrived = now /\ server'.pc = IF chars < Len(E) THEN "body" ELSE "handle"
      BY <1>1, <2>2, <2>3 DEF ServerTypeOK
    <2>9. server'.pc = "handle" => server'.arrived = E
      <3>1. Len(now) \in Nat
        BY <2>5, LenProperties
      <3> HIDE DEF E
      <3>2. server'.pc = "handle" => ~(chars < Len(E))
        BY <2>8
      <3> QED  BY <1>1, <2>6, <2>7, <2>8, <3>1, <3>2
    <2> QED  BY <1>2, <2>2, <2>9 DEF HeardInv
  <1>5. CASE HandleRequest
    <2>1. /\ server.pc = "handle"
          /\ server' \in {[server EXCEPT !.pc = "write"], [server EXCEPT !.pc = "close"]}
          /\ \/ IsReport(RequestBody) /\ heard' = ParsedReport(RequestBody)
             \/ UNCHANGED <<heard, answer>>
      BY <1>5 DEF HandleRequest
    <2>2. heard' = report \/ UNCHANGED <<heard, answer>>
      BY <1>5, <2>1, HandlerHearsTheReport
    <2>3. server'.pc \in {"write", "close"}
      BY <1>1, <2>1 DEF ServerTypeOK
    <2> QED  BY <1>2, <2>2, <2>3 DEF HeardInv
  <1>6. CASE RequestHeaderCutOff \/ RequestBodyCutOff \/ WriteAnswer \/ CloseSocket
    <2>1. UNCHANGED <<heard, answer>>
      BY <1>6 DEF RequestHeaderCutOff, RequestBodyCutOff, WriteAnswer, CloseSocket
    <2>2. server'.pc # "handle"
      BY <1>1, <1>6 DEF RequestHeaderCutOff, RequestBodyCutOff, WriteAnswer, CloseSocket, ServerTypeOK
    <2> QED  BY <1>2, <2>1, <2>2 DEF HeardInv
  <1> QED  BY <1>3, <1>4, <1>5, <1>6 DEF ServerStep

LEMMA NextKeepsHeard ==
  ASSUME ServerCharset = "ISO-8859-1", ExchangeInv, HeardInv, [Next]_vars
  PROVE  HeardInv'
  <1>1. CASE FeederStep
    BY <1>1, FeederStepLeavesHeard
  <1>2. CASE ServerStep
    BY <1>2, ServerHearsTheReport
  <1>3. CASE AnswerArrives \/ ConnectionBreaks \/ BreakIsNoticed \/ UNCHANGED vars
    <2>1. UNCHANGED <<report, server, heard, answer>>
      BY <1>3 DEF AnswerArrives, ConnectionBreaks, BreakIsNoticed, vars, exchangeVars, feederVars
    <2> QED  BY <2>1 DEF HeardInv
  <1> QED  BY <1>1, <1>2, <1>3 DEF Next, Through

\* Where a character of the server's charset is a byte, the server hears the
\* report that the feeder made, for every report of 64 bits, every answer and
\* every way that memory, pieces and the connection fail. The charset is a
\* hypothesis because UTF-8 does lose reports (Backend.java:63): TLC finds
\* how in CheckInExchangeUtf8.cfg.
THEOREM ReportArrives ==
  ASSUME ServerCharset = "ISO-8859-1"
  PROVE  Spec => []ReportArrivesAsSent
  <1>1. Init => ExchangeInv /\ HeardInv
    <2>1. Init => HeardInv
      BY DEF Init, HeardInv, NoThread
    <2> QED  BY <2>1, InitEstablishesInv
  <1>2. (ExchangeInv /\ HeardInv) /\ [Next]_vars => (ExchangeInv /\ HeardInv)'
    BY NextKeepsInv, NextKeepsHeard
  <1>3. ExchangeInv /\ HeardInv => ReportArrivesAsSent
    BY DEF HeardInv, ReportArrivesAsSent
  <1> QED  BY <1>1, <1>2, <1>3, PTL DEF Spec

-----------------------------------------------------------------------------
(* What a message means, field by field.                                   *)

\* A field of EmbeddedResponse as ProtoBodyRenderer.render() sets it: a number
\* that its type has room for.
IsRenderedField(field) ==
  \E i \in 1..4 : \E n \in Nat : n < TwoTo[Fields[i].bits] /\ field = Number(i, n)

AreRendered(fields) ==
  fields \in Seq(WireFields) /\ \A k \in 1 .. Len(fields) : IsRenderedField(fields[k])

\* A field of an answer is a number below the width of its C type.
LEMMA RenderedField ==
  ASSUME NEW fields, AreRendered(fields), NEW k \in 1 .. Len(fields)
  PROVE  \E i \in 1..4 : \E n \in Uint64 :
           /\ n < TwoTo[Fields[i].bits] /\ fields[k] = Number(i, n)
           /\ fields[k].tag = i /\ fields[k].value = n /\ fields[k].bytes = Varint[n]
  <1>1. PICK i \in 1..4, n \in Nat : n < TwoTo[Fields[i].bits] /\ fields[k] = Number(i, n)
    BY DEF AreRendered, IsRenderedField
  <1>2. n \in Uint64
    BY <1>1, FieldsType, WidthsAreUint64
  <1>3. Number(i, n).tag = i /\ Number(i, n).value = n /\ Number(i, n).bytes = Varint[n]
    <2>1. i \in 1 .. 15
      OBVIOUS
    <2> QED  BY <2>1, NumberField
  <1> QED  BY <1>1, <1>2, <1>3

LEMMA FirstFieldsAreRendered ==
  ASSUME NEW fields, AreRendered(fields), NEW k \in 0 .. Len(fields)
  PROVE  AreRendered(FirstFields(fields, k))
  <1>1. fields \in Seq(WireFields) /\ Len(fields) \in Nat
    BY DEF AreRendered
  <1>2. /\ FirstFields(fields, k) \in Seq(WireFields) /\ Len(FirstFields(fields, k)) = k
        /\ \A i \in 1 .. k : FirstFields(fields, k)[i] = fields[i]
    BY <1>1, FirstFieldsType
  <1>3. \A i \in 1 .. k : i \in 1 .. Len(fields)
    BY <1>1
  <1> QED  BY <1>2, <1>3 DEF AreRendered

\* The message after one more field.
WithField(m, field) ==
  IF field.tag \notin 1..Len(Fields) THEN m
  ELSE [m EXCEPT !.has[field.tag] = TRUE, !.value[field.tag] = field.value]

\* f[k] is what the first k fields say.
AddsFields(f, fields) ==
  f[0] = DefaultMessage /\ \A k \in 1 .. Len(fields) : f[k] = WithField(f[k - 1], fields[k])

LEMMA WithFieldType ==
  ASSUME NEW m \in Messages, NEW fields, AreRendered(fields), NEW k \in 1 .. Len(fields)
  PROVE  WithField(m, fields[k]) \in Messages
  <1>1. fields[k].tag \in 1..4 /\ fields[k].value \in Uint64 /\ Len(Fields) = 4
    BY RenderedField, FieldsType
  <1> QED  BY <1>1 DEF WithField, Messages

\* The recursion in Meaning is a function.
LEMMA MeaningRecursion ==
  ASSUME NEW fields, AreRendered(fields)
  PROVE  \E f \in [0 .. Len(fields) -> Messages] :
           AddsFields(f, fields) /\ Meaning(fields) = f[Len(fields)]
  <1> DEFINE N == Len(fields)
             Upto(f) == f = [k \in 0 .. N |-> IF k = 0 THEN DefaultMessage
                                              ELSE WithField(f[k - 1], fields[k])]
             upTo == CHOOSE f : Upto(f)
             step == [x \in (1 .. N) \X Messages |-> WithField(x[2], fields[x[1]])]
  <1>1. N \in Nat
    BY DEF AreRendered
  <1>2. ~ \E k \in 1 .. N : fields[k].value = Malformed
    <2>1. \A n \in Uint64 : n # -1
      BY Uint64Type
    <2> QED  BY <2>1, RenderedField DEF Malformed
  <1>3. Meaning(fields) = upTo[N]
    BY <1>2 DEF Meaning, WithField
  <1>4. DefaultMessage \in Messages
    BY DefaultMessageOK DEF MessageOK
  <1>5. \A k \in 1 .. N, m \in Messages : WithField(m, fields[k]) \in Messages
    BY WithFieldType
  <1> HIDE DEF N
  <1>6. PICK f \in [0 .. N -> Messages] : Counts(f, N, DefaultMessage, step)
    <2>1. step \in [(1 .. N) \X Messages -> Messages]
      BY <1>5
    <2> HIDE DEF step
    <2> QED  BY <1>1, <1>4, <2>1, CountingFunction
  <1>7. ASSUME NEW k \in 1 .. N
        PROVE  f[k] = WithField(f[k - 1], fields[k])
    <2>1. f[k - 1] \in Messages
      BY <1>1
    <2>2. step[<<k, f[k - 1]>>] = WithField(f[k - 1], fields[k])
      BY <2>1
    <2>3. f[k] = step[<<k, f[k - 1]>>]
      BY <1>6 DEF Counts
    <2> QED  BY <2>2, <2>3
  <1>8. f[0] = DefaultMessage
    BY <1>6 DEF Counts
  <1>9. Upto(f)
    <2>1. \A k \in 0 .. N : k # 0 => k \in 1 .. N
      BY <1>1
    <2> QED  BY <1>7, <1>8, <2>1
  <1>10. Upto(upTo)
    BY <1>9
  <1> HIDE DEF upTo
  <1>11. /\ upTo[0] = DefaultMessage
         /\ \A k \in 1 .. N : upTo[k] = WithField(upTo[k - 1], fields[k])
    <2>1. 0 \in 0 .. N /\ \A k \in 1 .. N : k \in 0 .. N /\ k # 0
      BY <1>1
    <2> QED  BY <1>10, <2>1
  <1>12. \A k \in 0 .. N : upTo[k] = f[k]
    <2> DEFINE T == {k \in 0 .. N : upTo[k] = f[k]}
    <2>1. 0 \in T
      BY <1>1, <1>8, <1>11
    <2>2. ASSUME NEW k \in 1 .. N, k - 1 \in T
          PROVE  k \in T
      BY <1>7, <1>11, <2>2
    <2>3. 0 .. N \subseteq T
      <3> HIDE DEF T
      <3> QED  BY <1>1, <2>1, <2>2, CountingInduction
    <2> QED  BY <2>3
  <1>13. AddsFields(f, fields)
    BY <1>7, <1>8 DEF AddsFields, N
  <1>14. Meaning(fields) = f[N]
    BY <1>1, <1>3, <1>12
  <1> QED  BY <1>13, <1>14 DEF N

\* Each field that the message has is added to what the ones before it say.
LEMMA MeaningFieldByField ==
  ASSUME NEW fields, AreRendered(fields), NEW k \in 0 .. Len(fields)
  PROVE  /\ Meaning(FirstFields(fields, k)) \in Messages
         /\ k = 0 => Meaning(FirstFields(fields, k)) = DefaultMessage
         /\ k > 0 => Meaning(FirstFields(fields, k))
                       = WithField(Meaning(FirstFields(fields, k - 1)), fields[k])
  <1> DEFINE N == Len(fields)
  <1>1. PICK f \in [0 .. N -> Messages] : AddsFields(f, fields) /\ Meaning(fields) = f[N]
    BY MeaningRecursion
  <1>2. N \in Nat /\ fields \in Seq(WireFields)
    BY DEF AreRendered
  <1>3. f[0] = DefaultMessage /\ \A i \in 1 .. N : f[i] = WithField(f[i - 1], fields[i])
    BY <1>1 DEF AddsFields
  <1>4. ASSUME NEW m \in 0 .. N
        PROVE  Meaning(FirstFields(fields, m)) = f[m]
    <2> DEFINE F == FirstFields(fields, m)
    <2>1. AreRendered(F) /\ Len(F) = m /\ \A i \in 1 .. m : F[i] = fields[i]
      BY <1>2, FirstFieldsAreRendered, FirstFieldsType
    <2> HIDE DEF F
    <2>2. PICK g \in [0 .. m -> Messages] : AddsFields(g, F) /\ Meaning(F) = g[m]
      BY <2>1, MeaningRecursion
    <2>3. g[0] = DefaultMessage /\ \A i \in 1 .. m : g[i] = WithField(g[i - 1], fields[i])
      BY <2>1, <2>2 DEF AddsFields
    <2> DEFINE T == {i \in 0 .. m : g[i] = f[i]}
    <2> HIDE DEF N
    <2>4. 0 \in T /\ m \in Nat
      BY <1>2, <1>3, <2>3
    <2>5. ASSUME NEW i \in 1 .. m, i - 1 \in T
          PROVE  i \in T
      <3>1. i \in 1 .. N /\ i \in 0 .. m
        BY <1>2
      <3> QED  BY <1>3, <2>3, <2>5, <3>1
    <2>6. 0 .. m \subseteq T
      <3> HIDE DEF T
      <3> QED  BY <2>4, <2>5, CountingInduction
    <2>7. m \in T
      BY <2>4, <2>6
    <2> QED  BY <2>2, <2>7 DEF F
  <1>5. CASE k = 0
    BY <1>3, <1>4, <1>5
  <1>6. CASE k > 0
    <2>1. k \in 1 .. N /\ k - 1 \in 0 .. N
      BY <1>2, <1>6
    <2> QED  BY <1>3, <1>4, <1>6, <2>1
  <1> QED  BY <1>5, <1>6

-----------------------------------------------------------------------------
(* The answer decoded, while it is a beginning of what the server wrote.   *)

\* The first k fields of the answer, and where they end in its bytes.
Upto(k) == FirstFields(answer, k)
Start(k) == Len(Encoded(Upto(k)))

\* The decoder has taken k fields.
BetweenFields(k) ==
  /\ decoding = "tag" /\ varint = NoVarint
  /\ stream.state = Start(k)
  /\ message = Meaning(Upto(k))

\* It has taken k fields, the key of the next one, and j bytes of its value.
WithinField(k, j) ==
  LET i == answer[k + 1].tag
      bytes == answer[k + 1].bytes
  IN  /\ decoding = Fields[i].ltype /\ iter = i
      /\ j < Len(bytes)
      /\ varint = [bitpos |-> 7 * j, result |-> VarintValue(SubSeq(bytes, 1, j))]
      /\ stream.state = Start(k) + 1 + j
      /\ message = [Meaning(Upto(k)) EXCEPT !.has[i] = TRUE]

\* nanopb is between two fields of the answer, or within one, or done: then it
\* says what the first fields do, all of them if no byte was lost.
IsDecoded ==
  \/ \E k \in 0 .. Len(answer) : BetweenFields(k)
  \/ \E k \in 0 .. (Len(answer) - 1) : \E j \in Nat : WithinField(k, j)
  \/ /\ decoding = "ok"
     /\ \E k \in 0 .. Len(answer) : message = Meaning(Upto(k))
     /\ buffer = Encoded(answer) => message = Meaning(answer)
  \/ decoding = "failed" /\ buffer # Encoded(answer)

\* The field after the first k: it is number n of field i.
NextField(k, i, n) ==
  /\ n < TwoTo[Fields[i].bits]
  /\ answer[k + 1].tag = i /\ answer[k + 1].bytes = Varint[n]
  /\ FieldIsAt(answer, k + 1, Start(k), i, n)
  /\ Start(k) \in Nat /\ Start(k + 1) = Start(k) + 1 + Len(Varint[n])
  /\ Meaning(Upto(k)) \in Messages
  /\ Meaning(Upto(k + 1)) = [Meaning(Upto(k)) EXCEPT !.has[i] = TRUE, !.value[i] = n]

\* The answer has such a field after every k but the last.
LEMMA NextFieldOfAnswer ==
  ASSUME AreRendered(answer), NEW k \in 0 .. (Len(answer) - 1)
  PROVE  \E i \in 1..4 : \E n \in Uint64 : NextField(k, i, n)
  <1> DEFINE m == k + 1
  <1>1. /\ answer \in Seq(WireFields) /\ k \in 0 .. Len(answer) /\ m \in 1 .. Len(answer)
        /\ m \in 0 .. Len(answer) /\ m > 0 /\ m - 1 = k
    BY DEF AreRendered
  <1> HIDE DEF m
  <1>2. PICK i \in 1..4, n \in Uint64 :
           /\ n < TwoTo[Fields[i].bits] /\ answer[m] = Number(i, n)
           /\ answer[m].tag = i /\ answer[m].value = n /\ answer[m].bytes = Varint[n]
    BY <1>1, RenderedField
  <1>3. FieldIsAt(answer, m, Start(k), i, n)
    <2>1. i \in 1 .. 15 /\ n \in Nat
      BY Uint64Type
    <2>2. FieldIsAt(answer, m, Len(Encoded(FirstFields(answer, m - 1))), i, n)
      BY <1>1, <1>2, <2>1, NumberInMessage
    <2> QED  BY <1>1, <2>2 DEF Start, Upto
  <1>4. Start(k) \in Nat /\ Start(m) = Start(k) + 1 + Len(Varint[n])
    <2>1. Encoded(Upto(k)) \in Seq(Byte)
      BY <1>1, EncodedBeginsWith DEF Upto
    <2> QED  BY <1>3, <2>1 DEF FieldIsAt, Start, Upto
  <1>5. Meaning(Upto(k)) \in Messages /\ Meaning(Upto(m)) = WithField(Meaning(Upto(k)), answer[m])
    BY <1>1, MeaningFieldByField DEF Upto
  <1>6. i \in 1 .. Len(Fields)
    BY FieldsType
  <1>7. Meaning(Upto(m)) = [Meaning(Upto(k)) EXCEPT !.has[i] = TRUE, !.value[i] = n]
    BY <1>2, <1>5, <1>6 DEF WithField
  <1>8. NextField(k, i, n)
    BY <1>2, <1>3, <1>4, <1>5, <1>7 DEF NextField, m
  <1> QED  BY <1>8

\* The keys of the fields, and the value of a bool, are varints of one byte.
LEMMA OneByteVarint ==
  ASSUME varint = NoVarint, NextByte \in Nat, NextByte < 128
  PROVE  ~Overflows32(varint, NextByte) /\ IsLast(NextByte) /\ Value32 = NextByte
  <1> DEFINE b == NextByte
  <1>1. varint.bitpos = 0 /\ varint.result = 0
    BY DEF NoVarint
  <1>2. Bits32 \in Nat /\ 7 < Bits32 /\ Bits32 <= Bits64 /\ Bits64 \in Nat
    BY WidthAssumption
  <1>3. TwoTo[Bits32] \in Nat /\ 128 <= TwoTo[Bits32] /\ TwoTo[0] = 1
    <2>1. TwoTo[7] <= TwoTo[Bits32] /\ TwoTo[Bits32] \in Nat
      BY <1>2, PowersGrow, PowerType
    <2> QED  BY <2>1, SevenBits, PowersOfTwo
  <1> HIDE DEF b
  <1>4. ~Overflows32(varint, b)
    BY <1>1, <1>2 DEF Overflows32
  <1>5. Shifted(b, 0, Bits32) = b
    <2>1. b \in Nat /\ b < 128 /\ b % 128 = b
      BY SmallRemainder DEF b
    <2>2. b % TwoTo[Bits32] = b
      BY <1>3, <2>1, SmallRemainder
    <2>3. Bits32 - 0 = Bits32
      BY <1>2
    <2> QED  BY <1>3, <2>1, <2>2, <2>3 DEF Shifted
  <1>6. Add32(varint, b).result = b
    <2>1. ~(0 >= Bits32) /\ 0 + b = b
      BY <1>2 DEF b
    <2> QED  BY <1>1, <1>5, <2>1 DEF Add32
  <1> QED  BY <1>4, <1>6 DEF Value32, IsLast, b

\* Where the decoder is in the answer.
LEMMA AtAnswer ==
  ASSUME StreamOK, AreRendered(answer), IsBeginningOf(buffer, Encoded(answer))
  PROVE  /\ stream.state \in Nat /\ stream.bytes_left \in Nat
         /\ Len(buffer) \in Nat /\ Len(Encoded(answer)) \in Nat /\ Len(answer) \in Nat
         /\ Len(buffer) <= Len(Encoded(answer))
         /\ HasByte => /\ stream.state + 1 <= Len(Encoded(answer))
                       /\ NextByte = Encoded(answer)[stream.state + 1]
         /\ ~HasByte => stream.state = Len(buffer)
  <1>1. /\ stream.state \in Nat /\ stream.bytes_left \in Nat /\ buffer \in Seq(Byte)
        /\ stream.state + stream.bytes_left = Len(buffer)
    BY DEF StreamOK
  <1>2. Encoded(answer) \in Seq(Byte) /\ Len(answer) \in Nat
    BY EncodedType DEF AreRendered
  <1>3. Len(buffer) \in Nat /\ Len(Encoded(answer)) \in Nat /\ Len(buffer) <= Len(Encoded(answer))
    BY <1>1, <1>2 DEF IsBeginningOf
  <1>4. ASSUME HasByte
        PROVE  stream.state + 1 \in 1 .. Len(buffer)
    BY <1>1, <1>3, <1>4 DEF HasByte
  <1>5. ~HasByte => stream.state = Len(buffer)
    BY <1>1, <1>3 DEF HasByte
  <1> QED  BY <1>1, <1>2, <1>3, <1>4, <1>5 DEF IsBeginningOf, NextByte

\* What all of the fields say is what the answer means.
LEMMA WholeAnswer ==
  ASSUME AreRendered(answer)
  PROVE  /\ Upto(Len(answer)) = answer /\ Upto(0) = <<>> /\ Start(0) = 0
         /\ Start(Len(answer)) = Len(Encoded(answer))
         /\ Len(answer) \in Nat
         /\ Meaning(Upto(0)) = DefaultMessage
  <1>1. answer \in Seq(WireFields) /\ Len(answer) \in Nat
        /\ 0 \in 0 .. Len(answer) /\ Len(answer) \in 0 .. Len(answer)
    BY DEF AreRendered
  <1>2. Upto(Len(answer)) = answer /\ Upto(0) = <<>>
    BY <1>1, FirstFieldsType DEF Upto
  <1>3. Encoded(Upto(0)) = <<>>
    BY <1>1, EncodedFieldByField DEF Upto
  <1>4. Meaning(Upto(0)) = DefaultMessage
    BY <1>1, MeaningFieldByField DEF Upto
  <1> QED  BY <1>1, <1>2, <1>3, <1>4 DEF Start

\* The decoder reads what is left of the answer, or of the beginning of it
\* that arrived.
ReadsAnswer ==
  /\ DecoderInv
  /\ AreRendered(answer)
  /\ IsBeginningOf(buffer, Encoded(answer))
  /\ UNCHANGED <<buffer, answer>>

\* A key is read, and the field it names is found from wherever the last one
\* was.
LEMMA KeyIsRead ==
  ASSUME ReadsAnswer, NEW k \in 0 .. Len(answer), BetweenFields(k), HasByte, DecoderStep
  PROVE  k < Len(answer) /\ WithinField(k, 0)'
  <1>1. /\ DecoderParts /\ AreRendered(answer) /\ IsBeginningOf(buffer, Encoded(answer))
        /\ UNCHANGED <<buffer, answer>>
    BY DecoderInvByParts DEF ReadsAnswer
  <1>2. decoding = "tag" /\ varint = NoVarint /\ stream.state = Start(k) /\ message = Meaning(Upto(k))
    BY DEF BetweenFields
  <1>3. /\ stream.state \in Nat /\ Len(answer) \in Nat
        /\ stream.state + 1 <= Len(Encoded(answer))
        /\ NextByte = Encoded(answer)[stream.state + 1]
        /\ Len(Encoded(answer)) \in Nat
    BY <1>1, AtAnswer DEF DecoderParts
  <1>4. k \in 0 .. (Len(answer) - 1)
    <2>1. k # Len(answer)
      BY <1>1, <1>2, <1>3, WholeAnswer
    <2> QED  BY <1>3, <2>1
  <1>5. PICK i \in 1..4, n \in Uint64 : NextField(k, i, n)
    BY <1>1, <1>4, NextFieldOfAnswer
  <1>6. NextByte = 8 * i
    BY <1>2, <1>3, <1>5 DEF NextField, FieldIsAt
  <1>7. ~Overflows32(varint, NextByte) /\ IsLast(NextByte) /\ Value32 = 8 * i
    BY <1>2, <1>6, OneByteVarint
  <1>8. Tag = i /\ Value32 # 0
    BY <1>7 DEF Tag
  <1>9. IterFind(iter, Tag) = {i}
    BY <1>1, <1>8, IterFindAll DEF DecoderParts
  <1>10. DecodeKnown
    <2>1. ~ReadVarint32
      BY <1>2, <1>7 DEF ReadVarint32
    <2>2. ~EndMessage
      BY <1>8 DEF EndMessage
    <2>3. ~SkipUnknown
      BY <1>9 DEF SkipUnknown
    <2>4. ~ReadUvarint /\ ~ReadBool /\ ~SkipVarint /\ ~SkipString /\ ~EndOfStream
      BY <1>2 DEF ReadUvarint, ReadBool, SkipVarint, SkipString, EndOfStream
    <2> QED  BY <2>1, <2>2, <2>3, <2>4 DEF DecoderStep
  <1>11. DecodeField(i) /\ varint' = NoVarint
    BY <1>9, <1>10 DEF DecodeKnown, EndsVarint32
  <1>12. /\ decoding' = Fields[i].ltype /\ iter' = i
         /\ message' = [message EXCEPT !.has[i] = TRUE]
         /\ stream'.state = Start(k) + 1 + 0
    <2>1. Start(k) + 1 = Start(k) + 1 + 0
      BY <1>5 DEF NextField
    <2> QED  BY <1>2, <1>11, <2>1 DEF DecodeField, Taken
  <1>13. /\ 0 < Len(Varint[n])
         /\ VarintValue(SubSeq(Varint[n], 1, 0)) = 0
    <2>1. Varint[n] \in Seq(Byte) /\ 7 * (Len(Varint[n]) - 1) < Bits64 /\ Len(Varint[n]) \in Nat \ {0}
      BY VarintOf64
    <2>2. 0 \in 0 .. Len(Varint[n]) /\ 0 < Len(Varint[n])
      BY <2>1
    <2> QED  BY <2>1, <2>2, VarintByteByByte
  <1>14. NoVarint = [bitpos |-> 7 * 0, result |-> VarintValue(SubSeq(Varint[n], 1, 0))]
    BY <1>13 DEF NoVarint
  <1>15. answer[k + 1].tag = i /\ answer[k + 1].bytes = Varint[n]
    BY <1>5 DEF NextField
  <1>16. WithinField(k, 0)'
    BY <1>1, <1>2, <1>11, <1>12, <1>13, <1>14, <1>15 DEF WithinField, Start, Upto
  <1> QED  BY <1>3, <1>4, <1>16

\* The message ends between two fields, or the bytes do that arrived.
LEMMA EndIsReached ==
  ASSUME ReadsAnswer, NEW k \in 0 .. Len(answer), BetweenFields(k), ~HasByte, DecoderStep
  PROVE  /\ decoding' = "ok" /\ message' = Meaning(Upto(k))
         /\ buffer = Encoded(answer) => message' = Meaning(answer)
  <1>1. /\ DecoderParts /\ AreRendered(answer) /\ IsBeginningOf(buffer, Encoded(answer))
        /\ UNCHANGED <<buffer, answer>>
    BY DecoderInvByParts DEF ReadsAnswer
  <1>2. decoding = "tag" /\ varint.bitpos = 0 /\ stream.state = Start(k) /\ message = Meaning(Upto(k))
    BY DEF BetweenFields, NoVarint
  <1>3. EndOfStream
    BY DEF DecoderStep, ReadVarint32, EndMessage, DecodeKnown, SkipUnknown, ReadUvarint, ReadBool,
           SkipVarint, SkipString, EndsVarint32
  <1>4. decoding' = "ok" /\ message' = message
    BY <1>2, <1>3 DEF EndOfStream
  <1>5. ASSUME buffer = Encoded(answer)
        PROVE  k = Len(answer)
    <2> SUFFICES ASSUME k # Len(answer)
                 PROVE  FALSE
      OBVIOUS
    <2>1. Start(k) = Len(Encoded(answer)) /\ Len(answer) \in Nat
      BY <1>1, <1>2, <1>5, AtAnswer DEF DecoderParts
    <2>2. k \in 0 .. (Len(answer) - 1)
      BY <2>1
    <2>3. PICK i \in 1..4, n \in Uint64 : NextField(k, i, n)
      BY <1>1, <2>2, NextFieldOfAnswer
    <2>4. /\ Start(k) \in Nat /\ Start(k) + 1 + Len(Varint[n]) <= Len(Encoded(answer))
          /\ Len(Varint[n]) \in Nat
      BY <2>3, VarintShape, Uint64Type DEF NextField, FieldIsAt
    <2>5. \A x, y \in Nat : ~(x + 1 + y <= x)
      OBVIOUS
    <2> QED  BY <2>1, <2>4, <2>5
  <1> QED  BY <1>1, <1>2, <1>4, <1>5, WholeAnswer

\* One byte of a value is read: another follows, or the next key does, or the
\* bytes ended too early.
LEMMA ValueIsRead ==
  ASSUME ReadsAnswer, NEW k \in 0 .. (Len(answer) - 1), NEW j \in Nat, WithinField(k, j), DecoderStep
  PROVE  \/ BetweenFields(k + 1)'
         \/ WithinField(k, j + 1)'
         \/ decoding' = "failed" /\ buffer # Encoded(answer)
  <1>1. /\ DecoderParts /\ AreRendered(answer) /\ IsBeginningOf(buffer, Encoded(answer))
        /\ UNCHANGED <<buffer, answer>>
    BY DecoderInvByParts DEF ReadsAnswer
  <1>2. PICK i \in 1..4, n \in Uint64 : NextField(k, i, n)
    BY <1>1, NextFieldOfAnswer
  <1> DEFINE V == Varint[n]
             L == Len(V)
  <1>3. /\ n < TwoTo[Fields[i].bits] /\ Start(k) \in Nat /\ Start(k + 1) = Start(k) + 1 + L
        /\ answer[k + 1].tag = i /\ answer[k + 1].bytes = V
        /\ Start(k) + 1 + L <= Len(Encoded(answer))
        /\ \A m \in 1 .. L : Encoded(answer)[Start(k) + 1 + m] = V[m]
        /\ Meaning(Upto(k)) \in Messages
        /\ Meaning(Upto(k + 1)) = [Meaning(Upto(k)) EXCEPT !.has[i] = TRUE, !.value[i] = n]
    BY <1>2 DEF NextField, FieldIsAt
  <1>4. /\ decoding = Fields[i].ltype /\ iter = i /\ j < L
        /\ varint = [bitpos |-> 7 * j, result |-> VarintValue(SubSeq(V, 1, j))]
        /\ stream.state = Start(k) + 1 + j
        /\ message = [Meaning(Upto(k)) EXCEPT !.has[i] = TRUE]
    BY <1>3 DEF WithinField
  <1>5. /\ n \in Nat /\ V \in Seq(Byte) /\ 7 * (L - 1) < Bits64 /\ L \in Nat \ {0}
        /\ \A m \in 1 .. L : V[m] < 128 <=> m = L
        /\ VarintValue(V) = n
    BY VarintOf64
  <1> HIDE DEF V, L
  <1>6. ASSUME ~HasByte
        PROVE  decoding' = "failed" /\ buffer # Encoded(answer)
    <2>1. EndOfStream
      BY <1>6 DEF DecoderStep, ReadVarint32, EndMessage, DecodeKnown, SkipUnknown, ReadUvarint, ReadBool,
             SkipVarint, SkipString, EndsVarint32
    <2>2. decoding # "tag"
      BY <1>4, FieldsType
    <2>3. Start(k) + 1 + j = Len(buffer)
      BY <1>1, <1>4, <1>6, AtAnswer DEF DecoderParts
    <2>4. Len(buffer) # Len(Encoded(answer))
      <3>1. Len(Encoded(answer)) \in Nat
        BY <1>1, AtAnswer DEF DecoderParts
      <3> QED  BY <1>3, <1>4, <1>5, <2>3, <3>1
    <2> QED  BY <2>1, <2>2, <2>4 DEF EndOfStream
  <1>7. ASSUME HasByte
        PROVE  /\ NextByte = V[j + 1] /\ j + 1 \in 1 .. L /\ NextByte \in Nat
               /\ IsLast(NextByte) <=> j + 1 = L
    <2>1. j + 1 \in 1 .. L
      BY <1>4, <1>5
    <2>2. NextByte = Encoded(answer)[Start(k) + 1 + j + 1]
      BY <1>1, <1>4, <1>7, AtAnswer DEF DecoderParts
    <2>3. Start(k) + 1 + j + 1 = Start(k) + 1 + (j + 1)
      BY <1>3
    <2>4. NextByte = V[j + 1]
      BY <1>3, <2>1, <2>2, <2>3
    <2>5. NextByte \in Nat
      BY <1>1, <1>7, NextByteType DEF DecoderParts
    <2> QED  BY <1>5, <2>1, <2>4, <2>5 DEF IsLast
  <1>8. ASSUME HasByte, message' = [message EXCEPT !.value[iter] = n],
               decoding' = "tag", stream' = Taken(1), varint' = NoVarint, j + 1 = L
        PROVE  BetweenFields(k + 1)'
    <2>1. message' = Meaning(Upto(k + 1))
      BY <1>3, <1>4, <1>8 DEF Messages
    <2>2. stream'.state = Start(k + 1)
      BY <1>3, <1>4, <1>5, <1>8 DEF Taken
    <2> QED  BY <1>1, <1>8, <2>1, <2>2 DEF BetweenFields, Start, Upto
  <1>9. CASE HasByte /\ Fields[i].ltype = "UVARINT"
    <2> DEFINE p == 7 * j
               value == VarintValue(SubSeq(V, 1, j + 1))
    <2>1. ReadUvarint
      BY <1>4, <1>9 DEF DecoderStep, ReadVarint32, EndMessage, DecodeKnown, SkipUnknown, ReadBool,
             SkipVarint, SkipString, EndOfStream
    <2>2. p \in Nat /\ p < Bits64 /\ p + 7 = 7 * (j + 1) /\ varint.bitpos = p
      BY <1>4, <1>5, Widths
    <2>3. Add64(varint, NextByte) = [bitpos |-> 7 * (j + 1), result |-> value]
      <3>1. j + 1 \in 0 .. L /\ j + 1 > 0 /\ (j + 1) - 1 = j
        BY <1>4, <1>5
      <3>2. value = VarintValue(SubSeq(V, 1, j)) + Shifted(V[j + 1], 7 * j, Bits64)
        BY <1>5, <3>1, VarintByteByByte DEF L
      <3> QED  BY <1>4, <1>7, <1>9, <2>2, <3>2 DEF Add64
    <2> HIDE DEF p, value
    <2>4. CASE ~IsLast(NextByte)
      <3>1. /\ varint' = Add64(varint, NextByte) /\ stream' = Taken(1)
            /\ UNCHANGED <<decoding, iter, message>>
        BY <2>1, <2>2, <2>4, Widths DEF ReadUvarint
      <3>2. j + 1 < L
        BY <1>4, <1>5, <1>7, <1>9, <2>4
      <3>3. stream'.state = Start(k) + 1 + (j + 1)
        BY <1>3, <1>4, <3>1 DEF Taken
      <3>4. varint' = [bitpos |-> 7 * (j + 1), result |-> VarintValue(SubSeq(V, 1, j + 1))]
        BY <2>3, <3>1 DEF value
      <3>5. decoding' = Fields[i].ltype /\ iter' = i /\ message' = [Meaning(Upto(k)) EXCEPT !.has[i] = TRUE]
        BY <1>4, <3>1
      <3>6. answer'[k + 1].tag = i /\ answer'[k + 1].bytes = V /\ Upto(k)' = Upto(k) /\ Start(k)' = Start(k)
        BY <1>1, <1>3 DEF Start, Upto
      <3>7. WithinField(k, j + 1)'
        BY <3>2, <3>3, <3>4, <3>5, <3>6, Zenon DEF WithinField, L
      <3> QED  BY <3>7
    <2>5. CASE IsLast(NextByte)
      <3>1. j + 1 = L
        BY <1>7, <1>9, <2>5
      <3>2. value = n
        <4>1. SubSeq(V, 1, L) = V
          BY <1>5 DEF L
        <4> QED  BY <1>5, <3>1, <4>1 DEF value
      <3>3. value % TwoTo[Fields[iter].bits] = n
        <4>1. n % TwoTo[Fields[i].bits] = n
          <5>1. TwoTo[Fields[i].bits] \in Nat
            BY FieldsType, PowerType
          <5> QED  BY <1>3, <1>5, <5>1, SmallRemainder
        <4> QED  BY <1>4, <3>2, <4>1
      <3>4. /\ message' = [message EXCEPT !.value[iter] = n]
            /\ decoding' = "tag" /\ stream' = Taken(1) /\ varint' = NoVarint
        BY <2>1, <2>2, <2>3, <2>5, <3>2, <3>3, Widths DEF ReadUvarint, ReadOn
      <3> QED  BY <1>8, <1>9, <3>1, <3>4
    <2> QED  BY <2>4, <2>5
  <1>10. CASE HasByte /\ Fields[i].ltype = "BOOL"
    <2>1. i = 4
      BY <1>10 DEF Fields
    <2>2. n \in {0, 1} /\ L = 1 /\ V[1] = n
      <3>1. n < 2
        BY <1>3, <2>1, FieldsType, OneBit
      <3>2. n < 128 /\ n \in {0, 1}
        BY <1>5, <3>1
      <3> QED  BY <1>5, <3>2, LastByte DEF V, L
    <2>3. j = 0 /\ j + 1 = L
      BY <1>4, <2>2
    <2>4. varint = NoVarint
      <3>1. 0 \in 0 .. L
        BY <1>5
      <3>2. VarintValue(SubSeq(V, 1, 0)) = 0
        BY <1>5, <3>1, VarintByteByByte DEF L
      <3> QED  BY <1>4, <2>3, <3>2 DEF NoVarint
    <2>5. NextByte = n
      BY <1>7, <1>10, <2>2, <2>3
    <2>6. ~Overflows32(varint, NextByte) /\ IsLast(NextByte) /\ Value32 = n
      BY <1>5, <2>2, <2>4, <2>5, OneByteVarint
    <2>7. ReadBool
      BY <1>4, <1>10, <2>6 DEF DecoderStep, ReadVarint32, EndMessage, DecodeKnown, SkipUnknown, ReadUvarint,
             SkipVarint, SkipString, EndOfStream
    <2>8. /\ message' = [message EXCEPT !.value[iter] = n]
          /\ decoding' = "tag" /\ stream' = Taken(1) /\ varint' = NoVarint
      BY <2>2, <2>6, <2>7 DEF ReadBool, ReadOn, EndsVarint32
    <2> QED  BY <1>8, <1>10, <2>3, <2>8
  <1>11. Fields[i].ltype \in {"UVARINT", "BOOL"}
    BY FieldsType
  <1> QED  BY <1>6, <1>9, <1>10, <1>11

\* nanopb agrees with Meaning: whatever beginning of a rendered answer it is
\* given, after every byte that it takes the message is what the fields so far
\* say; it ends with what some first fields say, or in failure, and given the
\* whole answer with what all of them say.
THEOREM DecoderStepKeepsDecoded ==
  ASSUME ReadsAnswer, IsDecoded, DecoderStep
  PROVE  IsDecoded'
  <1>1. UNCHANGED <<buffer, answer>> /\ Len(answer) \in Nat
    BY DEF ReadsAnswer, AreRendered
  <1>2. ASSUME NEW k \in 0 .. Len(answer), BetweenFields(k)
        PROVE  IsDecoded'
    <2>1. CASE HasByte
      <3>1. k \in 0 .. (Len(answer) - 1) /\ WithinField(k, 0)'
        BY <1>1, <1>2, <2>1, KeyIsRead
      <3> QED  BY <1>1, <3>1 DEF IsDecoded
    <2>2. CASE ~HasByte
      <3>1. /\ decoding' = "ok" /\ message' = Meaning(Upto(k))
            /\ buffer = Encoded(answer) => message' = Meaning(answer)
        BY <1>2, <2>2, EndIsReached
      <3> QED  BY <1>1, <3>1 DEF IsDecoded, Upto
    <2> QED  BY <2>1, <2>2
  <1>3. ASSUME NEW k \in 0 .. (Len(answer) - 1), NEW j \in Nat, WithinField(k, j)
        PROVE  IsDecoded'
    <2>1. \/ BetweenFields(k + 1)'
          \/ WithinField(k, j + 1)'
          \/ decoding' = "failed" /\ buffer # Encoded(answer)
      BY <1>3, ValueIsRead
    <2>2. k + 1 \in 0 .. Len(answer) /\ j + 1 \in Nat
      BY <1>1
    <2> QED  BY <1>1, <2>1, <2>2 DEF IsDecoded
  <1>4. ASSUME decoding \in {"ok", "failed"}
        PROVE  FALSE
    BY <1>4 DEF DecoderStep, ReadVarint32, EndMessage, DecodeKnown, SkipUnknown, ReadUvarint, ReadBool,
           SkipVarint, SkipString, EndOfStream
  <1> QED  BY <1>2, <1>3, <1>4 DEF IsDecoded

-----------------------------------------------------------------------------
(* The answer on its way.                                                  *)

\* s is what follows the first p items of w, or a beginning of that.
Continues(s, w, p) ==
  p + Len(s) <= Len(w) /\ \A i \in 1 .. Len(s) : s[i] = w[p + i]

\* What server/Http.java writes, and that the thread is past writing.
Written == AnswerHeader \o Encoded(answer)

Answered == server.pc \in {"close", "closed"}

\* What arrived and is on its way, when p bytes have been taken.
IsLeft(p) ==
  /\ Continues(received \o incoming, Written, p)
  /\ p > 0 => Answered
  /\ ~broken /\ Answered /\ answer # <<>> => p + Len(received \o incoming) = Len(Written)

\* Of s, the n bytes from p on in w are taken, and `rest' is left.
IsTakenFromFront(s, rest, t, w, p, n) ==
  /\ Continues(rest \o t, w, p + n)
  /\ Len(rest \o t) = Len(s \o t) - n
  /\ p + n <= Len(w)
  /\ \A i \in 1 .. n : s[i] = w[p + i]

LEMMA TakenFromFront ==
  ASSUME NEW s \in Seq(Byte), NEW t \in Seq(Byte), NEW w \in Seq(Byte), NEW p \in Nat,
         NEW n \in 0 .. Len(s), Continues(s \o t, w, p)
  PROVE  IsTakenFromFront(s, SubSeq(s, n + 1, Len(s)), t, w, p, n)
  <1> DEFINE rest == SubSeq(s, n + 1, Len(s))
             u == s \o t
             v == rest \o t
  <1>1. /\ rest \in Seq(Byte) /\ Len(rest) = Len(s) - n /\ Len(s) \in Nat /\ Len(t) \in Nat /\ Len(w) \in Nat
        /\ \A i \in 1 .. (Len(s) - n) : rest[i] = s[n + i]
    OBVIOUS
  <1> HIDE DEF rest
  <1>2. IsConcat(u, s, t) /\ IsConcat(v, rest, t) /\ Continues(u, w, p)
    BY <1>1, ConcatElements
  <1> HIDE DEF u, v
  <1>3. /\ Len(u) = Len(s) + Len(t)
        /\ \A i \in 1 .. Len(s) : u[i] = s[i]
        /\ \A i \in 1 .. Len(t) : u[Len(s) + i] = t[i]
    BY <1>2 DEF IsConcat
  <1>4. /\ Len(v) = Len(rest) + Len(t)
        /\ \A i \in 1 .. Len(rest) : v[i] = rest[i]
        /\ \A i \in 1 .. Len(t) : v[Len(rest) + i] = t[i]
    BY <1>2 DEF IsConcat
  <1>5. /\ p + (Len(s) + Len(t)) <= Len(w)
        /\ \A i \in 1 .. (Len(s) + Len(t)) : u[i] = w[p + i]
    BY <1>2, <1>3 DEF Continues
  <1>6. ASSUME NEW i \in 1 .. (Len(rest) + Len(t))
        PROVE  v[i] = w[p + n + i]
    <2>1. n + i \in 1 .. (Len(s) + Len(t)) /\ p + (n + i) = p + n + i
      BY <1>1
    <2>2. u[n + i] = w[p + n + i]
      BY <1>5, <2>1
    <2>3. CASE i <= Len(rest)
      <3>1. i \in 1 .. Len(rest) /\ i \in 1 .. (Len(s) - n) /\ n + i \in 1 .. Len(s)
        BY <1>1, <2>3
      <3>2. v[i] = rest[i] /\ rest[i] = s[n + i] /\ u[n + i] = s[n + i]
        BY <1>1, <1>3, <1>4, <3>1
      <3> QED  BY <2>2, <3>2
    <2>4. CASE ~(i <= Len(rest))
      <3> DEFINE j == i - Len(rest)
      <3>1. j \in 1 .. Len(t) /\ i = Len(rest) + j /\ n + i = Len(s) + j
        BY <1>1, <2>4
      <3> HIDE DEF j
      <3>2. v[i] = t[j] /\ u[n + i] = t[j]
        BY <1>3, <1>4, <3>1
      <3> QED  BY <2>2, <3>2
    <2> QED  BY <2>3, <2>4
  <1>7. p + n + Len(v) <= Len(w) /\ Len(v) = Len(u) - n /\ p + n <= Len(w)
    BY <1>1, <1>3, <1>4, <1>5
  <1>8. \A i \in 1 .. n : s[i] = w[p + i]
    <2>1. \A i \in 1 .. n : i \in 1 .. Len(s) /\ i \in 1 .. (Len(s) + Len(t))
      BY <1>1
    <2> QED  BY <1>3, <1>5, <2>1
  <1>9. Continues(v, w, p + n)
    BY <1>4, <1>6, <1>7 DEF Continues
  <1> QED  BY <1>7, <1>8, <1>9 DEF IsTakenFromFront, rest, u, v

\* What the header is, byte by byte.
HeaderBytes(h) ==
  /\ h[1] = 120 /\ h[2] = 32 /\ h[3] = 50 /\ h[4] = 48 /\ h[5] = 48
  /\ h[6] = 32 /\ h[7] = 120 /\ h[8] = 13 /\ h[9] = 10
  /\ h[10] = 120 /\ h[11] = 32 /\ h[12] = 120 /\ h[13] = 13 /\ h[14] = 10
  /\ h[15] = 13 /\ h[16] = 10

LEMMA AnswerHeaderBytes ==
  AnswerHeader \in Seq(Byte) /\ Len(AnswerHeader) = 16 /\ HeaderBytes(AnswerHeader)
  <1> DEFINE a == <<Text, SP>>
             b == Codes["OK"]
             c == <<SP, Text, CR, LF>>
             d == <<Text, SP, Text, CR, LF>>
             e == <<CR, LF>>
             ab == a \o b
             abc == ab \o c
             abcd == abc \o d
             abcde == abcd \o e
  <1>1. /\ a \in Seq(Byte) /\ Len(a) = 2 /\ a[1] = 120 /\ a[2] = 32
        /\ b \in Seq(Byte) /\ Len(b) = 3 /\ b[1] = 50 /\ b[2] = 48 /\ b[3] = 48
    BY DEF Text, SP, Codes, Byte
  <1>2. c \in Seq(Byte) /\ Len(c) = 4 /\ c[1] = 32 /\ c[2] = 120 /\ c[3] = 13 /\ c[4] = 10
    BY DEF Text, SP, CR, LF, Byte
  <1>3. /\ d \in Seq(Byte) /\ Len(d) = 5
        /\ d[1] = 120 /\ d[2] = 32 /\ d[3] = 120 /\ d[4] = 13 /\ d[5] = 10
    BY DEF Text, SP, CR, LF, Byte
  <1>4. e \in Seq(Byte) /\ Len(e) = 2 /\ e[1] = 13 /\ e[2] = 10
    BY DEF CR, LF, Byte
  <1>5. AnswerHeader = abcde
    BY DEF AnswerHeader
  <1> HIDE DEF a, b, c, d, e
  <1>6. /\ ab \in Seq(Byte) /\ Len(ab) = 2 + 3
        /\ \A i \in 1 .. 2 : ab[i] = a[i]
        /\ \A i \in 1 .. 3 : ab[2 + i] = b[i]
    <2>1. IsConcat(ab, a, b)
      BY <1>1, ConcatElements
    <2> HIDE DEF ab
    <2> QED  BY <2>1, <1>1 DEF IsConcat
  <1>7. ab[1] = a[1] /\ ab[2] = a[2] /\ ab[2 + 1] = b[1] /\ ab[2 + 2] = b[2] /\ ab[2 + 3] = b[3]
    BY <1>6
  <1> HIDE DEF ab
  <1>8. /\ abc \in Seq(Byte) /\ Len(abc) = 5 + 4
        /\ \A i \in 1 .. 5 : abc[i] = ab[i]
        /\ \A i \in 1 .. 4 : abc[5 + i] = c[i]
    <2>1. IsConcat(abc, ab, c)
      BY <1>2, <1>6, ConcatElements
    <2> HIDE DEF abc
    <2> QED  BY <2>1, <1>2, <1>6 DEF IsConcat
  <1> HIDE DEF abc
  <1>9. /\ abcd \in Seq(Byte) /\ Len(abcd) = 9 + 5
        /\ \A i \in 1 .. 9 : abcd[i] = abc[i]
        /\ \A i \in 1 .. 5 : abcd[9 + i] = d[i]
    <2>1. IsConcat(abcd, abc, d)
      BY <1>3, <1>8, ConcatElements
    <2> HIDE DEF abcd
    <2> QED  BY <2>1, <1>3, <1>8 DEF IsConcat
  <1> HIDE DEF abcd
  <1>10. /\ abcde \in Seq(Byte) /\ Len(abcde) = 14 + 2
         /\ \A i \in 1 .. 14 : abcde[i] = abcd[i]
         /\ \A i \in 1 .. 2 : abcde[14 + i] = e[i]
    <2>1. IsConcat(abcde, abcd, e)
      BY <1>4, <1>9, ConcatElements
    <2> HIDE DEF abcde
    <2> QED  BY <2>1, <1>4, <1>9 DEF IsConcat
  <1> HIDE DEF abcde
  <1>11. \A i \in 1 .. 5 : abcde[i] = ab[i]
    <2>1. \A i \in 1 .. 5 : i \in 1 .. 9 /\ i \in 1 .. 14
      OBVIOUS
    <2> QED  BY <1>8, <1>9, <1>10, <2>1, Zenon
  <1>12. \A i \in 1 .. 4 : abcde[5 + i] = c[i]
    <2>1. \A i \in 1 .. 4 : 5 + i \in 1 .. 9 /\ 5 + i \in 1 .. 14
      OBVIOUS
    <2> QED  BY <1>8, <1>9, <1>10, <2>1, Zenon
  <1>13. \A i \in 1 .. 5 : abcde[9 + i] = d[i]
    <2>1. \A i \in 1 .. 5 : 9 + i \in 1 .. 14
      OBVIOUS
    <2> QED  BY <1>9, <1>10, <2>1, Zenon
  <1>14. /\ abcde[1] = 120 /\ abcde[2] = 32 /\ abcde[3] = 50 /\ abcde[4] = 48 /\ abcde[5] = 48
    BY <1>1, <1>7, <1>11
  <1>15. abcde[6] = 32 /\ abcde[7] = 120 /\ abcde[8] = 13 /\ abcde[9] = 10
    <2>1. abcde[5 + 1] = c[1] /\ abcde[5 + 2] = c[2] /\ abcde[5 + 3] = c[3] /\ abcde[5 + 4] = c[4]
      BY <1>12
    <2> QED  BY <1>2, <2>1
  <1>16. abcde[10] = 120 /\ abcde[11] = 32 /\ abcde[12] = 120 /\ abcde[13] = 13 /\ abcde[14] = 10
    <2>1. /\ abcde[9 + 1] = d[1] /\ abcde[9 + 2] = d[2] /\ abcde[9 + 3] = d[3]
          /\ abcde[9 + 4] = d[4] /\ abcde[9 + 5] = d[5]
      BY <1>13
    <2> QED  BY <1>3, <2>1
  <1>17. abcde[15] = 13 /\ abcde[16] = 10
    <2>1. abcde[14 + 1] = e[1] /\ abcde[14 + 2] = e[2]
      BY <1>10
    <2> QED  BY <1>4, <2>1
  <1> QED  BY <1>5, <1>10, <1>14, <1>15, <1>16, <1>17 DEF HeaderBytes
LEMMA WrittenType ==
  ASSUME answer \in Seq(WireFields)
  PROVE  /\ Written \in Seq(Byte) /\ Len(Written) = 16 + Len(Encoded(answer))
         /\ Encoded(answer) \in Seq(Byte) /\ Len(Encoded(answer)) \in Nat
         /\ \A i \in 1 .. 16 : Written[i] = AnswerHeader[i]
         /\ \A i \in 1 .. Len(Encoded(answer)) : Written[16 + i] = Encoded(answer)[i]
  <1> DEFINE E == Encoded(answer)
  <1>1. E \in Seq(Byte) /\ AnswerHeader \in Seq(Byte) /\ Len(AnswerHeader) = 16
    BY EncodedType, AnswerHeaderBytes
  <1> HIDE DEF E
  <1>2. IsConcat(AnswerHeader \o E, AnswerHeader, E) /\ Len(E) \in Nat
    BY <1>1, ConcatElements
  <1>3. IsConcat(Written, AnswerHeader, E)
    BY <1>2 DEF Written, E
  <1> QED  BY <1>1, <1>2, <1>3 DEF IsConcat, E

\* The feeder takes the next n bytes.
LEMMA BytesAreTaken ==
  ASSUME ClientTypeOK, answer \in Seq(WireFields), NEW p \in Nat, IsLeft(p), Answered,
         NEW n \in 1 .. Len(received), received' = SubSeq(received, n + 1, Len(received)),
         UNCHANGED <<incoming, answer, server, broken>>
  PROVE  /\ IsLeft(p + n)'
         /\ p + n <= Len(Written)
         /\ \A i \in 1 .. n : received[i] = Written[p + i]
  <1>1. received \in Seq(Byte) /\ incoming \in Seq(Byte) /\ Written \in Seq(Byte)
    BY WrittenType DEF ClientTypeOK, Byte
  <1>2. n \in 0 .. Len(received)
    OBVIOUS
  <1>3. IsTakenFromFront(received, received', incoming, Written, p, n)
    BY <1>1, <1>2, TakenFromFront DEF IsLeft
  <1>4. Written' = Written /\ Answered' /\ received' \in Seq(Byte)
    BY <1>1 DEF Written, Answered
  <1>5. ASSUME ~broken, answer # <<>>
        PROVE  p + n + Len(received' \o incoming) = Len(Written)
    <2> DEFINE was == Len(received \o incoming)
               is == Len(received' \o incoming)
               all == Len(Written)
    <2>1. p + was = all
      BY <1>5 DEF IsLeft
    <2>2. is = was - n
      BY <1>3, Zenon DEF IsTakenFromFront
    <2>3. was \in Nat /\ is \in Nat /\ all \in Nat /\ n \in Nat
      BY <1>1, <1>4
    <2> HIDE DEF was, is, all
    <2>4. p + n + is = all
      BY <2>1, <2>2, <2>3
    <2> QED  BY <2>4 DEF is, all
  <1>6. Continues((received \o incoming)', Written', p + n)
    BY <1>3, <1>4 DEF IsTakenFromFront
  <1>7. IsLeft(p + n)'
    BY <1>4, <1>5, <1>6 DEF IsLeft
  <1> QED  BY <1>3, <1>7 DEF IsTakenFromFront

LEMMA FirstByte ==
  ASSUME NEW S, NEW s \in Seq(S), s # <<>>
  PROVE  /\ 1 \in 1 .. Len(s) /\ Head(s) = s[1] /\ Head(s) \in S
         /\ Tail(s) = SubSeq(s, 1 + 1, Len(s)) /\ Tail(s) \in Seq(S)
  OBVIOUS

-----------------------------------------------------------------------------
(* The header of the answer, as _processHeader() takes it.                 *)

\* Its locals after p bytes; the three bytes of the code are taken at once.
HeaderRow(majorSection, section, code, ends) ==
  [majorSection |-> majorSection, section |-> section, statusCode |-> code, endSequence |-> ends]

HeaderAfter(p) ==
  HeaderRow(IF p < 9 THEN 0 ELSE 1,
            IF p < 2 THEN 0 ELSE IF p < 6 THEN 1 ELSE IF p < 9 THEN 2 ELSE IF p < 14 THEN 3 ELSE 4,
            IF p < 2 THEN <<78, 78, 78>> ELSE Codes["OK"],
            IF p \in {8, 13} THEN 1 ELSE IF p \in {9, 14} THEN 2 ELSE IF p = 15 THEN 3 ELSE 0)

LineEndTaken(h) == [h EXCEPT !.endSequence = 2, !.majorSection = 1, !.section = @ + 1]

TextTaken(h, c) ==
  [h EXCEPT !.endSequence = EndSequence(h.endSequence, c),
            !.section = IF c = SP /\ InStatusLine(h) THEN @ + 1 ELSE @]

CodeTaken(h, code) == [h EXCEPT !.section = 1, !.endSequence = 0, !.statusCode = code]

HeaderSteps == {0} \cup 5 .. 14

HeaderFields == {"majorSection", "section", "statusCode", "endSequence"}

LEMMA RowByFields ==
  ASSUME NEW h, NEW m, NEW s, NEW code, NEW ends,
         h = [i \in HeaderFields |-> h[i]],
         h.majorSection = m, h.section = s, h.statusCode = code, h.endSequence = ends
  PROVE  h = HeaderRow(m, s, code, ends)
  <1>1. HeaderRow(m, s, code, ends) = [i \in HeaderFields |-> HeaderRow(m, s, code, ends)[i]]
    BY DEF HeaderRow, HeaderFields
  <1>2. \A i \in HeaderFields : h[i] = HeaderRow(m, s, code, ends)[i]
    BY DEF HeaderRow, HeaderFields
  <1> QED  BY <1>1, <1>2

LEMMA LineRowTaken ==
  ASSUME NEW m, NEW s, NEW code, NEW ends
  PROVE  /\ LineEndTaken(HeaderRow(m, s, code, ends)) = HeaderRow(1, s + 1, code, 2)
         /\ HeaderRow(m, s, code, ends).section = s
         /\ HeaderRow(m, s, code, ends).majorSection = m
         /\ HeaderRow(m, s, code, ends).statusCode = code
         /\ HeaderRow(m, s, code, ends).endSequence = ends
         /\ InStatusLine(HeaderRow(m, s, code, ends)) <=> m = 0
  <1> DEFINE h == HeaderRow(m, s, code, ends)
             line == LineEndTaken(h)
  <1>1. h.section = s /\ h.majorSection = m /\ h.statusCode = code /\ h.endSequence = ends
    BY DEF HeaderRow
  <1>2. InStatusLine(h) <=> m = 0
    BY <1>1 DEF InStatusLine
  <1>3. line = HeaderRow(1, s + 1, code, 2)
    <2>1. /\ line.majorSection = 1 /\ line.section = h.section + 1
          /\ line.statusCode = code /\ line.endSequence = 2
      BY DEF HeaderRow, LineEndTaken
    <2>2. line = [i \in HeaderFields |-> line[i]]
      BY DEF HeaderRow, LineEndTaken, HeaderFields
    <2> HIDE DEF line
    <2> QED  BY <1>1, <2>1, <2>2, RowByFields
  <1> QED  BY <1>1, <1>2, <1>3

LEMMA RowsTaken ==
  ASSUME NEW m, NEW s, NEW code, NEW ends, NEW c
  PROVE  /\ TextTaken(HeaderRow(m, s, code, ends), c)
              = HeaderRow(m, IF c = SP /\ m = 0 THEN s + 1 ELSE s, code, EndSequence(ends, c))
         /\ CodeTaken(HeaderRow(m, s, code, ends), c) = HeaderRow(m, 1, c, 0)
  <1> DEFINE h == HeaderRow(m, s, code, ends)
             text == TextTaken(h, c)
             coded == CodeTaken(h, c)
             next == IF c = SP /\ InStatusLine(h) THEN h.section + 1 ELSE h.section
             seq == EndSequence(h.endSequence, c)
  <1>1. h.section = s /\ h.endSequence = ends /\ (InStatusLine(h) <=> m = 0)
    BY LineRowTaken
  <1>2. text = HeaderRow(m, IF c = SP /\ m = 0 THEN s + 1 ELSE s, code, EndSequence(ends, c))
    <2>1. text = [h EXCEPT !.endSequence = seq, !.section = next]
      BY DEF TextTaken
    <2> HIDE DEF seq, next
    <2>2. text.majorSection = m /\ text.section = next /\ text.statusCode = code /\ text.endSequence = seq
      BY <2>1 DEF HeaderRow
    <2>3. text = [i \in HeaderFields |-> text[i]]
      BY <2>1 DEF HeaderRow, HeaderFields
    <2> HIDE DEF text, h
    <2>4. text = HeaderRow(m, next, code, seq)
      BY <2>2, <2>3, RowByFields
    <2>5. next = (IF c = SP /\ m = 0 THEN s + 1 ELSE s) /\ seq = EndSequence(ends, c)
      BY <1>1 DEF next, seq
    <2> QED  BY <2>4, <2>5
  <1>3. coded = HeaderRow(m, 1, c, 0)
    <2>1. /\ coded.majorSection = m /\ coded.section = 1 /\ coded.statusCode = c /\ coded.endSequence = 0
      BY DEF HeaderRow, CodeTaken
    <2>2. coded = [i \in HeaderFields |-> coded[i]]
      BY DEF HeaderRow, CodeTaken, HeaderFields
    <2> HIDE DEF coded
    <2> QED  BY <2>1, <2>2, RowByFields
  <1> QED  BY <1>2, <1>3

\* The table above is what the code's comparisons give, byte by byte.
LEMMA HeaderTable ==
  /\ HeaderAfter(0) = HeaderAtStart
  /\ \A p \in {8, 13} : /\ EndSequence(HeaderAfter(p).endSequence, AnswerHeader[p + 1]) = 2
                        /\ HeaderAfter(p + 1) = LineEndTaken(HeaderAfter(p))
                        /\ AnswerHeader[p + 1] # SP
  /\ \A p \in HeaderSteps \ {8, 13} :
       /\ EndSequence(HeaderAfter(p).endSequence, AnswerHeader[p + 1]) \notin {2, 4}
       /\ ~(AnswerHeader[p + 1] = SP /\ InStatusLine(HeaderAfter(p)) /\ HeaderAfter(p).section = 0)
       /\ HeaderAfter(p + 1) = TextTaken(HeaderAfter(p), AnswerHeader[p + 1])
  /\ EndSequence(HeaderAfter(15).endSequence, AnswerHeader[16]) = 4 /\ AnswerHeader[16] # SP
  /\ EndSequence(HeaderAfter(1).endSequence, AnswerHeader[2]) = 0 /\ AnswerHeader[2] = SP
  /\ HeaderAfter(5) = CodeTaken(HeaderAfter(1), Codes["OK"])
  <1>1. HeaderAfter(0) = HeaderAtStart
    BY DEF HeaderAfter, HeaderRow, HeaderAtStart
  <1>2. HeaderBytes(AnswerHeader)
    BY AnswerHeaderBytes
  <1>3. ASSUME NEW p \in {8, 13}
        PROVE  /\ EndSequence(HeaderAfter(p).endSequence, AnswerHeader[p + 1]) = 2
               /\ HeaderAfter(p + 1) = LineEndTaken(HeaderAfter(p))
               /\ AnswerHeader[p + 1] # SP
    <2>1. CASE p = 8
      <3>1. AnswerHeader[p + 1] = 10
        BY <1>2, <2>1 DEF HeaderBytes
      <3>2. HeaderAfter(p) = HeaderRow(0, 2, Codes["OK"], 1) /\ HeaderAfter(p + 1) = HeaderRow(1, 3, Codes["OK"], 2)
        BY <2>1 DEF HeaderAfter
      <3>3. 2 + 1 = 3 /\ EndSequence(1, 10) = 2 /\ 10 # SP
        BY DEF EndSequence, SP, CR, LF
      <3>4. LineEndTaken(HeaderAfter(p)) = HeaderRow(1, 2 + 1, Codes["OK"], 2)
            /\ HeaderAfter(p).endSequence = 1
        <4>1. LineEndTaken(HeaderRow(0, 2, Codes["OK"], 1)) = HeaderRow(1, 2 + 1, Codes["OK"], 2)
              /\ HeaderRow(0, 2, Codes["OK"], 1).endSequence = 1
          BY LineRowTaken
        <4> QED  BY <3>2, <4>1, Zenon
      <3> QED  BY <3>1, <3>2, <3>3, <3>4, Zenon
    <2>2. CASE p = 13
      <3>1. AnswerHeader[p + 1] = 10
        BY <1>2, <2>2 DEF HeaderBytes
      <3>2. HeaderAfter(p) = HeaderRow(1, 3, Codes["OK"], 1) /\ HeaderAfter(p + 1) = HeaderRow(1, 4, Codes["OK"], 2)
        BY <2>2 DEF HeaderAfter
      <3>3. 3 + 1 = 4 /\ EndSequence(1, 10) = 2 /\ 10 # SP
        BY DEF EndSequence, SP, CR, LF
      <3>4. LineEndTaken(HeaderAfter(p)) = HeaderRow(1, 3 + 1, Codes["OK"], 2)
            /\ HeaderAfter(p).endSequence = 1
        <4>1. LineEndTaken(HeaderRow(1, 3, Codes["OK"], 1)) = HeaderRow(1, 3 + 1, Codes["OK"], 2)
              /\ HeaderRow(1, 3, Codes["OK"], 1).endSequence = 1
          BY LineRowTaken
        <4> QED  BY <3>2, <4>1, Zenon
      <3> QED  BY <3>1, <3>2, <3>3, <3>4, Zenon
    <2> QED  BY <2>1, <2>2
  <1>4. ASSUME NEW p \in HeaderSteps \ {8, 13}
        PROVE  /\ EndSequence(HeaderAfter(p).endSequence, AnswerHeader[p + 1]) \notin {2, 4}
               /\ ~(AnswerHeader[p + 1] = SP /\ InStatusLine(HeaderAfter(p)) /\ HeaderAfter(p).section = 0)
               /\ HeaderAfter(p + 1) = TextTaken(HeaderAfter(p), AnswerHeader[p + 1])
    <2>1. CASE p = 0
      <3>1. AnswerHeader[p + 1] = 120
        BY <1>2, <2>1 DEF HeaderBytes
      <3>2. /\ HeaderAfter(p) = HeaderRow(0, 0, <<78, 78, 78>>, 0)
            /\ HeaderAfter(p + 1) = HeaderRow(0, 0, <<78, 78, 78>>, 0)
        BY <2>1 DEF HeaderAfter
      <3>3. EndSequence(0, 120) = 0 /\ (IF 120 = SP /\ 0 = 0 THEN 0 + 1 ELSE 0) = 0
            /\ ~(120 = SP /\ 0 = 0 /\ 0 = 0) /\ 0 \notin {2, 4}
        BY DEF EndSequence, SP, CR, LF
      <3> QED  BY <3>1, <3>2, <3>3, RowsTaken, LineRowTaken
    <2>2. CASE p = 5
      <3>1. AnswerHeader[p + 1] = 32
        BY <1>2, <2>2 DEF HeaderBytes
      <3>2. HeaderAfter(p) = HeaderRow(0, 1, Codes["OK"], 0) /\ HeaderAfter(p + 1) = HeaderRow(0, 2, Codes["OK"], 0)
        BY <2>2 DEF HeaderAfter
      <3>3. EndSequence(0, 32) = 0 /\ (IF 32 = SP /\ 0 = 0 THEN 1 + 1 ELSE 1) = 2
            /\ ~(32 = SP /\ 0 = 0 /\ 1 = 0) /\ 0 \notin {2, 4}
        BY DEF EndSequence, SP, CR, LF
      <3> QED  BY <3>1, <3>2, <3>3, RowsTaken, LineRowTaken
    <2>3. CASE p = 6
      <3>1. AnswerHeader[p + 1] = 120
        BY <1>2, <2>3 DEF HeaderBytes
      <3>2. HeaderAfter(p) = HeaderRow(0, 2, Codes["OK"], 0) /\ HeaderAfter(p + 1) = HeaderRow(0, 2, Codes["OK"], 0)
        BY <2>3 DEF HeaderAfter
      <3>3. EndSequence(0, 120) = 0 /\ (IF 120 = SP /\ 0 = 0 THEN 2 + 1 ELSE 2) = 2
            /\ ~(120 = SP /\ 0 = 0 /\ 2 = 0) /\ 0 \notin {2, 4}
        BY DEF EndSequence, SP, CR, LF
      <3> QED  BY <3>1, <3>2, <3>3, RowsTaken, LineRowTaken
    <2>4. CASE p = 7
      <3>1. AnswerHeader[p + 1] = 13
        BY <1>2, <2>4 DEF HeaderBytes
      <3>2. HeaderAfter(p) = HeaderRow(0, 2, Codes["OK"], 0) /\ HeaderAfter(p + 1) = HeaderRow(0, 2, Codes["OK"], 1)
        BY <2>4 DEF HeaderAfter
      <3>3. EndSequence(0, 13) = 1 /\ (IF 13 = SP /\ 0 = 0 THEN 2 + 1 ELSE 2) = 2
            /\ ~(13 = SP /\ 0 = 0 /\ 2 = 0) /\ 1 \notin {2, 4}
        BY DEF EndSequence, SP, CR, LF
      <3> QED  BY <3>1, <3>2, <3>3, RowsTaken, LineRowTaken
    <2>5. CASE p = 9
      <3>1. AnswerHeader[p + 1] = 120
        BY <1>2, <2>5 DEF HeaderBytes
      <3>2. HeaderAfter(p) = HeaderRow(1, 3, Codes["OK"], 2) /\ HeaderAfter(p + 1) = HeaderRow(1, 3, Codes["OK"], 0)
        BY <2>5 DEF HeaderAfter
      <3>3. EndSequence(2, 120) = 0 /\ (IF 120 = SP /\ 1 = 0 THEN 3 + 1 ELSE 3) = 3
            /\ ~(120 = SP /\ 1 = 0 /\ 3 = 0) /\ 0 \notin {2, 4}
        BY DEF EndSequence, SP, CR, LF
      <3> QED  BY <3>1, <3>2, <3>3, RowsTaken, LineRowTaken
    <2>6. CASE p = 10
      <3>1. AnswerHeader[p + 1] = 32
        BY <1>2, <2>6 DEF HeaderBytes
      <3>2. HeaderAfter(p) = HeaderRow(1, 3, Codes["OK"], 0) /\ HeaderAfter(p + 1) = HeaderRow(1, 3, Codes["OK"], 0)
        BY <2>6 DEF HeaderAfter
      <3>3. EndSequence(0, 32) = 0 /\ (IF 32 = SP /\ 1 = 0 THEN 3 + 1 ELSE 3) = 3
            /\ ~(32 = SP /\ 1 = 0 /\ 3 = 0) /\ 0 \notin {2, 4}
        BY DEF EndSequence, SP, CR, LF
      <3> QED  BY <3>1, <3>2, <3>3, RowsTaken, LineRowTaken
    <2>7. CASE p = 11
      <3>1. AnswerHeader[p + 1] = 120
        BY <1>2, <2>7 DEF HeaderBytes
      <3>2. HeaderAfter(p) = HeaderRow(1, 3, Codes["OK"], 0) /\ HeaderAfter(p + 1) = HeaderRow(1, 3, Codes["OK"], 0)
        BY <2>7 DEF HeaderAfter
      <3>3. EndSequence(0, 120) = 0 /\ (IF 120 = SP /\ 1 = 0 THEN 3 + 1 ELSE 3) = 3
            /\ ~(120 = SP /\ 1 = 0 /\ 3 = 0) /\ 0 \notin {2, 4}
        BY DEF EndSequence, SP, CR, LF
      <3> QED  BY <3>1, <3>2, <3>3, RowsTaken, LineRowTaken
    <2>8. CASE p = 12
      <3>1. AnswerHeader[p + 1] = 13
        BY <1>2, <2>8 DEF HeaderBytes
      <3>2. HeaderAfter(p) = HeaderRow(1, 3, Codes["OK"], 0) /\ HeaderAfter(p + 1) = HeaderRow(1, 3, Codes["OK"], 1)
        BY <2>8 DEF HeaderAfter
      <3>3. EndSequence(0, 13) = 1 /\ (IF 13 = SP /\ 1 = 0 THEN 3 + 1 ELSE 3) = 3
            /\ ~(13 = SP /\ 1 = 0 /\ 3 = 0) /\ 1 \notin {2, 4}
        BY DEF EndSequence, SP, CR, LF
      <3> QED  BY <3>1, <3>2, <3>3, RowsTaken, LineRowTaken
    <2>9. CASE p = 14
      <3>1. AnswerHeader[p + 1] = 13
        BY <1>2, <2>9 DEF HeaderBytes
      <3>2. HeaderAfter(p) = HeaderRow(1, 4, Codes["OK"], 2) /\ HeaderAfter(p + 1) = HeaderRow(1, 4, Codes["OK"], 3)
        BY <2>9 DEF HeaderAfter
      <3>3. EndSequence(2, 13) = 3 /\ (IF 13 = SP /\ 1 = 0 THEN 4 + 1 ELSE 4) = 4
            /\ ~(13 = SP /\ 1 = 0 /\ 4 = 0) /\ 3 \notin {2, 4}
        BY DEF EndSequence, SP, CR, LF
      <3> QED  BY <3>1, <3>2, <3>3, RowsTaken, LineRowTaken
    <2>10. p \in {0, 5, 6, 7, 9, 10, 11, 12, 14}
      BY DEF HeaderSteps
    <2> QED  BY <2>1, <2>2, <2>3, <2>4, <2>5, <2>6, <2>7, <2>8, <2>9, <2>10
  <1>5. EndSequence(HeaderAfter(15).endSequence, AnswerHeader[16]) = 4 /\ AnswerHeader[16] # SP
    BY <1>2 DEF HeaderBytes, HeaderAfter, HeaderRow, EndSequence, SP, CR, LF
  <1>6. EndSequence(HeaderAfter(1).endSequence, AnswerHeader[2]) = 0 /\ AnswerHeader[2] = SP
    BY <1>2 DEF HeaderBytes, HeaderAfter, HeaderRow, EndSequence, SP, CR, LF
  <1>7. HeaderAfter(5) = CodeTaken(HeaderAfter(1), Codes["OK"])
    BY RowsTaken DEF HeaderAfter
  <1> QED  BY <1>1, <1>3, <1>4, <1>5, <1>6, <1>7

\* Only the code 200 is OK.
LEMMA OnlyOKIsOK ==
  ASSUME NEW code
  PROVE  StatusFromCode(code) = "OK" <=> code = Codes["OK"]
  <1>1. DOMAIN Codes = {"OK", "BAD_REQUEST", "INTERNAL_SERVER_ERROR", "SERVICE_UNAVAILABLE"}
    BY DEF Codes
  <1>2. \A s \in DOMAIN Codes : Codes[s] = Codes["OK"] => s = "OK"
    <2>1. /\ Codes["OK"][1] = 50 /\ Codes["BAD_REQUEST"][1] = 52
          /\ Codes["INTERNAL_SERVER_ERROR"][1] = 53 /\ Codes["SERVICE_UNAVAILABLE"][1] = 53
      BY DEF Codes
    <2> QED  BY <1>1, <2>1
  <1>3. CASE \E s \in DOMAIN Codes : Codes[s] = code
    <2>1. StatusFromCode(code) \in DOMAIN Codes /\ Codes[StatusFromCode(code)] = code
      BY <1>3 DEF StatusFromCode
    <2> QED  BY <1>2, <2>1
  <1>4. CASE ~ \E s \in DOMAIN Codes : Codes[s] = code
    <2>1. StatusFromCode(code) = "UNKNOWN" /\ code # Codes["OK"]
      BY <1>1, <1>4 DEF StatusFromCode
    <2> QED  BY <2>1
  <1> QED  BY <1>3, <1>4

-----------------------------------------------------------------------------
(* The way of the answer.                                                  *)

\* The connection carries the answer and nothing else, while sendRequest()
\* waits for it.
Connection ==
  /\ phase # "response" \/ ~Answered => received = <<>> /\ incoming = <<>>
  /\ phase \in {"encode", "send", "response"} =>
       open \/ broken \/ (server.pc = "closed" /\ incoming = <<>>)
  /\ phase \in {"connect", "encode", "send"} =>
       reading = "idle" /\ ~split /\ holes = 0 /\ answer = <<>>
  /\ phase \in {"connect", "encode", "send", "response"} => decoding = "idle" /\ varint = NoVarint
  /\ phase = "response" => reading # "idle"
  /\ phase \in {"decode", "done"} => ~open
  /\ server.pc \in {"none", "header", "body", "handle"} => answer = <<>>

\* p bytes of the header have been taken, unless the status code was cut:
\* then its last byte is the N that stands there at the start.
HeaderTaken ==
  phase = "response" /\ reading = "header" =>
    /\ holes = 0 /\ body.data = <<>>
    /\ IF split THEN header.section > 0 /\ header.statusCode[3] = 78
       ELSE \E p \in {0, 1} \cup 5 .. 15 : header = HeaderAfter(p) /\ IsLeft(p)

\* As long as no byte of the body was lost, what was read of it is a beginning
\* of the answer, and the rest follows where it ends.
BodyTaken ==
  phase = "response" /\ reading = "body" =>
    /\ ~split /\ Answered /\ status = "OK"
    /\ holes = 0 => IsBeginningOf(body.data, Encoded(answer)) /\ IsLeft(16 + Len(body.data))

\* What is taken for the answer is a beginning of it, and the whole of it
\* unless the connection broke.
IsTaken(bytes) ==
  /\ ~split /\ Answered
  /\ holes = 0 => /\ IsBeginningOf(bytes, Encoded(answer))
                  /\ ~broken /\ answer # <<>> => bytes = Encoded(answer)

\* A response that is not a 200 was cut, or broken off, or is the 500 of a
\* server that has no answer.
ResponseTakenInv ==
  phase = "response" /\ reading = "done" =>
    IF status = "OK" THEN IsTaken(body.data)
    ELSE split \/ broken \/ (Answered /\ answer = <<>>)

\* nanopb reads what sendRequest() took.
Decoding ==
  phase = "decode" => IsTaken(buffer) /\ (holes = 0 => IsDecoded)

\* The server has heard nothing, and will not.
NotSent == ~outgoing.header /\ server.pc \in {"none", "header"}

\* What the check-in ends with.
Response ==
  phase = "done" =>
    /\ answer = <<>> => broken \/ split \/ Answered \/ NotSent
    /\ answer # <<>> /\ ~broken /\ ~split /\ holes = 0 => response = Meaning(answer)

\* Where the answer is at each moment of a check-in. WholeAnswerIsTaken speaks
\* of its end only; that it holds there is because no byte of the answer was out
\* of its place before: in the connection, in the header's locals, in the body's
\* list, and in the message that nanopb fills.
AnswerInv ==
  /\ AreRendered(answer)
  /\ Connection /\ HeaderTaken /\ BodyTaken /\ ResponseTakenInv /\ Decoding /\ Response

\* What the server may answer is rendered by ProtoBodyRenderer.java:12: each
\* field is a number of its type. In which order, how often and with which
\* numbers does not matter.
AnswersAreRendered ==
  \A reported \in BOOLEAN : \A fields \in Answers(reported) : AreRendered(fields)

-----------------------------------------------------------------------------
(* Steps of the server and of the network.                                 *)

\* The feeder does nothing, and what was answered stays.
FeederWaits ==
  /\ UNCHANGED <<decoderVars, responseVars, phase, response>>
  /\ Answered => Answered' /\ answer' = answer
  /\ broken => broken'
  /\ phase = "response" => \A p \in Nat : IsLeft(p) => IsLeft(p)'
  /\ answer' = answer \/ ~Answered

LEMMA FeederWaitsKeepsAnswer ==
  ASSUME ClientTypeOK, AnswerInv, FeederWaits, AreRendered(answer'), Connection', Response'
  PROVE  AnswerInv'
  <1>1. UNCHANGED <<buffer, stream, decoding, varint, iter, message, reading, header, status, body,
                    holes, split, phase, response>>
    BY DEF FeederWaits, decoderVars, responseVars
  <1>2. HeaderTaken'
    <2> SUFFICES ASSUME phase = "response", reading = "header"
                 PROVE  HeaderTaken'
      BY <1>1 DEF HeaderTaken
    <2>1. holes = 0 /\ body.data = <<>>
          /\ IF split THEN header.section > 0 /\ header.statusCode[3] = 78
             ELSE \E p \in {0, 1} \cup 5 .. 15 : header = HeaderAfter(p) /\ IsLeft(p)
      BY DEF AnswerInv, HeaderTaken
    <2>2. \A p \in {0, 1} \cup 5 .. 15 : IsLeft(p) => IsLeft(p)'
      BY DEF FeederWaits
    <2>3. header' = header /\ split' = split /\ holes' = holes /\ body' = body
      BY <1>1
    <2>4. CASE split
      BY <2>1, <2>3, <2>4 DEF HeaderTaken
    <2>5. CASE ~split
      <3>1. PICK p \in {0, 1} \cup 5 .. 15 : header = HeaderAfter(p) /\ IsLeft(p)
        BY <2>1, <2>5
      <3>2. header' = HeaderAfter(p) /\ IsLeft(p)'
        BY <2>2, <2>3, <3>1
      <3>3. HeaderAfter(p)' = HeaderAfter(p)
        OBVIOUS
      <3> QED  BY <2>1, <2>3, <2>5, <3>2 DEF HeaderTaken
    <2> QED  BY <2>4, <2>5
  <1>3. BodyTaken'
    <2> SUFFICES ASSUME phase = "response", reading = "body"
                 PROVE  BodyTaken'
      BY <1>1 DEF BodyTaken
    <2>1. /\ ~split /\ Answered /\ status = "OK"
          /\ holes = 0 => IsBeginningOf(body.data, Encoded(answer)) /\ IsLeft(16 + Len(body.data))
      BY DEF AnswerInv, BodyTaken
    <2>2. Answered' /\ answer' = answer
      BY <2>1 DEF FeederWaits
    <2>3. /\ split' = split /\ status' = status /\ holes' = holes /\ body'.data = body.data
          /\ Encoded(answer)' = Encoded(answer)
      BY <1>1, <2>2
    <2>4. ASSUME holes = 0
          PROVE  (IsBeginningOf(body.data, Encoded(answer)) /\ IsLeft(16 + Len(body.data)))'
      <3>1. body.data \in Seq(0..255)
        BY DEF ClientTypeOK, ArrayLists
      <3>2. 16 + Len(body.data) \in Nat
        BY <3>1, LenProperties
      <3>3. PICK p \in Nat : p = 16 + Len(body.data)
        BY <3>2
      <3>4. IsLeft(p)'
        BY <2>1, <2>4, <3>3 DEF FeederWaits
      <3>5. (16 + Len(body.data))' = p
        BY <2>3, <3>3
      <3>6. IsLeft(16 + Len(body.data))'
        BY <3>4, <3>5 DEF IsLeft
      <3> QED  BY <2>1, <2>3, <2>4, <3>6
    <2> QED  BY <2>1, <2>2, <2>3, <2>4 DEF BodyTaken
  <1>4. ASSUME NEW bytes, IsTaken(bytes), bytes' = bytes
        PROVE  IsTaken(bytes)'
    <2>1. Answered' /\ answer' = answer /\ split' = split /\ holes' = holes /\ (broken => broken')
      BY <1>1, <1>4 DEF IsTaken, FeederWaits
    <2> QED  BY <1>4, <2>1 DEF IsTaken
  <1>5. ResponseTakenInv'
    <2> SUFFICES ASSUME phase = "response", reading = "done"
                 PROVE  ResponseTakenInv'
      BY <1>1 DEF ResponseTakenInv
    <2>1. IF status = "OK" THEN IsTaken(body.data)
          ELSE split \/ broken \/ (Answered /\ answer = <<>>)
      BY DEF AnswerInv, ResponseTakenInv
    <2>2. status = "OK" => IsTaken(body.data)'
      BY <1>1, <1>4, <2>1
    <2>3. status # "OK" => (split \/ broken \/ (Answered /\ answer = <<>>))'
      BY <1>1, <2>1 DEF FeederWaits
    <2> QED  BY <1>1, <2>2, <2>3 DEF ResponseTakenInv
  <1>6. Decoding'
    <2> SUFFICES ASSUME phase = "decode"
                 PROVE  Decoding'
      BY <1>1 DEF Decoding
    <2>1. IsTaken(buffer) /\ (holes = 0 => IsDecoded)
      BY DEF AnswerInv, Decoding
    <2>2. IsTaken(buffer)'
      BY <1>1, <1>4, <2>1
    <2>3. answer' = answer
      BY <2>1 DEF IsTaken, FeederWaits
    <2>4. IsDecoded' = IsDecoded
      BY <1>1, <2>3 DEF IsDecoded, BetweenFields, WithinField, Start, Upto
    <2> QED  BY <1>1, <2>1, <2>2, <2>4 DEF Decoding
  <1> QED  BY <1>2, <1>3, <1>5, <1>6 DEF AnswerInv

\* Before the thread writes, nothing is under way.
LEMMA AnsweredPc ==
  ASSUME AnswerInv, server.pc \in {"none", "header", "body", "handle", "write"}
  PROVE  /\ ~Answered /\ received = <<>> /\ incoming = <<>>
         /\ phase # "decode"
         /\ phase = "done" => broken \/ split \/ NotSent \/ answer # <<>>
         /\ \A p \in Nat : IsLeft(p) => p = 0
  BY DEF AnswerInv, Connection, Answered, Decoding, IsTaken, Response, IsLeft

LEMMA NothingIsLeft ==
  ASSUME NEW fields \in Seq(WireFields)
  PROVE  Continues(<<>> \o <<>>, AnswerHeader \o Encoded(fields), 0)
  <1>1. AnswerHeader \o Encoded(fields) \in Seq(Byte)
    BY EncodedType, AnswerHeaderBytes, ConcatProperties
  <1>2. <<>> \o <<>> = <<>> /\ Len(<<>>) = 0 /\ Len(AnswerHeader \o Encoded(fields)) \in Nat
    BY <1>1, LenProperties
  <1> QED  BY <1>2 DEF Continues

\* The server's thread reads the request.
LEMMA ReadingKeepsAnswer ==
  ASSUME ExchangeInv, AnswerInv,
         UNCHANGED <<decoderVars, clientVars, feederVars, answer, broken>>,
         server.pc \in {"header", "body", "handle"},
         server'.pc \in {"header", "body", "handle", "close"},
         ~NotSent \/ server'.pc = "close"
  PROVE  AnswerInv'
  <1>1. /\ ~Answered /\ received = <<>> /\ incoming = <<>> /\ answer = <<>> /\ phase # "decode"
        /\ phase = "done" => broken \/ split \/ NotSent
        /\ \A p \in Nat : IsLeft(p) => p = 0
    BY AnsweredPc DEF AnswerInv, Connection
  <1>2. UNCHANGED <<open, incoming, received, reading, header, status, body, holes, split, phase, response,
                    buffer, stream, decoding, varint, iter, message>>
    BY DEF clientVars, tcpVars, responseVars, feederVars, decoderVars
  <1>3. answer \in Seq(WireFields) /\ ClientTypeOK
    BY DEF ExchangeInv, ServerTypeOK
  <1>4. ASSUME NEW p \in Nat, IsLeft(p)
        PROVE  IsLeft(p)'
    <2>1. p = 0
      BY <1>1, <1>4
    <2>2. Continues(received \o incoming, Written, p)'
      BY <1>2, <1>4 DEF IsLeft, Written
    <2> QED  BY <1>1, <2>1, <2>2 DEF IsLeft
  <1>5. FeederWaits
    BY <1>1, <1>2, <1>4 DEF FeederWaits, decoderVars, responseVars
  <1>6. Connection'
    <2>1. Connection
      BY DEF AnswerInv
    <2>2. /\ phase # "response" \/ ~Answered' => received' = <<>> /\ incoming' = <<>>
          /\ phase \in {"encode", "send", "response"} => open \/ broken
      BY <1>1, <1>2, <2>1 DEF Connection
    <2> QED  BY <1>1, <1>2, <2>1, <2>2 DEF Connection
  <1>7. Response'
    <2>1. phase = "done" => (broken \/ split \/ Answered')
      BY <1>1 DEF Answered
    <2> QED  BY <1>1, <1>2, <2>1 DEF Response
  <1>8. AreRendered(answer')
    BY DEF AnswerInv
  <1> QED  BY <1>3, <1>5, <1>6, <1>7, <1>8, FeederWaitsKeepsAnswer

\* handleRequest() makes the answer: it is rendered, and not yet under way.
LEMMA HandlingKeepsAnswer ==
  ASSUME AnswersAreRendered, ExchangeInv, AnswerInv,
         server.pc = "handle", server' = [server EXCEPT !.pc = "write"], answer' \in AnswersTo(heard'),
         UNCHANGED <<decoderVars, clientVars, feederVars, broken>>
  PROVE  AnswerInv'
  <1>1. /\ server.pc = "handle" /\ server' = [server EXCEPT !.pc = "write"]
        /\ answer' \in AnswersTo(heard')
        /\ UNCHANGED <<decoderVars, clientVars, feederVars, broken>>
    OBVIOUS
  <1>2. /\ ~Answered /\ received = <<>> /\ incoming = <<>> /\ answer = <<>> /\ phase # "decode"
        /\ phase = "done" => broken \/ split \/ NotSent
        /\ \A p \in Nat : IsLeft(p) => p = 0
    BY <1>1, AnsweredPc DEF AnswerInv, Connection
  <1>3. UNCHANGED <<open, incoming, received, reading, header, status, body, holes, split, phase, response,
                    buffer, stream, decoding, varint, iter, message>>
    BY <1>1 DEF clientVars, tcpVars, responseVars, feederVars, decoderVars
  <1>4. ClientTypeOK /\ ServerTypeOK /\ Delivery
    BY DEF ExchangeInv
  <1>5. server'.pc = "write" /\ ~Answered'
    BY <1>1, <1>4 DEF ServerTypeOK, Answered
  <1>6. AreRendered(answer')
    BY <1>1 DEF AnswersTo, AnswersAreRendered
  <1>7. answer' \in Seq(WireFields)
    BY <1>6 DEF AreRendered
  <1>8. ASSUME NEW p \in Nat, IsLeft(p)
        PROVE  IsLeft(p)'
    <2>1. p = 0
      BY <1>2, <1>8
    <2>2. Continues(received \o incoming, Written, 0)'
      BY <1>2, <1>3, <1>7, NothingIsLeft DEF Written
    <2> QED  BY <1>5, <2>1, <2>2 DEF IsLeft
  <1>9. FeederWaits
    BY <1>1, <1>2, <1>3, <1>8 DEF FeederWaits, decoderVars, responseVars
  <1>10. Connection'
    <2>1. Connection
      BY DEF AnswerInv
    <2>2. phase \notin {"connect", "encode", "send"}
      BY <1>1, <1>4 DEF Delivery
    <2>3. phase \in {"encode", "send", "response"} => open \/ broken
      BY <1>1, <2>1 DEF Connection
    <2> QED  BY <1>1, <1>2, <1>3, <1>5, <2>1, <2>2, <2>3 DEF Connection
  <1>11. Response'
    <2>1. ~NotSent
      BY <1>1 DEF NotSent
    <2> QED  BY <1>1, <1>2, <1>3, <2>1 DEF Response
  <1> QED  BY <1>4, <1>6, <1>9, <1>10, <1>11, FeederWaitsKeepsAnswer

\* The whole of it is on its way, or nothing where the connection broke.
LEMMA WritingKeepsAnswer ==
  ASSUME ExchangeInv, AnswerInv, WriteAnswer
  PROVE  AnswerInv'
  <1>1. /\ server.pc = "write" /\ server' = [server EXCEPT !.pc = "close"]
        /\ incoming' = IF open THEN Written ELSE <<>>
        /\ UNCHANGED <<decoderVars, open, received, responseVars, feederVars, outgoing, answer, broken>>
    BY DEF WriteAnswer, Written
  <1>2. /\ ~Answered /\ received = <<>> /\ incoming = <<>> /\ phase # "decode"
        /\ phase = "done" => broken \/ split \/ NotSent \/ answer # <<>>
        /\ \A p \in Nat : IsLeft(p) => p = 0
    BY <1>1, AnsweredPc
  <1>3. UNCHANGED <<open, received, reading, header, status, body, holes, split, phase, response,
                    buffer, stream, decoding, varint, iter, message>>
    BY <1>1 DEF responseVars, feederVars, decoderVars
  <1>4. ClientTypeOK /\ ServerTypeOK /\ Delivery /\ Connection /\ AreRendered(answer)
    BY DEF ExchangeInv, AnswerInv
  <1>5. server'.pc = "close" /\ Answered'
    BY <1>1, <1>4 DEF ServerTypeOK, Answered
  <1>6. phase \in {"response", "done"}
    BY <1>1, <1>2, <1>4 DEF Delivery, ExchangeInv, FeederTypeOK
  <1>7. ASSUME NEW p \in Nat, IsLeft(p), phase = "response"
        PROVE  IsLeft(p)'
    <2>1. p = 0 /\ Written' = Written
      BY <1>1, <1>2, <1>7 DEF Written
    <2>2. Written \in Seq(Byte) /\ Len(Written) \in Nat
      BY <1>4, WrittenType, LenProperties DEF ServerTypeOK
    <2>3. CASE open
      <3>1. received' \o incoming' = Written
        BY <1>1, <1>2, <2>2, <2>3
      <3>2. Continues(Written, Written, 0)
        BY <2>2 DEF Continues
      <3>3. 0 + Len(Written) = Len(Written)
        BY <2>2
      <3> HIDE DEF Written
      <3> QED  BY <2>1, <3>1, <3>2, <3>3 DEF IsLeft
    <2>4. CASE ~open
      <3>1. broken
        BY <1>1, <1>4, <1>7, <2>4 DEF Connection
      <3>2. received' = <<>> /\ incoming' = <<>> /\ answer' \in Seq(WireFields)
        BY <1>1, <1>2, <1>4, <2>4 DEF ServerTypeOK
      <3>3. Continues(received \o incoming, Written, 0)'
        BY <3>2, NothingIsLeft DEF Written
      <3> QED  BY <1>1, <2>1, <3>1, <3>3 DEF IsLeft
    <2> QED  BY <2>3, <2>4
  <1>8. FeederWaits
    BY <1>1, <1>2, <1>3, <1>7 DEF FeederWaits, decoderVars, responseVars
  <1>9. Connection'
    <2>1. phase # "response" => incoming' = <<>>
      BY <1>1, <1>4, <1>6 DEF Connection
    <2>2. phase = "response" => open \/ broken
      BY <1>1, <1>4 DEF Connection
    <2> QED  BY <1>1, <1>2, <1>3, <1>4, <1>5, <1>6, <2>1, <2>2 DEF Connection
  <1>10. Response'
    BY <1>1, <1>3, <1>5 DEF Response, AnswerInv
  <1>11. AreRendered(answer')
    BY <1>1, <1>4
  <1> QED  BY <1>4, <1>8, <1>9, <1>10, <1>11, FeederWaitsKeepsAnswer

LEMMA ClosingKeepsAnswer ==
  ASSUME ExchangeInv, AnswerInv, CloseSocket
  PROVE  AnswerInv'
  <1>1. /\ server.pc = "close" /\ incoming = <<>> /\ open' = FALSE
        /\ server' = [server EXCEPT !.pc = "closed"]
        /\ UNCHANGED <<decoderVars, incoming, received, responseVars, feederVars, outgoing, answer, broken>>
    BY DEF CloseSocket
  <1>2. UNCHANGED <<reading, header, status, body, holes, split, phase, response,
                    buffer, stream, decoding, varint, iter, message>>
    BY <1>1 DEF responseVars, feederVars, decoderVars
  <1>3. ClientTypeOK /\ ServerTypeOK /\ Connection /\ AreRendered(answer)
    BY DEF ExchangeInv, AnswerInv
  <1>4. server'.pc = "closed" /\ Answered /\ Answered'
    BY <1>1, <1>3 DEF ServerTypeOK, Answered
  <1>5. ASSUME NEW p \in Nat, IsLeft(p)
        PROVE  IsLeft(p)'
    BY <1>1, <1>4, <1>5 DEF IsLeft, Written
  <1>6. FeederWaits
    BY <1>1, <1>2, <1>4, <1>5 DEF FeederWaits, decoderVars, responseVars
  <1>7. Connection'
    BY <1>1, <1>2, <1>3, <1>4 DEF Connection
  <1>8. Response'
    BY <1>1, <1>2, <1>4 DEF Response, AnswerInv
  <1> QED  BY <1>1, <1>3, <1>6, <1>7, <1>8, FeederWaitsKeepsAnswer

LEMMA ServerStepKeepsAnswer ==
  ASSUME AnswersAreRendered, ExchangeInv, AnswerInv, ServerStep
  PROVE  AnswerInv'
  <1>1. ServerTypeOK
    BY DEF ExchangeInv
  <1>2. CASE ReadRequestHeader
    <2>1. server.pc = "header" /\ server'.pc \in {"body", "handle"} /\ ~NotSent
          /\ UNCHANGED <<decoderVars, clientVars, feederVars, answer, broken>>
      BY <1>1, <1>2 DEF ReadRequestHeader, ServerTypeOK, NotSent
    <2> QED  BY <2>1, ReadingKeepsAnswer
  <1>3. CASE RequestHeaderCutOff
    <2>1. server.pc = "header" /\ server'.pc = "close"
          /\ UNCHANGED <<decoderVars, clientVars, feederVars, answer, broken>>
      BY <1>1, <1>3 DEF RequestHeaderCutOff, ServerTypeOK
    <2> QED  BY <2>1, ReadingKeepsAnswer
  <1>4. CASE ReadRequestBody
    <2>1. server.pc = "body" /\ UNCHANGED <<decoderVars, clientVars, feederVars, answer, broken>>
          /\ \E now, chars : server' = [server EXCEPT !.arrived = now, !.bytesRead = chars,
                               !.pc = IF chars < server.contentLength THEN "body" ELSE "handle"]
      BY <1>4 DEF ReadRequestBody
    <2>2. server'.pc \in {"body", "handle"} /\ ~NotSent
      BY <1>1, <2>1 DEF ServerTypeOK, NotSent
    <2> QED  BY <2>1, <2>2, ReadingKeepsAnswer
  <1>5. CASE RequestBodyCutOff
    <2>1. server.pc = "body" /\ server'.pc \in {"body", "close"} /\ ~NotSent
          /\ UNCHANGED <<decoderVars, clientVars, feederVars, answer, broken>>
      BY <1>1, <1>5 DEF RequestBodyCutOff, ServerTypeOK, NotSent
    <2> QED  BY <2>1, ReadingKeepsAnswer
  <1>6. CASE HandleRequest
    <2>1. /\ server.pc = "handle" /\ UNCHANGED <<decoderVars, clientVars, feederVars, broken>>
          /\ \/ server' = [server EXCEPT !.pc = "write"] /\ answer' \in AnswersTo(heard')
             \/ server' = [server EXCEPT !.pc = "close"] /\ UNCHANGED answer
      BY <1>6 DEF HandleRequest
    <2>2. CASE server' = [server EXCEPT !.pc = "write"] /\ answer' \in AnswersTo(heard')
      BY <2>1, <2>2, HandlingKeepsAnswer
    <2>3. CASE server' = [server EXCEPT !.pc = "close"] /\ UNCHANGED answer
      <3>1. server'.pc = "close"
        BY <1>1, <2>3 DEF ServerTypeOK
      <3> QED  BY <2>1, <2>3, <3>1, ReadingKeepsAnswer
    <2> QED  BY <2>1, <2>2, <2>3
  <1>7. CASE WriteAnswer
    BY <1>7, WritingKeepsAnswer
  <1>8. CASE CloseSocket
    BY <1>8, ClosingKeepsAnswer
  <1> QED  BY <1>2, <1>3, <1>4, <1>5, <1>6, <1>7, <1>8 DEF ServerStep

LEMMA BeginningContinues ==
  ASSUME NEW s \in Seq(Byte), NEW t \in Seq(Byte), NEW w, Len(w) \in Nat, NEW p \in Nat, Continues(s \o t, w, p)
  PROVE  Continues(s \o <<>>, w, p)
  <1> DEFINE u == s \o t
  <1>1. IsConcat(u, s, t) /\ s \o <<>> = s /\ Len(s) \in Nat /\ Len(t) \in Nat
    BY ConcatElements
  <1>2. p + Len(u) <= Len(w) /\ \A i \in 1 .. Len(u) : u[i] = w[p + i]
    BY DEF Continues
  <1> HIDE DEF u
  <1>3. Len(u) = Len(s) + Len(t) /\ \A i \in 1 .. Len(s) : u[i] = s[i]
    BY <1>1 DEF IsConcat
  <1>4. \A i \in 1 .. Len(s) : i \in 1 .. Len(u)
    BY <1>1, <1>3
  <1>5. Continues(s, w, p)
    BY <1>1, <1>2, <1>3, <1>4 DEF Continues
  <1> QED  BY <1>1, <1>5

\* A piece of the answer arrives, or the connection breaks.
LEMMA NetworkStepKeepsAnswer ==
  ASSUME ExchangeInv, AnswerInv, AnswerArrives \/ ConnectionBreaks
  PROVE  AnswerInv'
  <1>1. /\ UNCHANGED <<decoderVars, responseVars, feederVars, server, answer>>
        /\ UNCHANGED <<reading, header, status, body, holes, split, phase, response,
                    buffer, stream, decoding, varint, iter, message>>
    BY DEF AnswerArrives, Arrive, ConnectionBreaks, responseVars, decoderVars, feederVars, exchangeVars
  <1>2. ClientTypeOK /\ ServerTypeOK /\ Connection /\ AreRendered(answer)
    BY DEF ExchangeInv, AnswerInv
  <1>3. /\ received \in Seq(Byte) /\ incoming \in Seq(Byte) /\ answer \in Seq(WireFields)
        /\ (Answered <=> Answered') /\ Written' = Written
    BY <1>1, <1>2 DEF ClientTypeOK, ServerTypeOK, Answered, Written, Byte
  <1>4. CASE AnswerArrives
    <2>1. PICK n \in 1 .. Len(incoming) :
            /\ received' = received \o SubSeq(incoming, 1, n)
            /\ incoming' = SubSeq(incoming, n + 1, Len(incoming))
      BY <1>4 DEF AnswerArrives, Arrive
    <2>2. open /\ UNCHANGED <<open, outgoing, broken>>
      BY <1>4 DEF AnswerArrives, Arrive, exchangeVars
    <2>3. received' \o incoming' = received \o incoming
      BY <1>3, <2>1, PieceMoves
    <2>4. incoming # <<>>
      BY <1>3, <2>1
    <2>5. phase = "response" /\ Answered
      BY <1>2, <2>4 DEF Connection
    <2>6. ASSUME NEW p \in Nat, IsLeft(p)
          PROVE  IsLeft(p)'
      BY <1>1, <1>3, <2>2, <2>3, <2>6 DEF IsLeft
    <2>7. FeederWaits
      BY <1>1, <1>3, <2>2, <2>6 DEF FeederWaits, feederVars
    <2>8. Connection'
      BY <1>1, <1>2, <1>3, <2>2, <2>5 DEF Connection
    <2>9. Response'
      BY <1>1, <2>5 DEF Response
    <2> QED  BY <1>1, <1>2, <2>7, <2>8, <2>9, FeederWaitsKeepsAnswer
  <1>5. CASE ConnectionBreaks
    <2>1. open /\ ~open' /\ broken' /\ incoming' = <<>> /\ outgoing' = NoRequest /\ received' = received
      BY <1>5 DEF ConnectionBreaks
    <2>2. ASSUME NEW p \in Nat, IsLeft(p)
          PROVE  IsLeft(p)'
      <3>1. Continues(received \o incoming, Written, p) /\ (p > 0 => Answered)
        BY <2>2 DEF IsLeft
      <3>2. Len(Written) \in Nat
        BY <1>3, WrittenType, LenProperties
      <3> HIDE DEF Written
      <3>3. Continues(received \o <<>>, Written, p)
        BY <1>3, <3>1, <3>2, BeginningContinues
      <3> QED  BY <1>3, <2>1, <3>1, <3>3 DEF IsLeft
    <2>3. FeederWaits
      BY <1>1, <1>3, <2>1, <2>2 DEF FeederWaits, feederVars
    <2>4. Connection'
      BY <1>1, <1>2, <1>3, <2>1 DEF Connection
    <2>5. Response'
      BY <1>1, <2>1 DEF Response
    <2> QED  BY <1>1, <1>2, <2>3, <2>4, <2>5, FeederWaitsKeepsAnswer
  <1> QED  BY <1>4, <1>5

-----------------------------------------------------------------------------
(* Steps of the feeder.                                                    *)

LEMMA BeginningOfTheResponse ==
  ASSUME ExchangeInv, AnswerInv, SendRequest
  PROVE  AnswerInv'
  <1>1. /\ phase = "send" /\ phase' = "response"
        /\ reading' = "header" /\ header' = HeaderAtStart /\ body' = NewList(0)
        /\ UNCHANGED <<incoming, received, status, holes, split, decoding, varint,
                       open, server, answer, broken>>
    BY DEF SendRequest, BeginResponse, decoderVars
  <1>2. /\ received = <<>> /\ incoming = <<>> /\ answer = <<>> /\ ~split /\ holes = 0
        /\ decoding = "idle" /\ varint = NoVarint /\ (open \/ broken \/ server.pc = "closed")
        /\ AreRendered(answer)
    BY <1>1 DEF AnswerInv, Connection
  <1>3. IsLeft(0)'
    <2>1. answer' \in Seq(WireFields)
      BY <1>1, <1>2 DEF AreRendered
    <2>2. Continues(received \o incoming, Written, 0)'
      BY <1>1, <1>2, <2>1, NothingIsLeft DEF Written
    <2> QED  BY <1>1, <1>2, <2>2 DEF IsLeft
  <1>4. header' = HeaderAfter(0) /\ body'.data = <<>>
    BY <1>1, HeaderTable DEF NewList
  <1>5. HeaderTaken'
    <2>1. 0 \in {0, 1} \cup 5 .. 15
      OBVIOUS
    <2> QED  BY <1>1, <1>2, <1>3, <1>4, <2>1 DEF HeaderTaken
  <1>6. Connection'
    BY <1>1, <1>2 DEF Connection, Answered
  <1> QED  BY <1>1, <1>2, <1>5, <1>6 DEF AnswerInv, BodyTaken, ResponseTakenInv, Decoding, Response

LEMMA BeginningOfTheDecoding ==
  ASSUME ExchangeInv, AnswerInv, ResponseTaken
  PROVE  AnswerInv'
  <1>1. /\ phase = "response" /\ reading = "done" /\ status = "OK" /\ phase' = "decode"
        /\ open' = FALSE /\ incoming' = <<>> /\ received' = <<>>
        /\ buffer' = body.data /\ stream' = StreamOf(body.data) /\ decoding' = "tag"
        /\ message' = DefaultMessage
        /\ UNCHANGED <<varint, iter, reading, status, body, holes, split, server, answer, broken>>
    BY DEF ResponseTaken, CloseConnection, BeginDecode, responseVars
  <1>2. /\ IsTaken(body.data) /\ varint = NoVarint /\ AreRendered(answer)
        /\ Connection
    BY <1>1 DEF AnswerInv, Connection, ResponseTakenInv
  <1>3. IsTaken(buffer)'
    BY <1>1, <1>2 DEF IsTaken, Answered
  <1>4. IsDecoded'
    <2>1. /\ Start(0) = 0 /\ Meaning(Upto(0)) = DefaultMessage /\ Len(answer) \in Nat
      BY <1>2, WholeAnswer
    <2>2. stream'.state = 0
      BY <1>1 DEF StreamOf
    <2>3. BetweenFields(0)'
      BY <1>1, <1>2, <2>1, <2>2 DEF BetweenFields, Start, Upto
    <2>4. 0 \in 0 .. Len(answer')
      BY <1>1, <2>1
    <2> QED  BY <2>3, <2>4 DEF IsDecoded
  <1>5. Connection'
    BY <1>1, <1>2 DEF Connection, Answered
  <1> QED  BY <1>1, <1>2, <1>3, <1>4, <1>5
           DEF AnswerInv, HeaderTaken, BodyTaken, ResponseTakenInv, Decoding, Response

LEMMA EndOfTheDecoding ==
  ASSUME ExchangeInv, AnswerInv, Decoded
  PROVE  AnswerInv'
  <1>1. /\ phase = "decode" /\ phase' = "done" /\ decoding \in {"ok", "failed"}
        /\ response' = (IF decoding = "ok" THEN message ELSE DefaultMessage)
        /\ UNCHANGED <<open, incoming, received, holes, split, server, answer, broken>>
    BY DEF Decoded, clientVars, tcpVars, responseVars
  <1>2. IsTaken(buffer) /\ (holes = 0 => IsDecoded) /\ Connection /\ AreRendered(answer)
    BY <1>1 DEF AnswerInv, Decoding
  <1>3. ASSUME answer # <<>>, ~broken, ~split, holes = 0
        PROVE  response' = Meaning(answer)
    <2>1. buffer = Encoded(answer) /\ IsDecoded
      BY <1>2, <1>3 DEF IsTaken
    <2>2. ~ \E k \in 0 .. Len(answer) : BetweenFields(k)
      BY <1>1 DEF BetweenFields
    <2>3. ~ \E k \in 0 .. (Len(answer) - 1) : \E j \in Nat : WithinField(k, j)
      <3> SUFFICES ASSUME NEW k \in 0 .. (Len(answer) - 1), NEW j \in Nat, WithinField(k, j)
                   PROVE  FALSE
        OBVIOUS
      <3>1. PICK i \in 1..4, n \in Uint64 : NextField(k, i, n)
        BY <1>2, NextFieldOfAnswer
      <3>2. decoding = Fields[i].ltype
        BY <3>1 DEF WithinField, NextField
      <3> QED  BY <1>1, <3>2, FieldsType
    <2>4. decoding = "ok" /\ message = Meaning(answer)
      BY <2>1, <2>2, <2>3 DEF IsDecoded
    <2> QED  BY <1>1, <2>4
  <1>4. Response'
    <2>1. Answered'
      BY <1>1, <1>2 DEF IsTaken, Answered
    <2> QED  BY <1>1, <1>3, <2>1 DEF Response
  <1>5. Connection'
    BY <1>1, <1>2 DEF Connection, Answered
  <1> QED  BY <1>1, <1>2, <1>4, <1>5 DEF AnswerInv, HeaderTaken, BodyTaken, ResponseTakenInv, Decoding

\* sendRequest() up to where it sends, and where it gives up.
LEMMA OtherFeederSteps ==
  ASSUME ExchangeInv, AnswerInv,
         Connect \/ ConnectFails \/ EncodeByte \/ EncodeFails \/ Encode \/ ResponseRefused
  PROVE  AnswerInv'
  <1>1. AreRendered(answer) /\ Connection /\ Delivery /\ answer' = answer /\ AreRendered(answer')
    <2>1. answer' = answer
      BY DEF Connect, ConnectFails, EncodeByte, EncodeFails, RunOutOfMemory, Encode, ResponseRefused
    <2> QED  BY <2>1 DEF AnswerInv, ExchangeInv
  <1>2. CASE Connect
    <2>1. /\ phase = "connect" /\ phase' = "encode" /\ open' = TRUE /\ server'.pc = "header"
          /\ UNCHANGED <<incoming, received, reading, split, holes, decoding, varint, answer>>
      BY <1>2 DEF Connect, OpenConnection, decoderVars, responseVars, ExchangeInv, ServerTypeOK
    <2>2. Connection'
      BY <1>1, <2>1 DEF Connection
    <2> QED  BY <1>1, <2>1, <2>2
             DEF AnswerInv, HeaderTaken, BodyTaken, ResponseTakenInv, Decoding, Response
  <1>3. CASE EncodeByte \/ Encode
    <2>1. /\ phase = "encode" /\ phase' \in {"encode", "send"}
          /\ UNCHANGED <<open, incoming, received, reading, split, holes, decoding, varint, server, broken>>
      BY <1>3 DEF EncodeByte, Encode, clientVars, tcpVars, decoderVars, responseVars
    <2>2. Connection'
      BY <1>1, <2>1 DEF Connection, Answered
    <2> QED  BY <1>1, <2>1, <2>2
             DEF AnswerInv, HeaderTaken, BodyTaken, ResponseTakenInv, Decoding, Response
  <1>4. CASE ConnectFails \/ EncodeFails \/ ResponseRefused
    <2>1. /\ phase' = "done" /\ open' = FALSE /\ incoming' = <<>> /\ received' = <<>>
          /\ UNCHANGED <<split, holes, server, outgoing, broken>>
      BY <1>4 DEF ConnectFails, EncodeFails, RunOutOfMemory, ResponseRefused, GiveUp, CloseConnection, responseVars
    <2>2. Connection'
      BY <1>1, <2>1 DEF Connection, Answered
    <2>3. Response'
      <3>1. CASE ConnectFails \/ EncodeFails
        <4>1. phase \in {"connect", "encode"}
          BY <3>1 DEF ConnectFails, EncodeFails, RunOutOfMemory
        <4>2. answer = <<>> /\ (Answered \/ NotSent)
          BY <1>1, <4>1 DEF Connection, Delivery, Answered, NotSent
        <4> QED  BY <1>1, <2>1, <4>2 DEF Response, Answered, NotSent
      <3>2. CASE ResponseRefused
        <4>1. split \/ broken \/ (Answered /\ answer = <<>>)
          BY <3>2 DEF ResponseRefused, AnswerInv, ResponseTakenInv
        <4> QED  BY <1>1, <2>1, <4>1 DEF Response, Answered
      <3> QED  BY <1>4, <3>1, <3>2
    <2> QED  BY <1>1, <2>1, <2>2, <2>3 DEF AnswerInv, HeaderTaken, BodyTaken, ResponseTakenInv, Decoding
  <1> QED  BY <1>2, <1>3, <1>4

\* A step of the client moves nothing but the client.
LEMMA ReadResponseFacts ==
  ASSUME ExchangeInv, AnswerInv, ReadResponse
  PROVE  /\ phase = "response" /\ phase' = "response"
         /\ UNCHANGED <<buffer, stream, decoding, varint, iter, message, open, incoming,
                        server, outgoing, answer, broken, response>>
         /\ ClientTypeOK /\ Connection /\ AreRendered(answer) /\ answer \in Seq(WireFields)
         /\ received # <<>> => Answered
  <1>1. /\ phase = "response" /\ ClientStep /\ UNCHANGED <<decoderVars, exchangeVars>>
    BY DEF ReadResponse
  <1>2. UNCHANGED <<open, incoming>>
    BY <1>1 DEF ClientStep, ReadHeader, HeaderCutOff, ReadBodyByte, LoseBodyByte, BodyEnds, tcpVars
  <1> QED  BY <1>1, <1>2 DEF decoderVars, exchangeVars, ExchangeInv, ServerTypeOK, AnswerInv, Connection

\* What is left to show of a step of the client that takes bytes, or ends.
LEMMA ClientGoesOn ==
  ASSUME ExchangeInv, AnswerInv, ReadResponse,
         received = <<>> => received' = <<>>,
         reading' \in {"header", "body", "done"},
         HeaderTaken', BodyTaken', ResponseTakenInv'
  PROVE  AnswerInv'
  <1>1. /\ phase = "response" /\ phase' = "response"
        /\ UNCHANGED <<buffer, stream, decoding, varint, iter, message, open, incoming,
                        server, outgoing, answer, broken, response>>
        /\ Connection /\ AreRendered(answer)
    BY ReadResponseFacts
  <1>2. Connection'
    BY <1>1 DEF Connection, Answered
  <1> QED  BY <1>1, <1>2 DEF AnswerInv, Decoding, Response

\* A character of the header is the next one of the answer's header.
LEMMA HeaderByteIsTaken ==
  ASSUME ExchangeInv, AnswerInv, ReadResponse, received # <<>>, ~split, NEW p \in 0 .. 15, IsLeft(p)
  PROVE  /\ Head(received) = AnswerHeader[p + 1]
         /\ received' = Tail(received) => IsLeft(p + 1)'
  <1>1. /\ UNCHANGED <<incoming, server, answer, broken>>
        /\ ClientTypeOK /\ answer \in Seq(WireFields) /\ Answered
    BY ReadResponseFacts
  <1>2. /\ 1 \in 1 .. Len(received) /\ Head(received) = received[1]
        /\ Tail(received) = SubSeq(received, 1 + 1, Len(received))
    BY <1>1, FirstByte DEF ClientTypeOK
  <1>3. p \in Nat /\ p + 1 \in 1 .. 16
    OBVIOUS
  <1>4. Written[p + 1] = AnswerHeader[p + 1]
    BY <1>1, <1>3, WrittenType
  <1>5. received[1] = Written[p + 1]
    <2>1. IsTakenFromFront(received, SubSeq(received, 1 + 1, Len(received)), incoming, Written, p, 1)
      <3>1. /\ received \in Seq(Byte) /\ incoming \in Seq(Byte) /\ Written \in Seq(Byte)
            /\ 1 \in 0 .. Len(received) /\ Continues(received \o incoming, Written, p)
        BY <1>1, <1>2, WrittenType DEF ClientTypeOK, Byte, IsLeft
      <3> QED  BY <1>3, <3>1, TakenFromFront
    <2>2. 1 \in 1 .. 1
      OBVIOUS
    <2> QED  BY <2>1, <2>2 DEF IsTakenFromFront
  <1>6. ASSUME received' = Tail(received)
        PROVE  IsLeft(p + 1)'
    BY <1>1, <1>2, <1>3, <1>6, BytesAreTaken
  <1> QED  BY <1>2, <1>4, <1>5, <1>6

\* The three digits of the code, and the space before them.
LEMMA CodeIsTaken ==
  ASSUME ExchangeInv, AnswerInv, ReadResponse, ReadStatusCode, received # <<>>, ~split,
         header = HeaderAfter(1), IsLeft(1)
  PROVE  IF split' THEN header'.section > 0 /\ header'.statusCode[3] = 78
         ELSE header' = HeaderAfter(5) /\ IsLeft(5)'
  <1> DEFINE there == Tail(received)
             count == IF Len(there) < 3 THEN Len(there) ELSE 3
             code == [i \in 1..3 |-> IF i <= count THEN there[i] ELSE header.statusCode[i]]
  <1>1. /\ UNCHANGED <<incoming, server, answer, broken>>
        /\ ClientTypeOK /\ answer \in Seq(WireFields) /\ Answered
    BY ReadResponseFacts
  <1>2. /\ received \in Seq(Byte) /\ there \in Seq(Byte) /\ Len(there) = Len(received) - 1
        /\ Len(received) \in Nat /\ Len(there) \in Nat
        /\ \A i \in 1 .. Len(there) : there[i] = received[1 + i]
    <2>1. received \in Seq(Byte)
      BY <1>1 DEF ClientTypeOK, Byte
    <2> QED  BY <2>1
  <1>3. /\ header' = CodeTaken(header, code)
        /\ received' = SubSeq(there, count + 1, Len(there))
    BY DEF ReadStatusCode, CodeTaken
  <1>30. /\ count < 3 => split'
         /\ ~(count < 3) => ~split'
    <2>1. split' = (count < 3)
      BY DEF ReadStatusCode
    <2> HIDE DEF count
    <2> QED  BY <2>1
  <1>31. 3 <= Len(received) - 1 => SubSeq(there, 4, Len(there)) = SubSeq(received, 4 + 1, Len(received))
    <2>1. 3 <= Len(received) - 1 =>
            SubSeq(Tail(received), 4, Len(received) - 1) = SubSeq(received, 4 + 1, Len(received))
      BY <1>2
    <2> QED  BY <1>2, <2>1
  <1> HIDE DEF there
  <1>4. header.statusCode = <<78, 78, 78>>
    BY LineRowTaken DEF HeaderAfter
  <1>5. CASE Len(there) < 3
    <2>1. split' /\ ~(3 <= count)
      <3>1. count = Len(there)
        BY <1>5
      <3> HIDE DEF count
      <3> QED  BY <1>2, <1>30, <1>5, <3>1
    <2>2. header' = HeaderRow(0, 1, code, 0)
      BY <1>3, RowsTaken DEF HeaderAfter
    <2>3. header'.section = 1 /\ header'.statusCode = code
      <3> HIDE DEF code
      <3> QED  BY <2>2 DEF HeaderRow
    <2>4. code[3] = 78
      BY <1>4, <2>1
    <2> QED  BY <2>1, <2>3, <2>4
  <1>6. CASE ~(Len(there) < 3)
    <2>1. count = 3 /\ ~split' /\ 4 \in 1 .. Len(received) /\ 4 \in 0 .. Len(received)
      <3>1. count = 3
        BY <1>6
      <3> HIDE DEF count
      <3>2. ~split'
        BY <1>30, <3>1
      <3>3. Len(received) >= 4
        BY <1>2, <1>6
      <3> QED  BY <1>2, <3>1, <3>2, <3>3
    <2>2. received' = SubSeq(received, 4 + 1, Len(received))
      <3>1. received' = SubSeq(there, 4, Len(there))
        <4> HIDE DEF count, code
        <4>1. count + 1 = 4
          BY <2>1
        <4> QED  BY <1>3, <4>1, Zenon
      <3> QED  BY <1>2, <1>31, <1>6, <3>1
    <2>3. IsLeft(1 + 4)' /\ \A i \in 1 .. 4 : received[i] = Written[1 + i]
      BY <1>1, <2>1, <2>2, BytesAreTaken
    <2>4. there[1] = Written[3] /\ there[2] = Written[4] /\ there[3] = Written[5]
      <3>1. there[1] = received[1 + 1] /\ there[2] = received[1 + 2] /\ there[3] = received[1 + 3]
        <4>1. 1 \in 1 .. Len(there) /\ 2 \in 1 .. Len(there) /\ 3 \in 1 .. Len(there)
          BY <1>2, <1>6
        <4> QED  BY <1>2, <4>1
      <3>2. received[2] = Written[1 + 2] /\ received[3] = Written[1 + 3] /\ received[4] = Written[1 + 4]
        <4>1. 2 \in 1 .. 4 /\ 3 \in 1 .. 4 /\ 4 \in 1 .. 4
          OBVIOUS
        <4>2. received[2] = Written[1 + 2] /\ received[3] = Written[1 + 3] /\ received[4] = Written[1 + 4]
          BY <2>3, <4>1
        <4> QED  BY <4>2
      <3>3. 1 + 1 = 2 /\ 1 + 2 = 3 /\ 1 + 3 = 4 /\ 1 + 4 = 5
        OBVIOUS
      <3> QED  BY <3>1, <3>2, <3>3
    <2>5. Written[3] = 50 /\ Written[4] = 48 /\ Written[5] = 48
      <3>1. \A i \in 1 .. 16 : Written[i] = AnswerHeader[i]
        BY <1>1, WrittenType
      <3>2. Written[3] = AnswerHeader[3] /\ Written[4] = AnswerHeader[4] /\ Written[5] = AnswerHeader[5]
        BY <3>1
      <3> QED  BY <3>2, AnswerHeaderBytes DEF HeaderBytes
    <2>6. code = Codes["OK"]
      <3>1. code = [i \in 1..3 |-> there[i]]
        BY <2>1
      <3>2. [i \in 1..3 |-> there[i]] = <<50, 48, 48>>
        <4>1. there[1] = 50 /\ there[2] = 48 /\ there[3] = 48
          BY <2>4, <2>5
        <4> QED  BY <4>1
      <3> QED  BY <3>1, <3>2 DEF Codes
    <2>7. header' = HeaderAfter(5)
      BY <1>3, <2>6, HeaderTable
    <2> QED  BY <2>1, <2>3, <2>7
  <1> QED  BY <1>5, <1>6

LEMMA ReadHeaderKeepsAnswer ==
  ASSUME ExchangeInv, AnswerInv, ReadResponse, ReadHeader
  PROVE  AnswerInv'
  <1>1. /\ phase = "response" /\ phase' = "response"
        /\ ClientTypeOK /\ (received # <<>> => Answered)
        /\ UNCHANGED <<server, answer, broken>>
    BY ReadResponseFacts
  <1>2. /\ reading = "header" /\ received # <<>> /\ UNCHANGED <<body, holes>>
        /\ ReadLineEnd \/ ReadHeaderEnd \/ ReadStatusCode \/ ReadText
    BY DEF ReadHeader
  <1>3. /\ holes = 0 /\ body.data = <<>>
        /\ IF split THEN header.section > 0 /\ header.statusCode[3] = 78
           ELSE \E p \in {0, 1} \cup 5 .. 15 : header = HeaderAfter(p) /\ IsLeft(p)
    BY <1>1, <1>2 DEF AnswerInv, HeaderTaken
  <1>4. /\ Answered' /\ header.section \in Nat
        /\ header \in [majorSection : 0..1, section : Nat,
                 statusCode : [1..3 -> 0..255], endSequence : 0..3]
    BY <1>1, <1>2 DEF Answered, ClientTypeOK
  \* A step that reads on in the header.
  <1>5. ASSUME reading' = "header",
               IF split' THEN header'.section > 0 /\ header'.statusCode[3] = 78
               ELSE \E p \in {0, 1} \cup 5 .. 15 : header' = HeaderAfter(p) /\ IsLeft(p)'
        PROVE  AnswerInv'
    <2>1. HeaderTaken'
      BY <1>2, <1>3, <1>5 DEF HeaderTaken
    <2>2. BodyTaken' /\ ResponseTakenInv'
      BY <1>5 DEF BodyTaken, ResponseTakenInv
    <2> QED  BY <1>2, <1>5, <2>1, <2>2, ClientGoesOn
  \* The step that ends it.
  <1>6. ASSUME reading' = "done", status' # "OK", split'
        PROVE  AnswerInv'
    <2>1. HeaderTaken' /\ BodyTaken' /\ ResponseTakenInv'
      BY <1>6 DEF HeaderTaken, BodyTaken, ResponseTakenInv
    <2> QED  BY <1>2, <1>6, <2>1, ClientGoesOn
  <1>7. CASE split
    <2>1. header.section > 0 /\ header.statusCode[3] = 78
      BY <1>3, <1>7
    <2>2. ~ReadStatusCode
      <3>1. ReadStatusCode => header.section = 0
        BY DEF ReadStatusCode
      <3> QED  BY <2>1, <3>1
    <2>3. CASE ReadHeaderEnd
      <3>1. header.statusCode # Codes["OK"]
        BY <2>1 DEF Codes
      <3>2. status' # "OK" /\ reading' = "done" /\ split' = split
        BY <2>3, <3>1, OnlyOKIsOK DEF ReadHeaderEnd
      <3> QED  BY <1>6, <1>7, <3>2
    <2>4. CASE ReadLineEnd \/ ReadText
      <3>1. reading' = "header" /\ split' = split
        BY <1>2, <2>4 DEF ReadLineEnd, ReadText
      <3>2. header'.statusCode = header.statusCode /\ header'.section \in {header.section, header.section + 1}
        <4>1. CASE ReadLineEnd
          <5>1. PICK ends : header' = [header EXCEPT !.endSequence = ends, !.majorSection = 1, !.section = @ + 1]
            BY <4>1 DEF ReadLineEnd
          <5> QED  BY <1>4, <5>1
        <4>2. CASE ReadText
          <5>1. PICK ends, counts :
                  header' = [header EXCEPT !.endSequence = ends, !.section = IF counts THEN @ + 1 ELSE @]
            BY <4>2 DEF ReadText
          <5> QED  BY <1>4, <5>1
        <4> QED  BY <2>4, <4>1, <4>2
      <3>3. header'.section > 0
        BY <1>4, <2>1, <3>2
      <3> QED  BY <1>5, <1>7, <2>1, <3>1, <3>2, <3>3
    <2> QED  BY <1>2, <2>2, <2>3, <2>4
  <1>8. CASE ~split
    <2>1. PICK p \in {0, 1} \cup 5 .. 15 : header = HeaderAfter(p) /\ IsLeft(p)
      BY <1>3, <1>8
    <2>2. p \in 0 .. 15 /\ p + 1 \in Nat
      OBVIOUS
    <2>3. Head(received) = AnswerHeader[p + 1] /\ (received' = Tail(received) => IsLeft(p + 1)')
      BY <1>2, <1>8, <2>1, <2>2, HeaderByteIsTaken
    <2>4. CASE p = 1
      <3>1. /\ EndSequence(header.endSequence, Head(received)) = 0 /\ Head(received) = SP
            /\ InStatusLine(header) /\ header.section = 0
        <4>1. AnswerHeader[p + 1] = AnswerHeader[2]
          BY <2>4
        <4>2. InStatusLine(HeaderAfter(1)) /\ HeaderAfter(1).section = 0
          BY LineRowTaken DEF HeaderAfter
        <4> QED  BY <2>1, <2>3, <2>4, <4>1, <4>2, HeaderTable
      <3>2. ReadStatusCode
        BY <1>2, <3>1 DEF ReadLineEnd, ReadHeaderEnd, ReadText
      <3>3. IF split' THEN header'.section > 0 /\ header'.statusCode[3] = 78
            ELSE header' = HeaderAfter(5) /\ IsLeft(5)'
        BY <1>2, <1>8, <2>1, <2>4, <3>2, CodeIsTaken
      <3>4. reading' = "header" /\ 5 \in {0, 1} \cup 5 .. 15
        BY <1>2, <3>2 DEF ReadStatusCode
      <3> QED  BY <1>5, <3>3, <3>4
    <2>5. CASE p \in {8, 13}
      <3>1. EndSequence(header.endSequence, Head(received)) = 2 /\ Head(received) # SP
            /\ HeaderAfter(p + 1) = LineEndTaken(header)
        BY <2>1, <2>3, <2>5, HeaderTable
      <3>2. ReadLineEnd
        <4>1. ~ReadHeaderEnd
          BY <3>1 DEF ReadHeaderEnd
        <4>2. ~ReadStatusCode
          BY <3>1 DEF ReadStatusCode
        <4>3. ~ReadText
          BY <3>1 DEF ReadText
        <4> QED  BY <1>2, <4>1, <4>2, <4>3
      <3>3. header' = HeaderAfter(p + 1) /\ received' = Tail(received) /\ UNCHANGED <<reading, split>>
        BY <3>1, <3>2 DEF ReadLineEnd, LineEndTaken
      <3>4. p + 1 \in {0, 1} \cup 5 .. 15
        BY <2>5
      <3> QED  BY <1>2, <1>5, <1>8, <2>3, <3>3, <3>4
    <2>6. CASE p = 15
      <3>1. EndSequence(header.endSequence, Head(received)) = 4 /\ Head(received) # SP
        <4>1. AnswerHeader[p + 1] = AnswerHeader[16]
          BY <2>6
        <4> QED  BY <2>1, <2>3, <2>6, <4>1, HeaderTable
      <3>2. ReadHeaderEnd
        <4>1. ~ReadLineEnd
          BY <3>1 DEF ReadLineEnd
        <4>2. ~ReadStatusCode
          BY <3>1 DEF ReadStatusCode
        <4>3. ~ReadText
          BY <3>1 DEF ReadText
        <4> QED  BY <1>2, <4>1, <4>2, <4>3
      <3>3. header.statusCode = Codes["OK"]
        BY <2>1, <2>6, LineRowTaken DEF HeaderAfter
      <3>4. status' = "OK" /\ reading' = "body" /\ received' = Tail(received) /\ UNCHANGED split
        BY <3>2, <3>3, OnlyOKIsOK DEF ReadHeaderEnd
      <3>5. IsLeft(16)'
        <4>1. p + 1 = 16
          BY <2>6
        <4> QED  BY <2>3, <3>4, <4>1
      <3>6. IsBeginningOf(body.data, Encoded(answer))'
        <4>1. Encoded(answer) \in Seq(Byte) /\ Len(Encoded(answer)) \in Nat
          BY EncodedType, LenProperties DEF ExchangeInv, ServerTypeOK
        <4>2. body'.data = <<>> /\ Encoded(answer)' = Encoded(answer)
          BY <1>1, <1>2, <1>3
        <4> QED  BY <4>1, <4>2 DEF IsBeginningOf
      <3>7. IsLeft(16 + Len(body.data))'
        <4>1. (16 + Len(body.data))' = 16
          BY <1>2, <1>3
        <4> QED  BY <3>5, <4>1 DEF IsLeft
      <3>8. BodyTaken' /\ HeaderTaken' /\ ResponseTakenInv'
        BY <1>4, <1>8, <3>4, <3>6, <3>7 DEF BodyTaken, HeaderTaken, ResponseTakenInv
      <3> QED  BY <1>2, <3>4, <3>8, ClientGoesOn
    <2>7. CASE p \in HeaderSteps \ {8, 13}
      <3>1. /\ EndSequence(header.endSequence, Head(received)) \notin {2, 4}
            /\ ~(Head(received) = SP /\ InStatusLine(header) /\ header.section = 0)
            /\ HeaderAfter(p + 1) = TextTaken(header, Head(received))
        BY <2>1, <2>3, <2>7, HeaderTable
      <3>2. ReadText
        BY <1>2, <3>1 DEF ReadLineEnd, ReadHeaderEnd, ReadStatusCode
      <3>3. header' = HeaderAfter(p + 1) /\ received' = Tail(received) /\ UNCHANGED <<reading, split>>
        BY <3>1, <3>2 DEF ReadText, TextTaken
      <3>4. p + 1 \in {0, 1} \cup 5 .. 15
        BY <2>7 DEF HeaderSteps
      <3> QED  BY <1>2, <1>5, <1>8, <2>3, <3>3, <3>4
    <2>8. p = 1 \/ p \in {8, 13} \/ p = 15 \/ p \in HeaderSteps \ {8, 13}
      BY DEF HeaderSteps
    <2> QED  BY <2>4, <2>5, <2>6, <2>7, <2>8
  <1> QED  BY <1>7, <1>8

\* When nothing is left of a connection that did not break, all was taken.
LEMMA NothingMoreComes ==
  ASSUME ExchangeInv, AnswerInv, phase = "response", ~Connected, ~broken
  PROVE  /\ Answered
         /\ \A p \in Nat : IsLeft(p) /\ answer # <<>> => p = Len(Written)
  <1>1. received = <<>> /\ incoming = <<>> /\ server.pc = "closed"
    BY DEF Connected, AnswerInv, Connection
  <1>2. received \o incoming = <<>> /\ Len(<<>>) = 0
    BY <1>1
  <1>3. Answered
    BY <1>1 DEF Answered
  <1>4. ASSUME NEW p \in Nat, IsLeft(p), answer # <<>>
        PROVE  p = Len(Written)
    <2>1. p + 0 = Len(Written)
      BY <1>2, <1>3, <1>4 DEF IsLeft
    <2> QED  BY <2>1
  <1> QED  BY <1>3, <1>4

\* A header that ends before its status line does is a broken answer.
LEMMA HeaderEndsEarly ==
  ASSUME ExchangeInv, AnswerInv, ReadResponse, HeaderCutOff
  PROVE  AnswerInv'
  <1>1. /\ phase = "response" /\ UNCHANGED <<server, answer, broken>> /\ answer \in Seq(WireFields)
    BY ReadResponseFacts
  <1>2. /\ reading = "header" /\ ~Connected /\ status' = "CLIENT_ERROR" /\ reading' = "done"
        /\ UNCHANGED <<split, received>>
    BY DEF HeaderCutOff, tcpVars
  <1>3. split \/ broken \/ (Answered /\ answer = <<>>)
    <2> SUFFICES ASSUME ~split, ~broken
                 PROVE  Answered /\ answer = <<>>
      OBVIOUS
    <2>1. Answered /\ \A p \in Nat : IsLeft(p) /\ answer # <<>> => p = Len(Written)
      BY <1>1, <1>2, NothingMoreComes
    <2>2. PICK p \in {0, 1} \cup 5 .. 15 : IsLeft(p)
      BY <1>1, <1>2 DEF AnswerInv, HeaderTaken
    <2>3. Len(Written) = 16 + Len(Encoded(answer)) /\ Len(Encoded(answer)) \in Nat
      BY <1>1, WrittenType
    <2>4. p \in Nat /\ p # Len(Written)
      BY <2>3
    <2> QED  BY <2>1, <2>2, <2>4
  <1>4. HeaderTaken' /\ BodyTaken' /\ ResponseTakenInv'
    BY <1>1, <1>2, <1>3 DEF HeaderTaken, BodyTaken, ResponseTakenInv, Answered
  <1> QED  BY <1>2, <1>4, ClientGoesOn

\* A byte of the body is the next one of the answer.
LEMMA ByteOfBodyIsTaken ==
  ASSUME ExchangeInv, AnswerInv, ReadResponse, ReadBodyByte
  PROVE  AnswerInv'
  <1>1. /\ phase = "response" /\ UNCHANGED <<incoming, server, answer, broken>>
        /\ ClientTypeOK /\ answer \in Seq(WireFields) /\ (received # <<>> => Answered)
    BY ReadResponseFacts
  <1>2. /\ reading = "body" /\ received # <<>> /\ body' = Added(body, Head(received))
        /\ received' = Tail(received) /\ UNCHANGED <<reading, status, holes, split>>
    BY DEF ReadBodyByte
  <1>3. /\ ~split /\ Answered /\ status = "OK"
        /\ holes = 0 => IsBeginningOf(body.data, Encoded(answer)) /\ IsLeft(16 + Len(body.data))
    BY <1>1, <1>2 DEF AnswerInv, BodyTaken
  <1>4. /\ received \in Seq(Byte) /\ 1 \in 1 .. Len(received) /\ Head(received) = received[1]
        /\ Head(received) \in Byte /\ received' = SubSeq(received, 1 + 1, Len(received))
    <2>1. received \in Seq(Byte)
      BY <1>1 DEF ClientTypeOK, Byte
    <2>2. /\ 1 \in 1 .. Len(received) /\ Head(received) = received[1]
          /\ Head(received) \in Byte /\ Tail(received) = SubSeq(received, 1 + 1, Len(received))
      BY <1>2, <2>1, FirstByte
    <2> QED  BY <1>2, <2>1, <2>2
  <1> DEFINE d == body.data
             E == Encoded(answer)
             c == Head(received)
  <1>5. d \in Seq(Byte) /\ Len(d) \in Nat /\ body'.data = Append(d, c)
    <2>1. body \in ArrayLists(Byte) /\ Consistent(body)
      BY <1>1 DEF ClientTypeOK, Byte
    <2>2. d \in Seq(Byte) /\ Len(d) \in Nat
      BY <2>1, LenProperties DEF ArrayLists
    <2>3. Added(body, c).data = Append(d, c)
      BY <1>4, <2>1, AddedType
    <2> QED  BY <1>2, <2>2, <2>3
  <1>6. ASSUME holes = 0
        PROVE  (IsBeginningOf(body.data, Encoded(answer)) /\ IsLeft(16 + Len(body.data)))'
    <2>1. PICK p \in Nat : p = 16 + Len(d)
      BY <1>5
    <2>2. IsLeft(p) /\ IsBeginningOf(d, E)
      BY <1>3, <1>6, <2>1
    <2>3. IsLeft(p + 1)' /\ p + 1 <= Len(Written) /\ \A i \in 1 .. 1 : received[i] = Written[p + i]
      BY <1>1, <1>2, <1>4, <2>2, BytesAreTaken
    <2>4. /\ Len(Written) = 16 + Len(E) /\ Len(E) \in Nat /\ E \in Seq(Byte)
          /\ \A i \in 1 .. Len(E) : Written[16 + i] = E[i]
      BY <1>1, WrittenType
    <2>5. 1 \in 1 .. 1 /\ p + 1 = 16 + (Len(d) + 1) /\ Len(d) + 1 \in 1 .. Len(E)
      <3> HIDE DEF d, E
      <3> QED  BY <1>5, <2>1, <2>3, <2>4
    <2>6. c = E[Len(d) + 1]
      BY <1>4, <2>3, <2>4, <2>5
    <2>7. Len(Append(d, c)) = Len(d) + 1 /\ Append(d, c)[Len(d) + 1] = c
          /\ \A i \in 1 .. Len(d) : Append(d, c)[i] = d[i]
      BY <1>4, <1>5
    <2>8. IsBeginningOf(Append(d, c), E)
      <3> HIDE DEF d, E, c
      <3>1. \A i \in 1 .. (Len(d) + 1) : i \in 1 .. Len(d) \/ i = Len(d) + 1
        BY <1>5
      <3> QED  BY <1>5, <2>2, <2>4, <2>5, <2>6, <2>7, <3>1 DEF IsBeginningOf
    <2>9. (16 + Len(body.data))' = p + 1 /\ Encoded(answer)' = E
      BY <1>1, <1>5, <2>5, <2>7
    <2>10. IsLeft(16 + Len(body.data))'
      BY <2>3, <2>9 DEF IsLeft
    <2> QED  BY <1>5, <2>8, <2>9, <2>10
  <1>7. BodyTaken'
    BY <1>1, <1>2, <1>3, <1>6 DEF BodyTaken, Answered
  <1>8. HeaderTaken' /\ ResponseTakenInv'
    BY <1>2 DEF HeaderTaken, ResponseTakenInv
  <1> QED  BY <1>2, <1>7, <1>8, ClientGoesOn

\* Without memory for it, a byte of the body is lost, and counted as a hole.
LEMMA ByteOfBodyIsLost ==
  ASSUME ExchangeInv, AnswerInv, ReadResponse, LoseBodyByte
  PROVE  AnswerInv'
  <1>1. /\ phase = "response" /\ UNCHANGED <<server, answer, broken>> /\ ClientTypeOK
    BY ReadResponseFacts
  <1>2. /\ reading = "body" /\ received # <<>> /\ holes' = holes + 1
        /\ UNCHANGED <<reading, status, split>>
    BY DEF LoseBodyByte
  <1>3. ~split /\ Answered /\ status = "OK"
    BY <1>1, <1>2 DEF AnswerInv, BodyTaken
  <1>4. holes' # 0
    BY <1>1, <1>2, ExchangeAssumption DEF ClientTypeOK
  <1>5. HeaderTaken' /\ BodyTaken' /\ ResponseTakenInv'
    BY <1>1, <1>2, <1>3, <1>4 DEF HeaderTaken, BodyTaken, ResponseTakenInv, Answered
  <1> QED  BY <1>2, <1>5, ClientGoesOn

LEMMA BodyIsTaken ==
  ASSUME ExchangeInv, AnswerInv, ReadResponse, BodyEnds
  PROVE  AnswerInv'
  <1>1. /\ phase = "response" /\ UNCHANGED <<server, answer, broken>> /\ answer \in Seq(WireFields)
        /\ ClientTypeOK
    BY ReadResponseFacts
  <1>2. /\ reading = "body" /\ ~Connected /\ reading' = "done"
        /\ UNCHANGED <<received, status, body, holes, split>>
    BY DEF BodyEnds, tcpVars
  <1>3. /\ ~split /\ Answered /\ status = "OK"
        /\ holes = 0 => IsBeginningOf(body.data, Encoded(answer)) /\ IsLeft(16 + Len(body.data))
    BY <1>1, <1>2 DEF AnswerInv, BodyTaken
  <1>4. ASSUME holes = 0, ~broken, answer # <<>>
        PROVE  body.data = Encoded(answer)
    <2>1. body.data \in Seq(Byte) /\ Len(body.data) \in Nat
      BY <1>1, LenProperties DEF ClientTypeOK, ArrayLists, Byte
    <2>2. 16 + Len(body.data) = Len(Written)
      <3>1. PICK p \in Nat : p = 16 + Len(body.data)
        BY <2>1
      <3>2. IsLeft(p)
        BY <1>3, <1>4, <3>1
      <3> QED  BY <1>1, <1>2, <1>4, <3>1, <3>2, NothingMoreComes
    <2>3. Len(Written) = 16 + Len(Encoded(answer)) /\ Encoded(answer) \in Seq(Byte) /\ Len(Encoded(answer)) \in Nat
      BY <1>1, WrittenType
    <2>4. Len(body.data) = Len(Encoded(answer))
      BY <2>1, <2>2, <2>3
    <2>5. \A i \in 1 .. Len(body.data) : body.data[i] = Encoded(answer)[i]
      BY <1>3, <1>4 DEF IsBeginningOf
    <2> QED  BY <2>1, <2>3, <2>4, <2>5, SeqEqual
  <1>5. IsTaken(body.data)'
    BY <1>1, <1>2, <1>3, <1>4 DEF IsTaken, Answered
  <1>6. HeaderTaken' /\ BodyTaken' /\ ResponseTakenInv'
    BY <1>2, <1>3, <1>5 DEF HeaderTaken, BodyTaken, ResponseTakenInv
  <1> QED  BY <1>2, <1>6, ClientGoesOn

LEMMA DecoderKeepsAnswer ==
  ASSUME ExchangeInv, AnswerInv, Decode
  PROVE  AnswerInv'
  <1>1. /\ phase = "decode" /\ DecoderStep /\ UNCHANGED buffer
        /\ UNCHANGED <<open, incoming, received, reading, header, status, body, holes, split,
                       phase, server, outgoing, answer, broken, response>>
    <2>1. phase = "decode" /\ DecoderStep /\ UNCHANGED <<clientVars, exchangeVars>>
      BY DEF Decode
    <2>2. UNCHANGED buffer
      BY <2>1 DEF DecoderStep, ReadVarint32, EndMessage, DecodeKnown, SkipUnknown, ReadUvarint, ReadBool,
                  SkipVarint, SkipString, EndOfStream, EndsVarint32
    <2> QED  BY <2>1, <2>2 DEF clientVars, tcpVars, responseVars, exchangeVars
  <1>2. IsTaken(buffer) /\ (holes = 0 => IsDecoded) /\ Connection /\ AreRendered(answer)
    BY <1>1 DEF AnswerInv, Decoding
  <1>3. ASSUME holes = 0
        PROVE  IsDecoded'
    <2>1. DecoderInv /\ IsBeginningOf(buffer, Encoded(answer)) /\ IsDecoded
      BY <1>2, <1>3 DEF ExchangeInv, IsTaken
    <2>2. ReadsAnswer
      BY <1>1, <1>2, <2>1 DEF ReadsAnswer
    <2> QED  BY <1>1, <2>1, <2>2, DecoderStepKeepsDecoded
  <1>4. IsTaken(buffer)'
    BY <1>1, <1>2 DEF IsTaken, Answered
  <1>5. Connection'
    BY <1>1, <1>2 DEF Connection, Answered
  <1> QED  BY <1>1, <1>2, <1>3, <1>4, <1>5
           DEF AnswerInv, HeaderTaken, BodyTaken, ResponseTakenInv, Decoding, Response

LEMMA FeederStepKeepsAnswer ==
  ASSUME ExchangeInv, AnswerInv, FeederStep
  PROVE  AnswerInv'
  <1>1. CASE ReadResponse
    <2>1. ReadHeader \/ HeaderCutOff \/ ReadBodyByte \/ LoseBodyByte \/ BodyEnds
      BY <1>1 DEF ReadResponse, ClientStep
    <2> QED  BY <1>1, <2>1, ReadHeaderKeepsAnswer, HeaderEndsEarly, ByteOfBodyIsTaken, ByteOfBodyIsLost,
                BodyIsTaken
  <1>2. CASE SendRequest
    BY <1>2, BeginningOfTheResponse
  <1>3. CASE ResponseTaken
    BY <1>3, BeginningOfTheDecoding
  <1>4. CASE Decode
    BY <1>4, DecoderKeepsAnswer
  <1>5. CASE Decoded
    BY <1>5, EndOfTheDecoding
  <1>6. CASE Connect \/ ConnectFails \/ EncodeByte \/ EncodeFails \/ Encode \/ ResponseRefused
    BY <1>6, OtherFeederSteps
  <1> QED  BY <1>1, <1>2, <1>3, <1>4, <1>5, <1>6 DEF FeederStep

\* Every step of the exchange keeps the answer's invariant.
LEMMA NextKeepsAnswer ==
  ASSUME AnswersAreRendered, ExchangeInv, AnswerInv, [Next]_vars
  PROVE  AnswerInv'
  <1>1. CASE FeederStep
    BY <1>1, FeederStepKeepsAnswer
  <1>2. CASE ServerStep
    BY <1>2, ServerStepKeepsAnswer
  <1>3. CASE AnswerArrives \/ ConnectionBreaks
    BY <1>3, NetworkStepKeepsAnswer
  <1>4. CASE BreakIsNoticed \/ UNCHANGED vars
    <2>1. UNCHANGED <<open, incoming, received, reading, header, status, body, holes, split,
                      buffer, stream, decoding, varint, iter, message,
                      phase, outgoing, server, answer, broken, response>>
      BY <1>4 DEF BreakIsNoticed, vars, clientVars, tcpVars, responseVars, decoderVars, exchangeVars
    <2>2. Connection' = Connection /\ Response' = Response
      BY <2>1 DEF Connection, Response, Answered, NotSent
    <2>3. HeaderTaken' = HeaderTaken /\ BodyTaken' = BodyTaken
      BY <2>1 DEF HeaderTaken, BodyTaken, IsLeft, Answered, Written
    <2>4. ResponseTakenInv' = ResponseTakenInv
      BY <2>1 DEF ResponseTakenInv, IsTaken, Answered
    <2>5. Decoding' = Decoding
      BY <2>1 DEF Decoding, IsTaken, Answered, IsDecoded, BetweenFields, WithinField, Start, Upto
    <2> QED  BY <2>1, <2>2, <2>3, <2>4, <2>5 DEF AnswerInv
  <1> QED  BY <1>1, <1>2, <1>3, <1>4 DEF Next, Through

LEMMA InitEstablishesAnswer == Init => AnswerInv
  <1> SUFFICES ASSUME Init
               PROVE  AnswerInv
    OBVIOUS
  <1>1. /\ phase = "connect" /\ answer = <<>> /\ received = <<>> /\ incoming = <<>> /\ reading = "idle"
        /\ ~split /\ holes = 0 /\ decoding = "idle" /\ varint = NoVarint
    BY DEF Init, DecoderInit, ClientInit
  <1>2. AreRendered(answer)
    BY <1>1 DEF AreRendered
  <1>3. Connection
    BY <1>1 DEF Connection
  <1> QED  BY <1>1, <1>2, <1>3 DEF AnswerInv, HeaderTaken, BodyTaken, ResponseTakenInv, Decoding, Response

\* The inductive invariant of the answer, next to the one of the exchange, for
\* any rendered answers and any charset of the server.
THEOREM AnswerInvariant ==
  ASSUME AnswersAreRendered
  PROVE  Spec => [](ExchangeInv /\ AnswerInv)
  <1>1. Init => ExchangeInv /\ AnswerInv
    BY InitEstablishesInv, InitEstablishesAnswer
  <1>2. (ExchangeInv /\ AnswerInv) /\ [Next]_vars => (ExchangeInv /\ AnswerInv)'
    BY NextKeepsInv, NextKeepsAnswer
  <1> QED  BY <1>1, <1>2, PTL DEF Spec

\* Where nothing was lost on the way (the connection did not break, the status
\* code was not cut in two by available(), and every byte of the body found
\* memory), sendRequest() returns what the server's answer means, field by field,
\* however the answer is cut into pieces and in whatever order the threads move:
\* for every width, every report, any charset of the server, and any answers whose
\* fields are numbers that their types have room for. Such are all the answers of
\* this server (ProtoBodyRenderer.java:12).
THEOREM WholeAnswerTaken ==
  ASSUME AnswersAreRendered
  PROVE  Spec => []WholeAnswerIsTaken
  <1>1. Spec => [](ExchangeInv /\ AnswerInv)
    BY AnswerInvariant
  <1>2. ExchangeInv /\ AnswerInv => WholeAnswerIsTaken
    BY DEF AnswerInv, Response, WholeAnswerIsTaken
  <1> QED  BY <1>1, <1>2, PTL

\* The default response is what no field at all says.
LEMMA NothingSaid == Meaning(<<>>) = DefaultMessage
  <1>1. AreRendered(<<>>) /\ 0 \in 0 .. Len(<<>>)
    BY DEF AreRendered
  <1>2. FirstFields(<<>>, 0) = <<>>
    BY <1>1, FirstFieldsType DEF AreRendered
  <1> QED  BY <1>1, <1>2, MeaningFieldByField

\* What sendRequest() makes of the bytes that it took, however many.
LEMMA DecodedAnswer ==
  ASSUME ExchangeInv, AnswerInv, Decoded, holes = 0
  PROVE  \/ response' = Meaning(<<>>)
         \/ answer # <<>> /\ \E n \in 0 .. Len(answer) : response' = Meaning(SubSeq(answer, 1, n))
  <1>1. /\ phase = "decode" /\ decoding \in {"ok", "failed"}
        /\ response' = (IF decoding = "ok" THEN message ELSE DefaultMessage)
    BY DEF Decoded
  <1>2. IsTaken(buffer) /\ IsDecoded /\ AreRendered(answer)
    BY <1>1 DEF AnswerInv, Decoding
  <1>3. CASE decoding = "failed"
    BY <1>1, <1>3, NothingSaid
  <1>4. CASE decoding = "ok"
    <2>1. ~ \E k \in 0 .. Len(answer) : BetweenFields(k)
      BY <1>4 DEF BetweenFields
    <2>2. ~ \E k \in 0 .. (Len(answer) - 1) : \E j \in Nat : WithinField(k, j)
      <3> SUFFICES ASSUME NEW k \in 0 .. (Len(answer) - 1), NEW j \in Nat, WithinField(k, j)
                   PROVE  FALSE
        OBVIOUS
      <3>1. PICK i \in 1..4, n \in Uint64 : NextField(k, i, n)
        BY <1>2, NextFieldOfAnswer
      <3>2. decoding = Fields[i].ltype
        BY <3>1 DEF WithinField, NextField
      <3> QED  BY <1>4, <3>2, FieldsType
    <2>3. PICK k \in 0 .. Len(answer) : message = Meaning(Upto(k))
      BY <1>2, <1>4, <2>1, <2>2 DEF IsDecoded
    <2>4. response' = Meaning(SubSeq(answer, 1, k))
      BY <1>1, <1>4, <2>3 DEF Upto, FirstFields
    <2>5. CASE answer = <<>>
      <3>1. k = 0
        BY <2>5
      <3>2. response' = DefaultMessage
        BY <1>1, <1>2, <1>4, <2>3, <3>1, WholeAnswer
      <3> QED  BY <3>2, NothingSaid
    <2> QED  BY <2>4, <2>5
  <1> QED  BY <1>1, <1>3, <1>4

\* A check-in that ends responds; a byte of the body that is lost is the
\* abstract exchange running out of memory; nothing else shows.
LEMMA FeederStepImplements ==
  ASSUME ExchangeInv, AnswerInv, FeederStep
  PROVE  [Contract!Next]_(Contract!vars)
  <1>1. UNCHANGED <<report, heard, answer>>
    BY DEF FeederStep, Connect, ConnectFails, EncodeByte, EncodeFails, RunOutOfMemory, Encode, SendRequest,
           ReadResponse, ResponseRefused, ResponseTaken, Decode, Decoded, exchangeVars
  <1>2. CASE ConnectFails \/ EncodeFails \/ ResponseRefused
    <2>1. /\ phase # "done" /\ phase' = "done" /\ response' = DefaultMessage /\ holes' = holes
      BY <1>2 DEF ConnectFails, EncodeFails, RunOutOfMemory, ResponseRefused, GiveUp, responseVars
    <2>2. Contract!Respond
      BY <1>1, <2>1, NothingSaid DEF Contract!Respond, Contract!DefaultResponse
    <2> QED  BY <2>2 DEF Contract!Next
  <1>3. CASE Decoded
    <2>1. phase # "done" /\ phase' = "done" /\ holes' = holes
      BY <1>3 DEF Decoded, clientVars, responseVars
    <2>2. Contract!Respond
      <3>1. CASE holes = 0
        <4>1. \/ response' = Meaning(<<>>)
              \/ answer # <<>> /\ \E n \in 0 .. Len(answer) : response' = Meaning(SubSeq(answer, 1, n))
          BY <1>3, <3>1, DecodedAnswer
        <4> QED  BY <1>1, <2>1, <4>1 DEF Contract!Respond, Contract!DefaultResponse, Contract!Readings
      <3>2. CASE holes # 0
        <4>1. holes > 0
          BY <3>2, ExchangeAssumption DEF ExchangeInv, ClientTypeOK
        <4> QED  BY <1>1, <2>1, <4>1 DEF Contract!Respond
      <3> QED  BY <3>1, <3>2
    <2> QED  BY <2>2 DEF Contract!Next
  <1>4. CASE Connect \/ EncodeByte \/ Encode \/ SendRequest \/ ResponseTaken \/ Decode
    <2>1. phase # "done" /\ phase' # "done" /\ holes' = holes
      BY <1>4 DEF Connect, EncodeByte, Encode, SendRequest, BeginResponse, ResponseTaken, Decode,
                  responseVars, clientVars, exchangeVars
    <2> QED  BY <1>1, <2>1 DEF Contract!vars
  <1>5. CASE ReadResponse
    <2>1. phase = "response" /\ phase' = phase /\ ClientStep
      BY <1>5 DEF ReadResponse, exchangeVars
    <2>2. CASE LoseBodyByte
      <3>1. holes' > 0
        <4>1. holes \in Nat
          BY ExchangeAssumption DEF ExchangeInv, ClientTypeOK
        <4> QED  BY <2>2, <4>1 DEF LoseBodyByte
      <3>2. Contract!RunOutOfMemory
        BY <1>1, <2>1, <3>1 DEF Contract!RunOutOfMemory
      <3> QED  BY <3>2 DEF Contract!Next
    <2>3. CASE ~LoseBodyByte
      <3>1. holes' = holes
        BY <2>1, <2>3 DEF ClientStep, ReadHeader, HeaderCutOff, ReadBodyByte, BodyEnds
      <3> QED  BY <1>1, <2>1, <3>1 DEF Contract!vars
    <2> QED  BY <2>2, <2>3
  <1> QED  BY <1>2, <1>3, <1>4, <1>5 DEF FeederStep

\* The thread hears the report where it handles it, and answers it or dies of
\* an exception; the rest of what it does, and what the network does, are
\* stutters.
LEMMA NextImplements ==
  ASSUME ServerCharset = "ISO-8859-1", ExchangeInv, HeardInv, AnswerInv, [Next]_vars
  PROVE  [Contract!Next]_(Contract!vars)
  <1>1. CASE FeederStep
    BY <1>1, FeederStepImplements
  <1>2. CASE HandleRequest /\ IsReport(RequestBody)
    <2>1. /\ server.pc = "handle"
          /\ answer' \in AnswersTo(heard') \/ UNCHANGED answer
          /\ UNCHANGED <<phase, report, response, holes>>
      BY <1>2 DEF HandleRequest, feederVars, clientVars, responseVars
    <2>2. heard' = report /\ answer = <<>>
      BY <1>2, <2>1, HandlerHearsTheReport DEF AnswerInv, Connection
    <2>3. answer' \in AnswersTo(report) \cup {<<>>}
      BY <2>1, <2>2
    <2>4. Contract!Hear
      BY <2>1, <2>2, <2>3 DEF Contract!Hear
    <2> QED  BY <2>4 DEF Contract!Next
  <1>3. CASE \/ ServerStep /\ ~(HandleRequest /\ IsReport(RequestBody))
             \/ AnswerArrives \/ ConnectionBreaks \/ BreakIsNoticed \/ UNCHANGED vars
    <2>1. UNCHANGED <<phase, report, response, holes, heard, answer>>
      BY <1>3 DEF ServerStep, ReadRequestHeader, RequestHeaderCutOff, ReadRequestBody, RequestBodyCutOff,
                  HandleRequest, WriteAnswer, CloseSocket, AnswerArrives, Arrive, ConnectionBreaks,
                  BreakIsNoticed, vars, feederVars, clientVars, responseVars, exchangeVars
    <2> QED  BY <2>1 DEF Contract!vars
  <1> QED  BY <1>1, <1>2, <1>3 DEF Next, Through

LEMMA InitImplements == Init => Contract!Init
  <1> SUFFICES ASSUME Init
               PROVE  Contract!Init
    OBVIOUS
  <1>1. heard = {} /\ answer = <<>> /\ phase = "connect" /\ holes = 0
    BY DEF Init, ClientInit
  <1> QED  BY <1>1 DEF Contract!Init

\* The exchange of bytes implements the check-in that module CatFeeder relies
\* on: the server hears the report as it was made, or nothing; the feeder goes
\* by what the server answered, by a beginning of its fields, or by nothing
\* said at all, wherever the connection breaks (HttpClient::sendRequest(),
\* http-client.cpp:36, with HttpServer.run() at the other end); only a
\* feeder that ran out of memory may go by anything else. The charset is a
\* hypothesis as in ReportArrives, the rendered answers as in WholeAnswerTaken.
THEOREM CheckInRefinement ==
  ASSUME ServerCharset = "ISO-8859-1", AnswersAreRendered
  PROVE  Spec => ImplementsCheckIn
  <1> DEFINE Inv == ExchangeInv /\ HeardInv /\ AnswerInv
  <1>1. Init => Inv
    <2>1. Init => HeardInv
      BY DEF Init, HeardInv, NoThread
    <2> QED  BY <2>1, InitEstablishesInv, InitEstablishesAnswer
  <1>2. Inv /\ [Next]_vars => Inv'
    BY NextKeepsInv, NextKeepsHeard, NextKeepsAnswer
  <1>3. Init => Contract!Init
    BY InitImplements
  <1>4. Inv /\ [Next]_vars => [Contract!Next]_(Contract!vars)
    BY NextImplements
  <1> QED  BY <1>1, <1>2, <1>3, <1>4, PTL DEF Spec, ImplementsCheckIn, Contract!Spec
================================================================================
