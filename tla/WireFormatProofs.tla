--------------------------- MODULE WireFormatProofs ---------------------------
(***************************************************************************)
(* Proofs about WireFormat, for any widths: a varint has no more bytes     *)
(* than its width needs, and stands for the number it was made from; a     *)
(* message is written field by field, and each field is a key of one byte  *)
(* and a varint.                                                           *)
(***************************************************************************)
EXTENDS WireFormat, InductionProofs, SequenceTheorems, TLAPS

-----------------------------------------------------------------------------
(* Powers of 2.                                                            *)

LEMMA Widths == Bits32 \in Nat /\ Bits64 \in Nat /\ Bits32 >= 4 /\ Bits64 >= 8 /\ Bits32 < Bits64
  <1>1. \A n \in Nat : n % 7 = 4 => n >= 4
    OBVIOUS
  <1>2. \A n \in Nat : n % 7 = 1 /\ n > 4 => n >= 8
    OBVIOUS
  <1> QED  BY <1>1, <1>2, WidthAssumption

LEMMA PowersOfTwo ==
  /\ TwoTo \in [0 .. Bits64 -> Nat \ {0}]
  /\ TwoTo[0] = 1
  /\ \A n \in 1 .. Bits64 : TwoTo[n] = 2 * TwoTo[n - 1]
  <1> DEFINE IsPowers(f) == f = [n \in 0 .. Bits64 |-> IF n = 0 THEN 1 ELSE 2 * f[n - 1]]
             Positive == Nat \ {0}
             step == [x \in (1 .. Bits64) \X Positive |-> 2 * x[2]]
  <1>1. step \in [(1 .. Bits64) \X Positive -> Positive] /\ 1 \in Positive
    OBVIOUS
  <1>2. PICK f \in [0 .. Bits64 -> Positive] :
          Counts(f, Bits64, 1, step)
    <2> HIDE DEF step, Positive
    <2>1. Bits64 \in Nat
      BY Widths
    <2> QED  BY <1>1, <2>1, CountingFunction
  <1>3. \A n \in 1 .. Bits64 : f[n] = 2 * f[n - 1]
    <2> SUFFICES ASSUME NEW n \in 1 .. Bits64
                 PROVE  f[n] = 2 * f[n - 1]
      OBVIOUS
    <2>1. n - 1 \in 0 .. Bits64
      BY Widths
    <2> QED  BY <1>2, <2>1 DEF Counts
  <1>4. IsPowers(f)
    BY <1>2, <1>3 DEF Counts
  <1>5. TwoTo = CHOOSE g : IsPowers(g)
    BY DEF TwoTo
  <1>6. IsPowers(TwoTo)
    BY <1>4, <1>5
  <1>7. \A n \in 0 .. Bits64 : TwoTo[n] = f[n]
    <2> DEFINE T == {n \in 0 .. Bits64 : TwoTo[n] = f[n]}
    <2>1. 0 \in T
      BY <1>2, <1>6, Widths DEF Counts
    <2>2. ASSUME NEW n \in 1 .. Bits64, n - 1 \in T
          PROVE  n \in T
      <3>1. n \in 0 .. Bits64 /\ n # 0
        BY Widths
      <3>2. TwoTo[n] = 2 * TwoTo[n - 1]
        BY <1>6, <3>1
      <3> QED  BY <1>3, <2>2, <3>1, <3>2
    <2>3. 0 .. Bits64 \subseteq T
      BY <2>1, <2>2, CountingInduction, Widths
    <2> QED  BY <2>3
  <1> HIDE DEF step
  <1>8. TwoTo = f
    BY <1>2, <1>6, <1>7
  <1> QED  BY <1>2, <1>3, <1>8 DEF Counts

LEMMA PowerType ==
  ASSUME NEW n \in 0 .. Bits64
  PROVE  TwoTo[n] \in Nat /\ TwoTo[n] >= 1
  BY PowersOfTwo

LEMMA NextPower ==
  ASSUME NEW n \in Nat, n < Bits64
  PROVE  TwoTo[n + 1] = 2 * TwoTo[n]
  <1>1. n + 1 \in 1 .. Bits64 /\ (n + 1) - 1 = n
    BY Widths
  <1> QED  BY <1>1, PowersOfTwo

LEMMA OneBit == TwoTo[1] = 2
  <1>1. 0 \in Nat /\ 0 < Bits64 /\ 0 + 1 = 1
    BY Widths
  <1> QED  BY <1>1, NextPower, PowersOfTwo

LEMMA SumOfPowers ==
  ASSUME NEW a \in Nat, NEW b \in Nat, a + b <= Bits64
  PROVE  TwoTo[a + b] = TwoTo[a] * TwoTo[b]
  <1> DEFINE T == {n \in Nat : a + n <= Bits64 => TwoTo[a + n] = TwoTo[a] * TwoTo[n]}
  <1>1. 0 \in T
    <2>1. a \in 0 .. Bits64 /\ a + 0 = a
      BY Widths
    <2> QED  BY <2>1, PowerType, PowersOfTwo
  <1>2. ASSUME NEW n \in Nat, n \in T
        PROVE  n + 1 \in T
    <2> SUFFICES ASSUME a + (n + 1) <= Bits64
                 PROVE  TwoTo[a + (n + 1)] = TwoTo[a] * TwoTo[n + 1]
      OBVIOUS
    <2>1. TwoTo[a + n] = TwoTo[a] * TwoTo[n]
      BY <1>2, Widths
    <2>2. a + (n + 1) = (a + n) + 1 /\ a + n \in Nat /\ a + n < Bits64 /\ n < Bits64
      BY Widths
    <2>3. TwoTo[a + (n + 1)] = 2 * TwoTo[a + n] /\ TwoTo[n + 1] = 2 * TwoTo[n]
      BY <2>2, NextPower
    <2>4. TwoTo[a] \in Nat /\ TwoTo[n] \in Nat
      BY <2>2, PowerType, Widths
    <2>5. \A x, y \in Nat : 2 * (x * y) = x * (2 * y)
      OBVIOUS
    <2> QED  BY <2>1, <2>3, <2>4, <2>5
  <1> QED  BY <1>1, <1>2, Induction

LEMMA PowersGrow ==
  ASSUME NEW a \in Nat, NEW b \in Nat, a <= b, b <= Bits64
  PROVE  TwoTo[a] <= TwoTo[b]
  <1>1. b - a \in Nat /\ a + (b - a) = b
    OBVIOUS
  <1>2. TwoTo[b] = TwoTo[a] * TwoTo[b - a]
    BY <1>1, SumOfPowers
  <1>3. TwoTo[a] \in Nat /\ TwoTo[b - a] \in Nat /\ TwoTo[b - a] >= 1
    BY <1>1, PowerType, Widths
  <1>4. \A x, y \in Nat : y >= 1 => x <= x * y
    OBVIOUS
  <1> QED  BY <1>2, <1>3, <1>4

LEMMA SevenBits ==
  /\ TwoTo[7] = 128
  /\ \A n \in Nat : n + 7 <= Bits64 => TwoTo[n + 7] = 128 * TwoTo[n]
  <1>1. \A n \in 0 .. 6 : TwoTo[n + 1] = 2 * TwoTo[n]
    BY NextPower, Widths
  <1>2. TwoTo[7] = 128
    <2>1. /\ TwoTo[0 + 1] = 2 * TwoTo[0] /\ TwoTo[1 + 1] = 2 * TwoTo[1]
          /\ TwoTo[2 + 1] = 2 * TwoTo[2] /\ TwoTo[3 + 1] = 2 * TwoTo[3]
          /\ TwoTo[4 + 1] = 2 * TwoTo[4] /\ TwoTo[5 + 1] = 2 * TwoTo[5]
          /\ TwoTo[6 + 1] = 2 * TwoTo[6]
      BY <1>1
    <2> QED  BY <2>1, PowersOfTwo
  <1>3. ASSUME NEW n \in Nat, n + 7 <= Bits64
        PROVE  TwoTo[n + 7] = 128 * TwoTo[n]
    <2>1. TwoTo[n + 7] = TwoTo[n] * TwoTo[7]
      BY <1>3, SumOfPowers
    <2>2. TwoTo[n] \in Nat
      BY <1>3, PowerType, Widths
    <2> QED  BY <1>2, <2>1, <2>2
  <1> QED  BY <1>2, <1>3

-----------------------------------------------------------------------------
(* What the encoder writes of a number.                                    *)

LEMMA SmallRemainder ==
  ASSUME NEW x \in Nat, NEW y \in Nat, x < y
  PROVE  x % y = x
  OBVIOUS

LEMMA SevenBitsLess ==
  ASSUME NEW n \in Nat
  PROVE  /\ n \div 128 \in Nat /\ n % 128 \in 0 .. 127
         /\ n = 128 * (n \div 128) + (n % 128)
         /\ n >= 128 => n \div 128 < n
         /\ 128 + (n % 128) \in 128 .. 255
         /\ (128 + (n % 128)) % 128 = n % 128
  OBVIOUS

\* The recursion is a function: each varint is the next seven bits and the
\* varint of the rest.
LEMMA VarintBySevenBits ==
  \A n \in Nat :
    /\ Varint[n] \in Seq(Byte)
    /\ Varint[n] = IF n < 128 THEN <<n>> ELSE <<128 + (n % 128)>> \o Varint[n \div 128]
  <1> DEFINE IsEncoder(f) ==
               f = [n \in Nat |-> IF n < 128 THEN <<n>> ELSE <<128 + (n % 128)>> \o f[n \div 128]]
             less == [n \in Nat |-> IF n < 128 THEN n ELSE n \div 128]
             base == [n \in Nat |-> IF n < 128 THEN <<n>> ELSE <<>>]
             step == [x \in Nat \X Seq(Byte) |-> <<128 + (x[1] % 128)>> \o x[2]]
  <1>1. base \in [Nat -> Seq(Byte)]
    <2>1. ASSUME NEW n \in Nat, n < 128
          PROVE  <<n>> \in Seq(Byte)
      <3>1. n \in Byte
        BY <2>1 DEF Byte
      <3> QED  BY <3>1
    <2>2. <<>> \in Seq(Byte)
      OBVIOUS
    <2> QED  BY <2>1, <2>2
  <1>2. step \in [Nat \X Seq(Byte) -> Seq(Byte)]
    <2>1. ASSUME NEW n \in Nat, NEW s \in Seq(Byte)
          PROVE  <<128 + (n % 128)>> \o s \in Seq(Byte)
      <3>1. 128 + (n % 128) \in Byte
        BY SevenBitsLess DEF Byte
      <3> QED  BY <3>1
    <2> QED  BY <2>1
  <1>3. PICK f \in [Nat -> Seq(Byte)] : Solves(f, Nat, base, less, step)
    <2> HIDE DEF less, base, step
    <2> QED  BY <1>1, <1>2, RecursiveFunction
  <1>4. ASSUME NEW n \in Nat
        PROVE  f[n] = IF n < 128 THEN <<n>> ELSE <<128 + (n % 128)>> \o f[n \div 128]
    <2>1. Recursive(Nat, less, n) <=> n >= 128
      BY SevenBitsLess DEF Recursive
    <2>2. f[n] = IF Recursive(Nat, less, n) THEN step[<<n, f[less[n]]>>] ELSE base[n]
      BY <1>3 DEF Solves
    <2>3. CASE n >= 128
      <3>1. less[n] = n \div 128 /\ n \div 128 \in Nat
        BY <2>3, SevenBitsLess
      <3>2. f[n] = step[<<n, f[n \div 128]>>]
        BY <2>1, <2>2, <2>3, <3>1
      <3>3. step[<<n, f[n \div 128]>>] = <<128 + (n % 128)>> \o f[n \div 128]
        <4>1. \A s \in Seq(Byte) : step[<<n, s>>] = <<128 + (n % 128)>> \o s
          OBVIOUS
        <4>2. f[n \div 128] \in Seq(Byte)
          BY <3>1
        <4> HIDE DEF step
        <4> QED  BY <4>1, <4>2, Zenon
      <3>4. ~(n < 128)
        BY <2>3
      <3> QED  BY <3>2, <3>3, <3>4, Zenon
    <2>4. CASE n < 128
      <3>1. ~Recursive(Nat, less, n) /\ base[n] = <<n>>
        BY <2>1, <2>4
      <3> QED  BY <2>2, <2>4, <3>1, Zenon
    <2>5. n >= 128 \/ n < 128
      OBVIOUS
    <2> QED  BY <2>3, <2>4, <2>5, Zenon
  <1> HIDE DEF base, less, step
  <1>5. IsEncoder(f)
    BY <1>4
  <1>6. Varint = CHOOSE g : IsEncoder(g)
    BY DEF Varint
  <1>7. IsEncoder(Varint)
    <2> HIDE DEF IsEncoder
    <2> QED  BY <1>5, <1>6
  <1>8. ASSUME NEW n \in Nat
        PROVE  Varint[n] = IF n < 128 THEN <<n>> ELSE <<128 + (n % 128)>> \o Varint[n \div 128]
    BY <1>7
  <1> DEFINE T == {n \in Nat : Varint[n] = f[n]}
  <1>9. ASSUME NEW n \in Nat, \A m \in Nat : m < n => m \in T
        PROVE  n \in T
    <2>1. n >= 128 => Varint[n \div 128] = f[n \div 128]
      BY <1>9, SevenBitsLess
    <2>2. Varint[n] = f[n]
      <3>1. CASE n >= 128
        <4>1. ~(n < 128)
          BY <3>1
        <4>2. Varint[n] = <<128 + (n % 128)>> \o Varint[n \div 128]
          BY <1>8, <4>1, Zenon
        <4>3. f[n] = <<128 + (n % 128)>> \o f[n \div 128]
          BY <1>4, <4>1, Zenon
        <4>4. Varint[n \div 128] = f[n \div 128]
          BY <2>1, <3>1
        <4> QED  BY <4>2, <4>3, <4>4, Zenon
      <3>2. CASE n < 128
        <4>1. Varint[n] = <<n>>
          BY <1>8, <3>2, Zenon
        <4>2. f[n] = <<n>>
          BY <1>4, <3>2, Zenon
        <4> QED  BY <4>1, <4>2, Zenon
      <3>3. n >= 128 \/ n < 128
        OBVIOUS
      <3> QED  BY <3>1, <3>2, <3>3, Zenon
    <2> QED  BY <2>2
  <1>10. Nat \subseteq T
    <2> HIDE DEF T
    <2> QED  BY <1>9, StrongInduction
  <1>11. \A n \in Nat : Varint[n] = f[n]
    BY <1>10
  <1> QED  BY <1>8, <1>11

\* The two cases of it.
LEMMA LastByte ==
  ASSUME NEW n \in Nat, n < 128
  PROVE  Varint[n] = <<n>> /\ Len(Varint[n]) = 1
  <1>1. Varint[n] = <<n>>
    BY VarintBySevenBits
  <1> QED  BY <1>1

\* The byte b comes before the bytes of the varint of m.
IsPrefixed(bytes, b, m) ==
  /\ bytes = <<b>> \o Varint[m]
  /\ Len(bytes) = 1 + Len(Varint[m])
  /\ bytes[1] = b
  /\ \A i \in 1 .. Len(Varint[m]) : bytes[i + 1] = Varint[m][i]

LEMMA NotLastByte ==
  ASSUME NEW n \in Nat, n >= 128
  PROVE  IsPrefixed(Varint[n], 128 + (n % 128), n \div 128)
  <1>1. Varint[n] = <<128 + (n % 128)>> \o Varint[n \div 128]
    <2>1. ~(n < 128)
      OBVIOUS
    <2> QED  BY <2>1, VarintBySevenBits, Zenon
  <1>2. Varint[n \div 128] \in Seq(Byte) /\ 128 + (n % 128) \in Byte
    <2>1. n \div 128 \in Nat /\ 128 + (n % 128) \in 128 .. 255
      BY SevenBitsLess
    <2>2. 128 + (n % 128) \in Byte
      BY <2>1 DEF Byte
    <2> QED  BY <2>1, <2>2, VarintBySevenBits, Zenon
  <1> DEFINE first == 128 + (n % 128)
             rest == Varint[n \div 128]
  <1>3. /\ Len(<<first>> \o rest) = 1 + Len(rest)
        /\ (<<first>> \o rest)[1] = first
        /\ \A i \in 1 .. Len(rest) : (<<first>> \o rest)[i + 1] = rest[i]
    <2> HIDE DEF first, rest
    <2> SUFFICES ASSUME rest \in Seq(Byte), first \in Byte
                 PROVE  /\ Len(<<first>> \o rest) = 1 + Len(rest)
                        /\ (<<first>> \o rest)[1] = first
                        /\ \A i \in 1 .. Len(rest) : (<<first>> \o rest)[i + 1] = rest[i]
      BY <1>2 DEF first, rest
    <2> QED  OBVIOUS
  <1> HIDE DEF first
  <1>4. /\ Len(Varint[n]) = 1 + Len(rest) /\ Varint[n][1] = first
        /\ \A i \in 1 .. Len(rest) : Varint[n][i + 1] = rest[i]
    BY <1>1, <1>3 DEF first
  <1> QED  BY <1>1, <1>4 DEF first, IsPrefixed

\* Dividing by 128 takes seven bits of the width.
LEMMA NarrowerBySeven ==
  ASSUME NEW w \in 0 .. Bits64, NEW n \in Nat, n >= 128, n < TwoTo[w]
  PROVE  /\ w - 7 \in 1 .. Bits64
         /\ TwoTo[w] = 128 * TwoTo[w - 7]
         /\ n \div 128 < TwoTo[w - 7]
  <1>1. w > 7
    <2> SUFFICES ASSUME w <= 7
                 PROVE  FALSE
      OBVIOUS
    <2>1. TwoTo[w] <= TwoTo[7]
      BY PowersGrow, Widths
    <2>2. TwoTo[w] \in Nat
      BY PowerType
    <2> QED  BY <2>1, <2>2, SevenBits
  <1>2. w - 7 \in Nat /\ (w - 7) + 7 = w /\ w - 7 \in 1 .. Bits64 /\ w - 7 \in 0 .. Bits64
    BY <1>1, Widths
  <1>3. TwoTo[w] = 128 * TwoTo[w - 7]
    <2>1. (w - 7) + 7 <= Bits64
      BY <1>2, Widths
    <2> QED  BY <1>2, <2>1, SevenBits
  <1>4. TwoTo[w - 7] \in Nat
    BY <1>2, PowerType
  <1> QED  BY <1>2, <1>3, <1>4

LEMMA VarintShape ==
  \A n \in Nat :
    /\ Len(Varint[n]) \in Nat \ {0}
    /\ \A i \in 1 .. Len(Varint[n]) : Varint[n][i] < 128 <=> i = Len(Varint[n])
  <1> DEFINE Shape(n) ==
               /\ Len(Varint[n]) \in Nat \ {0}
               /\ \A i \in 1 .. Len(Varint[n]) : Varint[n][i] < 128 <=> i = Len(Varint[n])
             T == {n \in Nat : Shape(n)}
  <1>1. ASSUME NEW n \in Nat, \A m \in Nat : m < n => m \in T
        PROVE  n \in T
    <2>1. CASE n < 128
      <3>1. Varint[n] = <<n>> /\ Len(Varint[n]) = 1 /\ Varint[n][1] = n
        BY <2>1, LastByte
      <3>2. Shape(n)
        BY <2>1, <3>1
      <3> QED  BY <3>2
    <2>2. CASE n >= 128
      <3> DEFINE rest == Varint[n \div 128]
      <3>1. /\ Len(Varint[n]) = 1 + Len(rest)
            /\ Varint[n][1] = 128 + (n % 128)
            /\ \A i \in 1 .. Len(rest) : Varint[n][i + 1] = rest[i]
        <4>1. IsPrefixed(Varint[n], 128 + (n % 128), n \div 128)
          BY <2>2, NotLastByte
        <4> QED  BY <4>1 DEF IsPrefixed
      <3>2. Shape(n \div 128)
        BY <1>1, <2>2, SevenBitsLess
      <3>3. 128 + (n % 128) \in 128 .. 255
        BY SevenBitsLess
      <3> HIDE DEF rest
      <3>4. Len(rest) \in Nat \ {0} /\ \A i \in 1 .. Len(rest) : rest[i] < 128 <=> i = Len(rest)
        BY <3>2 DEF rest
      <3>5. ASSUME NEW i \in 1 .. 1 + Len(rest)
            PROVE  Varint[n][i] < 128 <=> i = 1 + Len(rest)
        <4>1. CASE i = 1
          BY <3>1, <3>3, <3>4, <4>1
        <4>2. CASE i # 1
          <5>1. i - 1 \in 1 .. Len(rest) /\ (i - 1) + 1 = i
            BY <3>4, <4>2
          <5>2. Varint[n][i] = rest[i - 1]
            BY <3>1, <5>1
          <5>3. rest[i - 1] < 128 <=> i - 1 = Len(rest)
            BY <3>4, <5>1
          <5> QED  BY <3>4, <5>2, <5>3
        <4> QED  BY <4>1, <4>2
      <3>6. Len(Varint[n]) \in Nat \ {0} /\ Len(Varint[n]) = 1 + Len(rest)
        BY <3>1, <3>4
      <3>7. Shape(n)
        BY <3>5, <3>6
      <3> QED  BY <3>7
    <2>3. n < 128 \/ n >= 128
      OBVIOUS
    <2> QED  BY <2>1, <2>2, <2>3
  <1>2. Nat \subseteq T
    <2> HIDE DEF T
    <2> QED  BY <1>1, StrongInduction
  <1> QED  BY <1>2

\* A number of w bits takes a byte for each seven of them.
LEMMA VarintFits ==
  ASSUME NEW n \in Nat, NEW w \in 1 .. Bits64, n < TwoTo[w]
  PROVE  7 * (Len(Varint[n]) - 1) < w
  <1> DEFINE T == {m \in Nat : \A v \in 1 .. Bits64 : m < TwoTo[v] => 7 * (Len(Varint[m]) - 1) < v}
  <1>1. ASSUME NEW m \in Nat, \A k \in Nat : k < m => k \in T
        PROVE  m \in T
    <2> SUFFICES ASSUME NEW v \in 1 .. Bits64, m < TwoTo[v]
                 PROVE  7 * (Len(Varint[m]) - 1) < v
      OBVIOUS
    <2>1. CASE m < 128
      <3>1. Len(Varint[m]) = 1
        BY <2>1, LastByte
      <3> QED  BY <3>1
    <2>2. CASE m >= 128
      <3>1. v - 7 \in 1 .. Bits64 /\ m \div 128 < TwoTo[v - 7]
        <4>1. v \in 0 .. Bits64
          OBVIOUS
        <4> QED  BY <2>2, <4>1, NarrowerBySeven
      <3>2. m \div 128 \in T
        BY <1>1, <2>2, SevenBitsLess
      <3>3. 7 * (Len(Varint[m \div 128]) - 1) < v - 7
        BY <3>1, <3>2
      <3>4. Len(Varint[m]) = 1 + Len(Varint[m \div 128])
        BY <2>2, NotLastByte DEF IsPrefixed
      <3>5. Len(Varint[m \div 128]) \in Nat
        BY SevenBitsLess, VarintShape
      <3> HIDE DEF T
      <3> QED  BY <3>3, <3>4, <3>5, Widths
    <2>3. m < 128 \/ m >= 128
      OBVIOUS
    <2> QED  BY <2>1, <2>2, <2>3
  <1>2. Nat \subseteq T
    <2> HIDE DEF T
    <2> QED  BY <1>1, StrongInduction
  <1> QED  BY <1>2

LEMMA Uint64Type == Uint64 \subseteq Nat /\ \A n \in Uint64 : n < TwoTo[Bits64]
  <1>1. TwoTo[Bits64] \in Nat
    BY PowerType, Widths
  <1> QED  BY <1>1 DEF Uint64

\* The decoders accept what the encoders write: the varint of a number of 64
\* bits ends where its last byte says, and is no longer than they allow.
THEOREM NumbersAreVarints ==
  \A n \in Uint64 : Varint[n] \in Seq(Byte) /\ IsVarint(Varint[n])
  <1> SUFFICES ASSUME NEW n \in Uint64
               PROVE  Varint[n] \in Seq(Byte) /\ IsVarint(Varint[n])
    OBVIOUS
  <1>1. n \in Nat /\ n < TwoTo[Bits64]
    BY Uint64Type
  <1>2. 7 * (Len(Varint[n]) - 1) < Bits64
    BY <1>1, VarintFits, Widths
  <1>3. Len(Varint[n]) \in 1 .. VarintBytes
    <2>1. \A k \in Nat : 7 * (k - 1) < Bits64 => k <= (Bits64 + 6) \div 7
      BY Widths
    <2> QED  BY <1>1, <1>2, <2>1, VarintShape DEF VarintBytes
  <1> QED  BY <1>1, <1>3, VarintShape, VarintBySevenBits DEF IsVarint

-----------------------------------------------------------------------------
(* What the decoders make of it.                                           *)

LEMMA ShiftedByte ==
  ASSUME NEW p \in 0 .. Bits64, NEW b \in Nat, b % 128 < TwoTo[Bits64 - p]
  PROVE  Shifted(b, p, Bits64) = (b % 128) * TwoTo[p]
  <1>1. TwoTo[Bits64 - p] \in Nat
    <2>1. Bits64 - p \in 0 .. Bits64
      BY Widths
    <2> QED  BY <2>1, PowerType
  <1>2. b % 128 \in Nat
    OBVIOUS
  <1>3. (b % 128) % TwoTo[Bits64 - p] = b % 128
    BY <1>1, <1>2, SmallRemainder
  <1> QED  BY <1>3 DEF Shifted

LEMMA ShiftedType ==
  ASSUME NEW w \in 0 .. Bits64, NEW p \in 0 .. w, NEW b \in Nat
  PROVE  /\ Shifted(b, p, w) \in Nat
         /\ Shifted(b, p, w) <= TwoTo[w] - TwoTo[p]
  <1> DEFINE low == (b % 128) % TwoTo[w - p]
  <1>1. w - p \in 0 .. Bits64 /\ p \in 0 .. Bits64 /\ w - p \in Nat /\ p \in Nat
    BY Widths
  <1>2. TwoTo[w - p] \in Nat /\ TwoTo[p] \in Nat /\ TwoTo[w - p] >= 1
    BY <1>1, PowerType
  <1>3. low \in 0 .. (TwoTo[w - p] - 1)
    <2>1. b % 128 \in Nat
      OBVIOUS
    <2>2. \A x, y \in Nat : y >= 1 => x % y \in 0 .. (y - 1)
      OBVIOUS
    <2> QED  BY <1>2, <2>1, <2>2
  <1>4. TwoTo[w] = TwoTo[w - p] * TwoTo[p]
    <2>1. (w - p) + p = w /\ (w - p) + p <= Bits64
      BY <1>1
    <2> QED  BY <1>1, <2>1, SumOfPowers
  <1>5. Shifted(b, p, w) = low * TwoTo[p]
    BY DEF Shifted
  <1> HIDE DEF low
  <1>6. \A x, y, z \in Nat : x <= y - 1 => x * z \in Nat /\ x * z <= y * z - z
    <2> SUFFICES ASSUME NEW x \in Nat, NEW y \in Nat, NEW z \in Nat, x <= y - 1
                 PROVE  x * z \in Nat /\ x * z <= y * z - z
      OBVIOUS
    <2>1. x * z <= (y - 1) * z
      BY SMTT(30)
    <2>2. (y - 1) * z = y * z - z
      BY SMTT(30)
    <2> QED  BY <2>1, <2>2
  <1> QED  BY <1>2, <1>3, <1>4, <1>5, <1>6

\* Adding up the bytes of a varint, each moved to its place from p on, adds
\* the number: nothing of it exceeds the width.
Adds(f, bytes, p) ==
  \A i \in 1 .. Len(bytes) : f[i] = f[i - 1] + Shifted(bytes[i], p + 7 * (i - 1), Bits64)

LEMMA VarintAddsUp ==
  ASSUME NEW n \in Nat, NEW p \in 0 .. Bits64, n < TwoTo[Bits64 - p],
         NEW f \in [0 .. Len(Varint[n]) -> Int], Adds(f, Varint[n], p)
  PROVE  f[Len(Varint[n])] = f[0] + n * TwoTo[p]
  <1> DEFINE Claim(m, q, g) == g[Len(Varint[m])] = g[0] + m * TwoTo[q]
             T == {m \in Nat : \A q \in 0 .. Bits64 : m < TwoTo[Bits64 - q] =>
                                 \A g \in [0 .. Len(Varint[m]) -> Int] :
                                   Adds(g, Varint[m], q) => Claim(m, q, g)}
  <1>1. ASSUME NEW m \in Nat, \A k \in Nat : k < m => k \in T
        PROVE  m \in T
    <2> SUFFICES ASSUME NEW q \in 0 .. Bits64, m < TwoTo[Bits64 - q],
                        NEW g \in [0 .. Len(Varint[m]) -> Int], Adds(g, Varint[m], q)
                 PROVE  Claim(m, q, g)
      OBVIOUS
    <2>1. CASE m < 128
      <3>1. Varint[m] = <<m>> /\ Len(Varint[m]) = 1 /\ Varint[m][1] = m
        BY <2>1, LastByte
      <3>2. g[1] = g[0] + Shifted(m, q, Bits64)
        <4>1. g[1] = g[1 - 1] + Shifted(Varint[m][1], q + 7 * (1 - 1), Bits64)
          BY <3>1 DEF Adds
        <4>2. 1 - 1 = 0 /\ q + 7 * (1 - 1) = q
          OBVIOUS
        <4> QED  BY <3>1, <4>1, <4>2
      <3>3. m % 128 = m
        BY <2>1, SmallRemainder
      <3>4. Shifted(m, q, Bits64) = (m % 128) * TwoTo[q]
        <4>1. m % 128 < TwoTo[Bits64 - q]
          BY <3>3, Zenon
        <4> QED  BY <4>1, ShiftedByte, Zenon
      <3>5. g[1] = g[0] + m * TwoTo[q]
        BY <3>2, <3>3, <3>4, Zenon
      <3> QED  BY <3>1, <3>5, Zenon
    <2>2. CASE m >= 128
      <3> DEFINE rest == m \div 128
                 low == m % 128
                 h == [i \in 0 .. Len(Varint[rest]) |-> g[i + 1]]
      <3>1. /\ rest \in Nat /\ low \in 0 .. 127 /\ m = 128 * rest + low /\ rest < m
            /\ 128 + low \in Nat /\ (128 + low) % 128 = low
        BY <2>2, SevenBitsLess
      <3>2. /\ Len(Varint[m]) = 1 + Len(Varint[rest])
            /\ Varint[m][1] = 128 + low
            /\ \A i \in 1 .. Len(Varint[rest]) : Varint[m][i + 1] = Varint[rest][i]
        <4>1. IsPrefixed(Varint[m], 128 + low, rest)
          BY <2>2, NotLastByte
        <4> QED  BY <4>1 DEF IsPrefixed
      <3>3. Len(Varint[rest]) \in Nat /\ Len(Varint[rest]) >= 1
        BY <3>1, VarintShape
      <3>4. /\ (Bits64 - q) - 7 = Bits64 - (q + 7) /\ q + 7 \in 0 .. Bits64
            /\ rest < TwoTo[Bits64 - (q + 7)]
            /\ TwoTo[q + 7] = 128 * TwoTo[q]
            /\ TwoTo[Bits64 - q] >= 128
        <4>1. Bits64 - q \in 0 .. Bits64
          BY Widths
        <4>2. (Bits64 - q) - 7 \in 1 .. Bits64 /\ rest < TwoTo[(Bits64 - q) - 7]
          BY <2>2, <4>1, NarrowerBySeven
        <4>3. (Bits64 - q) - 7 = Bits64 - (q + 7) /\ q + 7 \in 0 .. Bits64 /\ q + 7 <= Bits64
          BY <4>2, Widths
        <4>4. TwoTo[q + 7] = 128 * TwoTo[q]
          BY <4>3, SevenBits
        <4>5. TwoTo[Bits64 - q] \in Nat
          BY <4>1, PowerType
        <4>6. TwoTo[Bits64 - q] >= 128
          BY <2>2, <4>5
        <4> QED  BY <4>2, <4>3, <4>4, <4>6
      <3> HIDE DEF rest, low
      <3>5. h \in [0 .. Len(Varint[rest]) -> Int]
        BY <3>2, <3>3
      <3>6. Adds(h, Varint[rest], q + 7)
        <4> SUFFICES ASSUME NEW i \in 1 .. Len(Varint[rest])
                     PROVE  h[i] = h[i - 1] + Shifted(Varint[rest][i], (q + 7) + 7 * (i - 1), Bits64)
          BY DEF Adds
        <4>1. i + 1 \in 1 .. Len(Varint[m])
          BY <3>2, <3>3
        <4>2. g[i + 1] = g[(i + 1) - 1] + Shifted(Varint[m][i + 1], q + 7 * ((i + 1) - 1), Bits64)
          BY <4>1 DEF Adds
        <4>3. (i + 1) - 1 = i /\ (i - 1) + 1 = i /\ q + 7 * ((i + 1) - 1) = (q + 7) + 7 * (i - 1)
          OBVIOUS
        <4>4. h[i] = g[i + 1] /\ h[i - 1] = g[(i - 1) + 1]
          BY <3>3
        <4> QED  BY <3>2, <4>2, <4>3, <4>4
      <3>7. h[Len(Varint[rest])] = h[0] + rest * TwoTo[q + 7]
        <4>1. rest \in T
          BY <1>1, <3>1
        <4> HIDE DEF h
        <4> QED  BY <3>4, <3>5, <3>6, <4>1
      <3>8. g[1] = g[0] + low * TwoTo[q]
        <4>1. 1 \in 1 .. Len(Varint[m])
          BY <3>2, <3>3
        <4>2. g[1] = g[1 - 1] + Shifted(Varint[m][1], q + 7 * (1 - 1), Bits64)
          BY <4>1 DEF Adds
        <4>3. 1 - 1 = 0 /\ q + 7 * (1 - 1) = q
          OBVIOUS
        <4>4. low < TwoTo[Bits64 - q]
          <5>1. TwoTo[Bits64 - q] \in Nat
            BY PowerType, Widths
          <5> QED  BY <3>1, <3>4, <5>1
        <4>5. Shifted(128 + low, q, Bits64) = low * TwoTo[q]
          BY <3>1, <4>4, ShiftedByte
        <4> QED  BY <3>2, <4>2, <4>3, <4>5
      <3>9. h[0] = g[1] /\ h[Len(Varint[rest])] = g[Len(Varint[m])]
        <4>1. h[0] = g[0 + 1] /\ h[Len(Varint[rest])] = g[Len(Varint[rest]) + 1]
          BY <3>3
        <4>2. 0 + 1 = 1 /\ Len(Varint[rest]) + 1 = Len(Varint[m])
          BY <3>2, <3>3
        <4> QED  BY <4>1, <4>2
      <3>10. low * TwoTo[q] + rest * TwoTo[q + 7] = m * TwoTo[q]
        <4>1. TwoTo[q] \in Nat
          BY PowerType
        <4>2. low \in Nat /\ rest \in Nat
          BY <3>1
        <4> DEFINE unit == TwoTo[q]
        <4>3. unit \in Nat
          BY <4>1
        <4> HIDE DEF unit
        <4>4. low * unit + rest * (128 * unit) = (128 * rest + low) * unit
          BY <4>2, <4>3, SMTT(30)
        <4>5. 128 * rest + low = m /\ TwoTo[q + 7] = 128 * TwoTo[q]
          BY <3>1, <3>4
        <4> QED  BY <4>4, <4>5 DEF unit
      <3>11. g[0] \in Int /\ low * TwoTo[q] \in Int /\ rest * TwoTo[q + 7] \in Int
        <4>1. TwoTo[q] \in Nat /\ TwoTo[q + 7] \in Nat
          BY <3>4, PowerType
        <4>2. \A x, y \in Nat : x * y \in Int
          OBVIOUS
        <4>3. low \in Nat /\ 0 \in 0 .. Len(Varint[m])
          BY <3>1, <3>2, <3>3
        <4> QED  BY <3>1, <4>1, <4>2, <4>3
      <3> HIDE DEF h
      <3>12. \A a, b, c \in Int : (a + b) + c = a + (b + c)
        OBVIOUS
      <3> QED  BY <3>7, <3>8, <3>9, <3>10, <3>11, <3>12
    <2>3. m < 128 \/ m >= 128
      OBVIOUS
    <2> QED  BY <2>1, <2>2, <2>3
  <1>2. Nat \subseteq T
    <2> HIDE DEF T
    <2> QED  BY <1>1, StrongInduction
  <1>3. n \in T
    BY <1>2
  <1> QED  BY <1>3

\* The recursion in VarintValue is a function, where all bytes have a place.
LEMMA VarintValueRecursion ==
  ASSUME NEW bytes \in Seq(Byte), 7 * (Len(bytes) - 1) < Bits64
  PROVE  \E f \in [0 .. Len(bytes) -> Int] :
           f[0] = 0 /\ Adds(f, bytes, 0) /\ VarintValue(bytes) = f[Len(bytes)]
  <1> DEFINE N == Len(bytes)
             IsValue(f) ==
               f = [i \in 0 .. N |->
                      IF i = 0 THEN 0 ELSE f[i - 1] + Shifted(bytes[i], 7 * (i - 1), Bits64)]
             step == [x \in (1 .. N) \X Int |-> x[2] + Shifted(bytes[x[1]], 7 * (x[1] - 1), Bits64)]
             value == CHOOSE f : IsValue(f)
  <1>1. N \in Nat /\ \A i \in 1 .. N : bytes[i] \in Nat
    <2>1. \A b \in Byte : b \in Nat
      BY DEF Byte
    <2> QED  BY <2>1
  <1>2. ASSUME NEW i \in 1 .. N
        PROVE  Shifted(bytes[i], 7 * (i - 1), Bits64) \in Int
    <2>1. 7 * (i - 1) \in 0 .. Bits64 /\ Bits64 \in 0 .. Bits64
      BY <1>1, Widths
    <2>2. Shifted(bytes[i], 7 * (i - 1), Bits64) \in Nat
      BY <1>1, <2>1, ShiftedType
    <2> QED  BY <2>2
  <1>3. VarintValue(bytes) = value[N]
    BY DEF VarintValue
  <1> HIDE DEF N
  <1>4. step \in [(1 .. N) \X Int -> Int]
    <2>1. ASSUME NEW i \in 1 .. N, NEW s \in Int
          PROVE  s + Shifted(bytes[i], 7 * (i - 1), Bits64) \in Int
      BY <1>2
    <2> QED  BY <2>1
  <1>5. PICK f \in [0 .. N -> Int] : Counts(f, N, 0, step)
    <2> HIDE DEF step
    <2>1. 0 \in Int
      OBVIOUS
    <2> QED  BY <1>1, <1>4, <2>1, CountingFunction
  <1>6. ASSUME NEW i \in 1 .. N
        PROVE  f[i] = f[i - 1] + Shifted(bytes[i], 7 * (i - 1), Bits64)
    <2>1. f[i - 1] \in Int
      BY <1>1
    <2>2. step[<<i, f[i - 1]>>] = f[i - 1] + Shifted(bytes[i], 7 * (i - 1), Bits64)
      BY <2>1
    <2>3. f[i] = step[<<i, f[i - 1]>>]
      BY <1>5 DEF Counts
    <2> QED  BY <2>2, <2>3
  <1>7. IsValue(f)
    <2>1. f[0] = 0
      BY <1>5 DEF Counts
    <2>2. \A i \in 0 .. N : i # 0 => i \in 1 .. N
      BY <1>1
    <2> QED  BY <1>6, <2>1, <2>2
  <1>8. IsValue(value)
    BY <1>7
  <1> HIDE DEF value
  <1>9. value[0] = 0 /\ \A i \in 1 .. N : value[i] = value[i - 1] + Shifted(bytes[i], 7 * (i - 1), Bits64)
    <2>1. 0 \in 0 .. N /\ \A i \in 1 .. N : i \in 0 .. N /\ i # 0
      BY <1>1
    <2> QED  BY <1>8, <2>1
  <1>10. value \in [0 .. N -> Int]
    <2> DEFINE T == {i \in 0 .. N : value[i] \in Int}
    <2>1. 0 \in T
      BY <1>1, <1>9
    <2>2. ASSUME NEW i \in 1 .. N, i - 1 \in T
          PROVE  i \in T
      BY <1>2, <1>9, <2>2
    <2>3. 0 .. N \subseteq T
      <3> HIDE DEF T
      <3> QED  BY <1>1, <2>1, <2>2, CountingInduction
    <2> QED  BY <1>8, <2>3
  <1>11. Adds(value, bytes, 0)
    <2>1. \A i \in 1 .. N : 0 + 7 * (i - 1) = 7 * (i - 1)
      OBVIOUS
    <2> QED  BY <1>9, <2>1 DEF Adds, N
  <1> QED  BY <1>3, <1>9, <1>10, <1>11 DEF N

\* What a varint of the encoder stands for when it is read is the number it
\* was written from, up to the full width of 64 bits.
THEOREM VarintsRoundTrip ==
  \A n \in Uint64 : VarintValue(Varint[n]) = n
  <1> SUFFICES ASSUME NEW n \in Uint64
               PROVE  VarintValue(Varint[n]) = n
    OBVIOUS
  <1>1. n \in Nat /\ n < TwoTo[Bits64]
    BY Uint64Type
  <1>2. Varint[n] \in Seq(Byte) /\ 7 * (Len(Varint[n]) - 1) < Bits64
    <2>1. Bits64 \in 1 .. Bits64
      BY Widths
    <2> QED  BY <1>1, <2>1, VarintBySevenBits, VarintFits
  <1>3. PICK f \in [0 .. Len(Varint[n]) -> Int] :
          f[0] = 0 /\ Adds(f, Varint[n], 0) /\ VarintValue(Varint[n]) = f[Len(Varint[n])]
    BY <1>2, VarintValueRecursion
  <1>4. f[Len(Varint[n])] = f[0] + n * TwoTo[0]
    <2>1. 0 \in 0 .. Bits64 /\ Bits64 - 0 = Bits64
      BY Widths
    <2> QED  BY <1>1, <1>3, <2>1, VarintAddsUp
  <1> QED  BY <1>1, <1>3, <1>4, PowersOfTwo

-----------------------------------------------------------------------------
(* Whole messages.                                                         *)

LEMMA EncodedFieldType ==
  ASSUME NEW field \in WireFields
  PROVE  EncodedField(field) \in Seq(Byte)
  <1>1. /\ field.tag \in Nat /\ field.wireType \in Nat /\ field.bytes \in Seq(Byte)
        /\ Len(field.bytes) \in Nat
    BY DEF WireFields
  <1>2. 8 * field.tag + field.wireType \in Nat
    BY <1>1
  <1>3. Varint[8 * field.tag + field.wireType] \in Seq(Byte) /\ Varint[Len(field.bytes)] \in Seq(Byte)
    BY <1>1, <1>2, VarintBySevenBits
  <1>4. (IF field.wireType = WT_STRING THEN Varint[Len(field.bytes)] ELSE <<>>) \in Seq(Byte)
    BY <1>3
  <1> QED  BY <1>1, <1>3, <1>4, ConcatProperties DEF EncodedField

\* Pieces put one after the other.
Concatenates(f, N, piece) ==
  f = [i \in 0 .. N |-> IF i = 0 THEN <<>> ELSE f[i - 1] \o piece[i]]

LEMMA Concatenation ==
  ASSUME NEW N \in Nat, NEW S, NEW piece \in [1 .. N -> Seq(S)]
  PROVE  /\ \E f : Concatenates(f, N, piece)
         /\ \A f : Concatenates(f, N, piece) => f \in [0 .. N -> Seq(S)]
  <1> DEFINE step == [x \in (1 .. N) \X Seq(S) |-> x[2] \o piece[x[1]]]
  <1>1. <<>> \in Seq(S) /\ \A i \in 0 .. N : i # 0 => i \in 1 .. N
    OBVIOUS
  <1>2. ASSUME NEW i \in 1 .. N, NEW s \in Seq(S)
        PROVE  s \o piece[i] \in Seq(S)
    BY ConcatProperties
  <1>3. \E f : Concatenates(f, N, piece)
    <2>1. step \in [(1 .. N) \X Seq(S) -> Seq(S)]
      BY <1>2
    <2>2. PICK f \in [0 .. N -> Seq(S)] : Counts(f, N, <<>>, step)
      <3> HIDE DEF step
      <3> QED  BY <1>1, <2>1, CountingFunction
    <2>3. f[0] = <<>>
      BY <2>2 DEF Counts
    <2>4. ASSUME NEW i \in 1 .. N
          PROVE  f[i] = f[i - 1] \o piece[i]
      <3>1. f[i - 1] \in Seq(S)
        OBVIOUS
      <3>2. step[<<i, f[i - 1]>>] = f[i - 1] \o piece[i]
        BY <3>1
      <3>3. f[i] = step[<<i, f[i - 1]>>]
        BY <2>2 DEF Counts
      <3> QED  BY <3>2, <3>3
    <2>5. Concatenates(f, N, piece)
      BY <1>1, <2>3, <2>4 DEF Concatenates
    <2> QED  BY <2>5
  <1>4. ASSUME NEW f, Concatenates(f, N, piece)
        PROVE  f \in [0 .. N -> Seq(S)]
    <2> DEFINE T == {i \in 0 .. N : f[i] \in Seq(S)}
    <2>1. 0 \in T
      <3>1. 0 \in 0 .. N
        OBVIOUS
      <3> QED  BY <1>1, <1>4, <3>1 DEF Concatenates
    <2>2. ASSUME NEW i \in 1 .. N, i - 1 \in T
          PROVE  i \in T
      <3>1. i \in 0 .. N /\ i # 0
        OBVIOUS
      <3>2. f[i] = f[i - 1] \o piece[i]
        BY <1>4, <3>1 DEF Concatenates
      <3>3. f[i - 1] \in Seq(S)
        BY <2>2
      <3> QED  BY <1>2, <3>1, <3>2, <3>3
    <2>3. 0 .. N \subseteq T
      <3> HIDE DEF T
      <3> QED  BY <2>1, <2>2, CountingInduction
    <2> QED  BY <1>4, <2>3 DEF Concatenates
  <1> QED  BY <1>3, <1>4

LEMMA EncodedType ==
  ASSUME NEW fields \in Seq(WireFields)
  PROVE  Encoded(fields) \in Seq(Byte)
  <1> DEFINE N == Len(fields)
             piece == [i \in 1 .. N |-> EncodedField(fields[i])]
             Upto(f) ==
               f = [i \in 0 .. N |-> IF i = 0 THEN <<>> ELSE f[i - 1] \o EncodedField(fields[i])]
             upTo == CHOOSE f : Upto(f)
  <1>1. N \in Nat /\ piece \in [1 .. N -> Seq(Byte)]
    BY EncodedFieldType
  <1>2. \A i \in 0 .. N : i # 0 => piece[i] = EncodedField(fields[i])
    OBVIOUS
  <1> HIDE DEF N, piece
  <1>3. \A f : Upto(f) <=> Concatenates(f, N, piece)
    BY <1>2 DEF Concatenates
  <1>4. \E f : Upto(f)
    BY <1>1, <1>3, Concatenation
  <1>5. Upto(upTo)
    BY <1>4
  <1>6. Encoded(fields) = upTo[N]
    BY DEF Encoded, N
  <1> HIDE DEF Upto, upTo
  <1>7. upTo \in [0 .. N -> Seq(Byte)]
    BY <1>1, <1>3, <1>5, Concatenation
  <1> QED  BY <1>1, <1>6, <1>7

LEMMA OneField ==
  ASSUME NEW field, EncodedField(field) \in Seq(Byte)
  PROVE  Encoded(<<field>>) = EncodedField(field)
  <1> DEFINE Upto(f) ==
               f = [i \in 0 .. Len(<<field>>) |->
                      IF i = 0 THEN <<>> ELSE f[i - 1] \o EncodedField(<<field>>[i])]
             both == [i \in 0 .. 1 |-> IF i = 0 THEN <<>> ELSE EncodedField(field)]
             upTo == CHOOSE f : Upto(f)
  <1>1. Len(<<field>>) = 1 /\ <<field>>[1] = field
    OBVIOUS
  <1>2. <<>> \o EncodedField(field) = EncodedField(field)
    BY ConcatEmptySeq
  <1>3. Upto(both)
    <2>1. both[0] = <<>> /\ both[1] = both[1 - 1] \o EncodedField(<<field>>[1])
      BY <1>1, <1>2
    <2>2. \A i \in 0 .. 1 : i = 0 \/ i = 1
      OBVIOUS
    <2> QED  BY <1>1, <2>1, <2>2
  <1>4. Upto(upTo)
    BY <1>3
  <1>5. Encoded(<<field>>) = upTo[1]
    BY <1>1 DEF Encoded
  <1> HIDE DEF upTo
  <1>6. upTo[0] = <<>> /\ upTo[1] = upTo[1 - 1] \o EncodedField(<<field>>[1])
    BY <1>1, <1>4
  <1>7. 1 - 1 = 0
    OBVIOUS
  <1>8. upTo[1] = <<>> \o EncodedField(field)
    BY <1>1, <1>6, <1>7, Zenon
  <1> QED  BY <1>2, <1>5, <1>8, Zenon

\* A number of field 1 is a key of one byte and the varint.
LEMMA NumberOnTheWire ==
  ASSUME NEW n \in Nat
  PROVE  Encoded(<<Number(1, n)>>) = <<8>> \o Varint[n]
  <1> DEFINE field == Number(1, n)
  <1>1. field.tag = 1 /\ field.wireType = WT_VARINT /\ field.bytes = Varint[n]
    BY DEF Number, Field
  <1>2. Varint[8] = <<8>> /\ Varint[n] \in Seq(Byte)
    <2>1. 8 \in Nat /\ 8 < 128
      OBVIOUS
    <2> QED  BY <2>1, LastByte, VarintBySevenBits
  <1>3. 8 * field.tag + field.wireType = 8 /\ field.wireType # WT_STRING
    BY <1>1 DEF WT_VARINT, WT_STRING
  <1>4. <<8>> \in Seq(Byte)
    BY DEF Byte
  <1> HIDE DEF field
  <1>5. EncodedField(field) = (<<8>> \o <<>>) \o Varint[n]
    BY <1>1, <1>2, <1>3 DEF EncodedField
  <1>6. <<8>> \o <<>> = <<8>>
    BY <1>4, ConcatEmptySeq
  <1>7. EncodedField(field) \in Seq(Byte)
    BY <1>2, <1>4, <1>5, <1>6, ConcatProperties
  <1> QED  BY <1>5, <1>6, <1>7, OneField DEF field

-----------------------------------------------------------------------------
(* The decoders' arithmetic, whatever the bytes are.                       *)

Least(m, n) == IF m <= n THEN m ELSE n

\* Seven bits more, as many of them as the width has: nothing overflows.
LEMMA NextSevenBits ==
  ASSUME NEW w \in 0 .. Bits64, NEW p \in 0 .. w, NEW b \in Nat, NEW r \in Nat, r < TwoTo[p]
  PROVE  /\ r + Shifted(b, p, w) \in Nat
         /\ r + Shifted(b, p, w) < TwoTo[Least(p + 7, w)]
  <1>1. p \in 0 .. Bits64 /\ w - p \in 0 .. Bits64
    BY Widths
  <1>2. /\ TwoTo[p] \in Nat /\ TwoTo[w] \in Nat
        /\ TwoTo[w - p] \in Nat /\ TwoTo[w - p] >= 1
    BY <1>1, PowerType
  <1>3. Shifted(b, p, w) \in Nat /\ Shifted(b, p, w) <= TwoTo[w] - TwoTo[p]
    BY ShiftedType
  <1>4. CASE p + 7 <= w
    <2>1. Least(p + 7, w) = p + 7 /\ p + 7 <= Bits64
      BY <1>4, Widths DEF Least
    <2>2. TwoTo[p + 7] = 128 * TwoTo[p]
      BY <2>1, SevenBits
    <2> DEFINE unit == TwoTo[p]
               low == (b % 128) % TwoTo[w - p]
    <2>3. low \in 0 .. 127
      <3>1. b % 128 \in 0 .. 127
        OBVIOUS
      <3>2. \A x, y \in Nat : y >= 1 => x % y \in Nat /\ x % y <= x
        BY SMTT(30)
      <3>3. b % 128 \in Nat /\ low \in Nat /\ low <= b % 128
        BY <1>2, <3>1, <3>2
      <3> QED  BY <3>1, <3>3
    <2>4. Shifted(b, p, w) = low * unit
      BY DEF Shifted
    <2>5. unit \in Nat /\ r < unit
      BY <1>2
    <2> HIDE DEF low, unit
    <2>6. low * unit <= 127 * unit
      BY <2>3, <2>5, SMTT(30)
    <2>7. r + Shifted(b, p, w) < 128 * unit
      BY <1>3, <2>4, <2>5, <2>6
    <2> QED  BY <1>3, <2>1, <2>2, <2>7 DEF unit
  <1>5. CASE ~(p + 7 <= w)
    <2>1. Least(p + 7, w) = w
      BY <1>5 DEF Least
    <2> QED  BY <1>2, <1>3, <2>1
  <1> QED  BY <1>4, <1>5

\* Of w bits no number exceeds 64.
LEMMA WidthsAreUint64 ==
  ASSUME NEW w \in 0 .. Bits64, NEW r \in Nat, r < TwoTo[w]
  PROVE  r \in Uint64
  <1>1. TwoTo[w] <= TwoTo[Bits64] /\ TwoTo[w] \in Nat /\ TwoTo[Bits64] \in Nat
    BY PowersGrow, PowerType, Widths
  <1> QED  BY <1>1 DEF Uint64

\* A varint stands for a number of 64 bits, whoever wrote it.
LEMMA VarintValueType ==
  ASSUME NEW bytes \in Seq(Byte), IsVarint(bytes)
  PROVE  VarintValue(bytes) \in Uint64
  <1> DEFINE N == Len(bytes)
  <1>1. N \in Nat /\ 7 * (N - 1) < Bits64 /\ \A i \in 1 .. N : bytes[i] \in Nat
    <2>1. \A k \in Nat : k <= (Bits64 + 6) \div 7 => 7 * (k - 1) < Bits64
      BY Widths
    <2>2. \A b \in Byte : b \in Nat
      BY DEF Byte
    <2> QED  BY <2>1, <2>2 DEF IsVarint, VarintBytes
  <1>2. PICK f \in [0 .. N -> Int] : f[0] = 0 /\ Adds(f, bytes, 0) /\ VarintValue(bytes) = f[N]
    BY <1>1, VarintValueRecursion
  <1> HIDE DEF N
  <1> DEFINE T == {i \in 0 .. N : f[i] \in Nat /\ f[i] < TwoTo[Least(7 * i, Bits64)]}
  <1>3. 0 \in T
    <2>1. 0 \in 0 .. N /\ Least(7 * 0, Bits64) = 0
      BY <1>1, Widths DEF Least
    <2> QED  BY <1>2, <2>1, PowersOfTwo
  <1>4. ASSUME NEW i \in 1 .. N, i - 1 \in T
        PROVE  i \in T
    <2> DEFINE p == 7 * (i - 1)
    <2>1. i \in 0 .. N /\ p \in 0 .. Bits64 /\ p + 7 = 7 * i /\ 0 + p = p
      BY <1>1, Widths
    <2>2. f[i] = f[i - 1] + Shifted(bytes[i], p, Bits64)
      <3>1. f[i] = f[i - 1] + Shifted(bytes[i], 0 + p, Bits64)
        BY <1>2 DEF Adds, N
      <3> QED  BY <2>1, <3>1
    <2> HIDE DEF p
    <2>3. Least(p, Bits64) = p
      BY <2>1, Widths DEF Least
    <2>4. f[i - 1] \in Nat /\ f[i - 1] < TwoTo[p]
      BY <1>4, <2>3 DEF p
    <2>5. Bits64 \in 0 .. Bits64
      BY Widths
    <2>6. f[i] \in Nat /\ f[i] < TwoTo[Least(p + 7, Bits64)]
      BY <1>1, <2>1, <2>2, <2>4, <2>5, NextSevenBits
    <2> QED  BY <2>1, <2>6
  <1>5. 0 .. N \subseteq T
    <2> HIDE DEF T
    <2> QED  BY <1>1, <1>3, <1>4, CountingInduction
  <1>6. f[N] \in Nat /\ f[N] < TwoTo[Least(7 * N, Bits64)]
    <2>1. N \in T
      BY <1>1, <1>5
    <2> QED  BY <2>1
  <1>7. Least(7 * N, Bits64) \in 0 .. Bits64
    BY <1>1, Widths DEF Least
  <1> QED  BY <1>2, <1>6, <1>7, WidthsAreUint64

IsBeginningOf(s, t) ==
  Len(s) <= Len(t) /\ \A i \in 1 .. Len(s) : s[i] = t[i]

-----------------------------------------------------------------------------
(* A message read field by field, and a varint byte by byte.               *)

\* The recursion in Encoded is a function; what it gives for the first fields
\* is the encoding of those.
LEMMA ConcatenatesByPieces ==
  ASSUME NEW N \in Nat, NEW S, NEW piece \in [1 .. N -> Seq(S)], NEW f, Concatenates(f, N, piece)
  PROVE  /\ f[0] = <<>>
         /\ \A i \in 1 .. N : f[i] = f[i - 1] \o piece[i]
  <1>1. \A i \in 0 .. N : f[i] = IF i = 0 THEN <<>> ELSE f[i - 1] \o piece[i]
    BY DEF Concatenates
  <1>2. 0 \in 0 .. N /\ \A i \in 1 .. N : i \in 0 .. N /\ i # 0
    OBVIOUS
  <1> QED  BY <1>1, <1>2

AgreeUpTo(f, g, N) == \A i \in 0 .. N : f[i] = g[i]

LEMMA SameConcatenation ==
  ASSUME NEW N \in Nat, NEW M \in 0 .. N, NEW S,
         NEW piece \in [1 .. N -> Seq(S)], NEW part \in [1 .. M -> Seq(S)],
         \A i \in 1 .. M : part[i] = piece[i],
         NEW f, Concatenates(f, N, piece), NEW g, Concatenates(g, M, part)
  PROVE  AgreeUpTo(g, f, M)
  <1> DEFINE T == {i \in 0 .. M : g[i] = f[i]}
  <1>1. f[0] = <<>> /\ \A i \in 1 .. N : f[i] = f[i - 1] \o piece[i]
    BY ConcatenatesByPieces
  <1>2. M \in Nat /\ g[0] = <<>> /\ \A i \in 1 .. M : g[i] = g[i - 1] \o part[i]
    <2>1. M \in Nat
      OBVIOUS
    <2>2. \A i \in 0 .. M : g[i] = IF i = 0 THEN <<>> ELSE g[i - 1] \o part[i]
      BY DEF Concatenates
    <2>3. 0 \in 0 .. M /\ \A i \in 1 .. M : i \in 0 .. M /\ i # 0
      OBVIOUS
    <2> QED  BY <2>1, <2>2, <2>3
  <1>3. 0 \in T
    BY <1>1, <1>2
  <1>4. ASSUME NEW i \in 1 .. M, i - 1 \in T
        PROVE  i \in T
    <2>1. i \in 1 .. N /\ i \in 0 .. M
      OBVIOUS
    <2> QED  BY <1>1, <1>2, <1>4, <2>1
  <1>5. 0 .. M \subseteq T
    <2> HIDE DEF T
    <2> QED  BY <1>2, <1>3, <1>4, CountingInduction
  <1> QED  BY <1>5 DEF AgreeUpTo

LEMMA EncodedRecursion ==
  ASSUME NEW fields \in Seq(WireFields)
  PROVE  \E f \in [0 .. Len(fields) -> Seq(Byte)] :
           /\ Concatenates(f, Len(fields), [i \in 1 .. Len(fields) |-> EncodedField(fields[i])])
           /\ Encoded(fields) = f[Len(fields)]
  <1> DEFINE N == Len(fields)
             piece == [i \in 1 .. N |-> EncodedField(fields[i])]
             Upto(f) ==
               f = [i \in 0 .. N |-> IF i = 0 THEN <<>> ELSE f[i - 1] \o EncodedField(fields[i])]
             upTo == CHOOSE f : Upto(f)
  <1>1. N \in Nat /\ piece \in [1 .. N -> Seq(Byte)]
    BY EncodedFieldType
  <1>2. \A i \in 0 .. N : i # 0 => piece[i] = EncodedField(fields[i])
    OBVIOUS
  <1>3. Encoded(fields) = upTo[N]
    BY DEF Encoded
  <1> HIDE DEF N, piece
  <1>4. \A f : Upto(f) <=> Concatenates(f, N, piece)
    BY <1>2 DEF Concatenates
  <1>5. \E f : Upto(f)
    BY <1>1, <1>4, Concatenation
  <1>6. Upto(upTo)
    BY <1>5
  <1> HIDE DEF Upto, upTo
  <1>7. upTo \in [0 .. N -> Seq(Byte)]
    BY <1>1, <1>4, <1>6, Concatenation
  <1> QED  BY <1>3, <1>4, <1>6, <1>7 DEF N, piece

\* The first k fields of a message.
FirstFields(fields, k) == SubSeq(fields, 1, k)

LEMMA FirstFieldsType ==
  ASSUME NEW S, NEW fields \in Seq(S), NEW k \in 0 .. Len(fields)
  PROVE  /\ FirstFields(fields, k) \in Seq(S) /\ Len(FirstFields(fields, k)) = k
         /\ \A i \in 1 .. k : FirstFields(fields, k)[i] = fields[i]
         /\ k = Len(fields) => FirstFields(fields, k) = fields
         /\ k = 0 => FirstFields(fields, k) = <<>>
  BY DEF FirstFields

LEMMA EncodedFieldByField ==
  ASSUME NEW fields \in Seq(WireFields), NEW k \in 0 .. Len(fields)
  PROVE  /\ k = 0 => Encoded(FirstFields(fields, k)) = <<>>
         /\ k > 0 => Encoded(FirstFields(fields, k))
                       = Encoded(FirstFields(fields, k - 1)) \o EncodedField(fields[k])
  <1> DEFINE N == Len(fields)
             piece(F) == [i \in 1 .. Len(F) |-> EncodedField(F[i])]
  <1>1. PICK f \in [0 .. N -> Seq(Byte)] : Concatenates(f, N, piece(fields)) /\ Encoded(fields) = f[N]
    BY EncodedRecursion
  <1>2. N \in Nat /\ piece(fields) \in [1 .. N -> Seq(Byte)]
        /\ \A i \in 1 .. N : piece(fields)[i] = EncodedField(fields[i])
    BY EncodedFieldType
  <1>3. ASSUME NEW m \in 0 .. N
        PROVE  Encoded(FirstFields(fields, m)) = f[m]
    <2> DEFINE F == FirstFields(fields, m)
    <2>1. F \in Seq(WireFields) /\ Len(F) = m /\ \A i \in 1 .. m : F[i] = fields[i]
      BY FirstFieldsType
    <2> HIDE DEF F
    <2>2. PICK g \in [0 .. m -> Seq(Byte)] : Concatenates(g, m, piece(F)) /\ Encoded(F) = g[m]
      BY <2>1, EncodedRecursion
    <2>3. /\ piece(F) \in [1 .. m -> Seq(Byte)]
          /\ \A i \in 1 .. m : piece(F)[i] = EncodedField(F[i])
      BY <2>1, EncodedFieldType
    <2>4. \A i \in 1 .. m : piece(F)[i] = piece(fields)[i]
      <3>1. \A i \in 1 .. m : i \in 1 .. N
        BY <1>2
      <3> QED  BY <1>2, <2>1, <2>3, <3>1
    <2> DEFINE whole == piece(fields)
               part == piece(F)
    <2> HIDE DEF piece, N
    <2>5. \A i \in 0 .. m : g[i] = f[i]
      <3>1. whole \in [1 .. N -> Seq(Byte)] /\ part \in [1 .. m -> Seq(Byte)]
            /\ (\A i \in 1 .. m : part[i] = whole[i])
            /\ Concatenates(f, N, whole) /\ Concatenates(g, m, part)
        BY <1>1, <1>2, <2>2, <2>3, <2>4
      <3> HIDE DEF whole, part
      <3>2. AgreeUpTo(g, f, m)
        BY <1>2, <3>1, SameConcatenation
      <3> QED  BY <3>2 DEF AgreeUpTo
    <2>6. m \in 0 .. m
      BY <1>2
    <2> QED  BY <2>2, <2>5, <2>6 DEF F
  <1>4. f[0] = <<>> /\ \A i \in 1 .. N : f[i] = f[i - 1] \o EncodedField(fields[i])
    <2> HIDE DEF piece, N
    <2>1. f[0] = <<>> /\ \A i \in 1 .. N : f[i] = f[i - 1] \o piece(fields)[i]
      BY <1>1, <1>2, ConcatenatesByPieces
    <2> QED  BY <1>2, <2>1
  <1>5. CASE k = 0
    BY <1>3, <1>4, <1>5
  <1>6. CASE k > 0
    <2>1. k \in 1 .. N /\ k - 1 \in 0 .. N /\ k \in 0 .. N
      BY <1>2, <1>6
    <2> QED  BY <1>3, <1>4, <1>6, <2>1
  <1> QED  BY <1>5, <1>6

LEMMA EncodedBeginsWith ==
  ASSUME NEW fields \in Seq(WireFields), NEW k \in 0 .. Len(fields)
  PROVE  /\ Encoded(FirstFields(fields, k)) \in Seq(Byte)
         /\ IsBeginningOf(Encoded(FirstFields(fields, k)), Encoded(fields))
  <1> DEFINE N == Len(fields)
             E(m) == Encoded(FirstFields(fields, m))
             T == {d \in 0 .. N : IsBeginningOf(E(N - d), Encoded(fields))}
  <1>1. N \in Nat /\ E(N) = Encoded(fields)
    BY FirstFieldsType
  <1>2. ASSUME NEW m \in 0 .. N
        PROVE  E(m) \in Seq(Byte) /\ Len(E(m)) \in Nat
    BY FirstFieldsType, EncodedType
  <1>3. ASSUME NEW m \in 1 .. N
        PROVE  IsBeginningOf(E(m - 1), E(m))
    <2>1. m \in 0 .. N /\ m - 1 \in 0 .. N /\ m > 0
      BY <1>1
    <2>2. E(m) = E(m - 1) \o EncodedField(fields[m]) /\ EncodedField(fields[m]) \in Seq(Byte)
      BY <2>1, EncodedFieldByField, EncodedFieldType
    <2>3. E(m - 1) \in Seq(Byte)
      BY <1>2, <2>1
    <2> HIDE DEF E
    <2> QED  BY <2>2, <2>3 DEF IsBeginningOf
  <1> HIDE DEF E, N
  <1>4. 0 \in T
    <2>1. 0 \in 0 .. N /\ N - 0 = N /\ N \in 0 .. N
      BY <1>1
    <2>2. IsBeginningOf(E(N), E(N))
      BY <1>2, <2>1 DEF IsBeginningOf
    <2> QED  BY <1>1, <2>1, <2>2
  <1>5. ASSUME NEW d \in 1 .. N, d - 1 \in T
        PROVE  d \in T
    <2> DEFINE m == N - d + 1
    <2>1. m \in 1 .. N /\ m \in 0 .. N /\ m - 1 \in 0 .. N /\ N - d = m - 1 /\ N - (d - 1) = m /\ d \in 0 .. N
      BY <1>1
    <2> HIDE DEF m
    <2>2. IsBeginningOf(E(m - 1), E(m)) /\ IsBeginningOf(E(m), Encoded(fields))
      BY <1>3, <1>5, <2>1
    <2>3. Len(E(m)) \in Nat /\ Len(E(m - 1)) \in Nat /\ Len(Encoded(fields)) \in Nat
      BY <1>1, <1>2, <2>1
    <2>4. IsBeginningOf(E(m - 1), Encoded(fields))
      <3>1. Len(E(m - 1)) <= Len(Encoded(fields))
        BY <2>2, <2>3 DEF IsBeginningOf
      <3>2. ASSUME NEW i \in 1 .. Len(E(m - 1))
            PROVE  E(m - 1)[i] = Encoded(fields)[i]
        <4>1. i \in 1 .. Len(E(m))
          BY <2>2, <2>3 DEF IsBeginningOf
        <4> QED  BY <2>2, <4>1 DEF IsBeginningOf
      <3> QED  BY <3>1, <3>2 DEF IsBeginningOf
    <2> QED  BY <2>1, <2>4
  <1>6. 0 .. N \subseteq T
    <2> HIDE DEF T
    <2> QED  BY <1>1, <1>4, <1>5, CountingInduction
  <1>7. N - k \in 0 .. N /\ N - (N - k) = k /\ k \in 0 .. N
    BY <1>1 DEF N
  <1>8. IsBeginningOf(E(k), Encoded(fields)) /\ E(k) \in Seq(Byte)
    BY <1>2, <1>6, <1>7
  <1> QED  BY <1>8 DEF E

\* u is the items of s and then those of t.
IsConcat(u, s, t) ==
  /\ u \in Seq(Byte) /\ Len(u) = Len(s) + Len(t)
  /\ \A i \in 1 .. Len(s) : u[i] = s[i]
  /\ \A i \in 1 .. Len(t) : u[Len(s) + i] = t[i]

LEMMA ConcatElements ==
  ASSUME NEW s \in Seq(Byte), NEW t \in Seq(Byte)
  PROVE  IsConcat(s \o t, s, t)
  <1>1. /\ s \o t \in Seq(Byte) /\ Len(s \o t) = Len(s) + Len(t)
        /\ \A i \in 1 .. Len(s) : (s \o t)[i] = s[i]
        /\ \A i \in 1 .. Len(t) : (s \o t)[Len(s) + i] = t[i]
    OBVIOUS
  <1> QED  BY <1>1 DEF IsConcat

\* A number of a field below 16 is a key of one byte and the varint.
LEMMA NumberField ==
  ASSUME NEW i \in 1 .. 15, NEW n \in Nat
  PROVE  /\ EncodedField(Number(i, n)) = <<8 * i>> \o Varint[n]
         /\ Number(i, n).tag = i /\ Number(i, n).value = n /\ Number(i, n).bytes = Varint[n]
         /\ Number(i, n) \in WireFields
  <1> DEFINE field == Number(i, n)
  <1>1. /\ field.tag = i /\ field.wireType = WT_VARINT /\ field.bytes = Varint[n] /\ field.value = n
        /\ field = [tag |-> i, wireType |-> 0, bytes |-> Varint[n], value |-> n]
    BY DEF Number, Field, WT_VARINT
  <1>2. Varint[8 * i] = <<8 * i>> /\ Varint[n] \in Seq(Byte)
    <2>1. 8 * i \in Nat /\ 8 * i < 128
      OBVIOUS
    <2> QED  BY <2>1, LastByte, VarintBySevenBits
  <1>3. 8 * field.tag + field.wireType = 8 * i /\ field.wireType # WT_STRING
    BY <1>1 DEF WT_VARINT, WT_STRING
  <1>4. <<8 * i>> \in Seq(Byte)
    BY DEF Byte
  <1>5. field \in WireFields
    BY <1>1, <1>2 DEF WireFields
  <1> HIDE DEF field
  <1>6. EncodedField(field) = (<<8 * i>> \o <<>>) \o Varint[n]
    BY <1>1, <1>2, <1>3 DEF EncodedField
  <1>7. <<8 * i>> \o <<>> = <<8 * i>>
    BY <1>4, ConcatEmptySeq
  <1> QED  BY <1>1, <1>5, <1>6, <1>7 DEF field

\* Where the k-th field of a message is, if it is a number: its key after the
\* fields before it, and its varint up to the fields after it.
FieldIsAt(fields, k, start, i, n) ==
  /\ Encoded(fields)[start + 1] = 8 * i
  /\ \A j \in 1 .. Len(Varint[n]) : Encoded(fields)[start + 1 + j] = Varint[n][j]
  /\ Len(Encoded(FirstFields(fields, k))) = start + 1 + Len(Varint[n])
  /\ start + 1 + Len(Varint[n]) <= Len(Encoded(fields))

LEMMA NumberInMessage ==
  ASSUME NEW fields \in Seq(WireFields), NEW k \in 1 .. Len(fields),
         NEW i \in 1 .. 15, NEW n \in Nat, fields[k] = Number(i, n)
  PROVE  FieldIsAt(fields, k, Len(Encoded(FirstFields(fields, k - 1))), i, n)
  <1> DEFINE before == Encoded(FirstFields(fields, k - 1))
             upTo == Encoded(FirstFields(fields, k))
             W == Encoded(fields)
             V == Varint[n]
             start == Len(before)
  <1>1. k \in 0 .. Len(fields) /\ k - 1 \in 0 .. Len(fields) /\ k > 0
    OBVIOUS
  <1>2. /\ before \in Seq(Byte) /\ upTo \in Seq(Byte) /\ W \in Seq(Byte) /\ V \in Seq(Byte)
        /\ IsBeginningOf(upTo, W)
    BY <1>1, EncodedBeginsWith, EncodedType, VarintBySevenBits
  <1>3. upTo = before \o (<<8 * i>> \o V)
    <2>1. EncodedField(fields[k]) = <<8 * i>> \o V
      <3>1. EncodedField(Number(i, n)) = <<8 * i>> \o V
        BY NumberField, Zenon
      <3> QED  BY <3>1, Zenon
    <2>2. upTo = before \o EncodedField(fields[k])
      BY <1>1, EncodedFieldByField
    <2> QED  BY <2>1, <2>2, Zenon
  <1> HIDE DEF before, upTo, W, V
  <1>4. /\ start \in Nat /\ Len(V) \in Nat /\ Len(upTo) = start + 1 + Len(V)
        /\ upTo[start + 1] = 8 * i
        /\ \A j \in 1 .. Len(V) : upTo[start + 1 + j] = V[j]
    <2> DEFINE key == <<8 * i>> \o V
    <2>1. 8 * i \in Byte
      BY DEF Byte
    <2>2. /\ key \in Seq(Byte) /\ Len(key) = 1 + Len(V) /\ key[1] = 8 * i /\ Len(V) \in Nat
          /\ \A j \in 1 .. Len(V) : key[1 + j] = V[j]
      <3> DEFINE head == <<8 * i>>
      <3>1. head \in Seq(Byte) /\ Len(head) = 1 /\ head[1] = 8 * i /\ 1 \in 1 .. 1
        BY <2>1
      <3>2. V \in Seq(Byte) /\ Len(V) \in Nat
        BY <1>2
      <3> HIDE DEF head
      <3>3. IsConcat(head \o V, head, V)
        BY <3>1, <3>2, ConcatElements
      <3>4. key = head \o V
        BY DEF head
      <3> HIDE DEF key
      <3>5. IsConcat(key, head, V)
        BY <3>3, <3>4
      <3> QED  BY <3>1, <3>2, <3>5 DEF IsConcat
    <2> HIDE DEF key
    <2>3. upTo = before \o key
      BY <1>3 DEF key
    <2>4. /\ start \in Nat /\ Len(upTo) = start + Len(key)
          /\ \A m \in 1 .. Len(key) : upTo[start + m] = key[m]
      <3>1. IsConcat(upTo, before, key)
        BY <1>2, <2>2, <2>3, ConcatElements
      <3>2. start \in Nat
        BY <1>2
      <3> QED  BY <3>1, <3>2 DEF IsConcat
    <2>5. 1 \in 1 .. Len(key) /\ \A j \in 1 .. Len(V) : 1 + j \in 1 .. Len(key) /\ start + (1 + j) = start + 1 + j
      BY <2>2, <2>4
    <2>6. Len(upTo) = start + 1 + Len(V)
      BY <2>2, <2>4
    <2>7. upTo[start + 1] = 8 * i
      BY <2>2, <2>4, <2>5
    <2>8. ASSUME NEW j \in 1 .. Len(V)
          PROVE  upTo[start + 1 + j] = V[j]
      <3>1. 1 + j \in 1 .. Len(key) /\ start + (1 + j) = start + 1 + j
        BY <2>5
      <3> QED  BY <2>2, <2>4, <3>1, Zenon
    <2> QED  BY <2>2, <2>4, <2>6, <2>7, <2>8
  <1>5. Len(W) \in Nat /\ Len(upTo) <= Len(W) /\ \A m \in 1 .. Len(upTo) : upTo[m] = W[m]
    BY <1>2 DEF IsBeginningOf
  <1>6. start + 1 \in 1 .. Len(upTo) /\ \A j \in 1 .. Len(V) : start + 1 + j \in 1 .. Len(upTo)
    BY <1>4
  <1>7. W[start + 1] = 8 * i /\ \A j \in 1 .. Len(V) : W[start + 1 + j] = V[j]
    BY <1>4, <1>5, <1>6
  <1> QED  BY <1>4, <1>5, <1>7 DEF FieldIsAt, before, upTo, W, V

\* The varint of a number of 64 bits.
LEMMA VarintOf64 ==
  ASSUME NEW n \in Uint64
  PROVE  /\ n \in Nat /\ Varint[n] \in Seq(Byte)
         /\ Len(Varint[n]) \in Nat \ {0} /\ 7 * (Len(Varint[n]) - 1) < Bits64
         /\ \A i \in 1 .. Len(Varint[n]) : Varint[n][i] < 128 <=> i = Len(Varint[n])
         /\ VarintValue(Varint[n]) = n
  <1>1. n \in Nat /\ n < TwoTo[Bits64]
    BY Uint64Type
  <1>2. Varint[n] \in Seq(Byte)
    BY <1>1, VarintBySevenBits
  <1>3. /\ Len(Varint[n]) \in Nat \ {0}
        /\ \A i \in 1 .. Len(Varint[n]) : Varint[n][i] < 128 <=> i = Len(Varint[n])
    BY <1>1, VarintShape
  <1>4. 7 * (Len(Varint[n]) - 1) < Bits64
    <2>1. Bits64 \in 1 .. Bits64
      BY Widths
    <2> QED  BY <1>1, <2>1, VarintFits
  <1>5. VarintValue(Varint[n]) = n
    BY VarintsRoundTrip
  <1> QED  BY <1>1, <1>2, <1>3, <1>4, <1>5

\* A varint read byte by byte.
LEMMA VarintByteByByte ==
  ASSUME NEW bytes \in Seq(Byte), 7 * (Len(bytes) - 1) < Bits64, NEW j \in 0 .. Len(bytes)
  PROVE  /\ j = 0 => VarintValue(SubSeq(bytes, 1, j)) = 0
         /\ j > 0 => VarintValue(SubSeq(bytes, 1, j))
                       = VarintValue(SubSeq(bytes, 1, j - 1)) + Shifted(bytes[j], 7 * (j - 1), Bits64)
  <1> DEFINE N == Len(bytes)
  <1>1. PICK f \in [0 .. N -> Int] :
          f[0] = 0 /\ Adds(f, bytes, 0) /\ VarintValue(bytes) = f[N]
    BY VarintValueRecursion
  <1>2. f[0] = 0 /\ \A i \in 1 .. N : f[i] = f[i - 1] + Shifted(bytes[i], 0 + 7 * (i - 1), Bits64)
    BY <1>1 DEF Adds
  <1>3. ASSUME NEW m \in 0 .. N
        PROVE  VarintValue(SubSeq(bytes, 1, m)) = f[m]
    <2> DEFINE part == SubSeq(bytes, 1, m)
    <2>1. part \in Seq(Byte) /\ Len(part) = m /\ \A i \in 1 .. m : part[i] = bytes[i]
      OBVIOUS
    <2>2. 7 * (m - 1) < Bits64 /\ m \in Nat
      <3>1. N \in Nat /\ 7 * (m - 1) <= 7 * (N - 1)
        OBVIOUS
      <3> QED  BY <3>1, Widths
    <2> HIDE DEF part
    <2>3. PICK g \in [0 .. m -> Int] : g[0] = 0 /\ Adds(g, part, 0) /\ VarintValue(part) = g[m]
      BY <2>1, <2>2, VarintValueRecursion
    <2>4. \A i \in 1 .. m : g[i] = g[i - 1] + Shifted(bytes[i], 0 + 7 * (i - 1), Bits64)
      BY <2>1, <2>3 DEF Adds
    <2> DEFINE U == {i \in 0 .. m : g[i] = f[i]}
    <2>5. 0 \in U
      BY <1>2, <2>2, <2>3
    <2>6. ASSUME NEW i \in 1 .. m, i - 1 \in U
          PROVE  i \in U
      <3>1. i \in 1 .. N /\ i \in 0 .. m
        OBVIOUS
      <3> QED  BY <1>2, <2>4, <2>6, <3>1
    <2>7. 0 .. m \subseteq U
      <3> HIDE DEF U
      <3> QED  BY <2>2, <2>5, <2>6, CountingInduction
    <2>8. m \in U
      BY <2>2, <2>7
    <2> QED  BY <2>3, <2>8 DEF part
  <1>4. CASE j = 0
    BY <1>2, <1>3, <1>4
  <1>5. CASE j > 0
    <2>1. j \in 1 .. N /\ j \in 0 .. N /\ j - 1 \in 0 .. N /\ 0 + 7 * (j - 1) = 7 * (j - 1)
      BY <1>5
    <2>2. f[j] = f[j - 1] + Shifted(bytes[j], 7 * (j - 1), Bits64)
      BY <1>2, <2>1
    <2> QED  BY <1>3, <1>5, <2>1, <2>2
  <1> QED  BY <1>4, <1>5
================================================================================
