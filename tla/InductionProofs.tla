--------------------------- MODULE InductionProofs ---------------------------
(***************************************************************************)
(* Induction and recursion on natural numbers, for sets and functions      *)
(* instead of operators: what is to be shown of each number is given as    *)
(* the set of the numbers of which it is true.                             *)
(***************************************************************************)
EXTENDS Integers, WellFoundedInduction, TLAPS

-----------------------------------------------------------------------------
(* Induction.                                                              *)

\* A set of natural numbers that is not empty has a least one.
LEMMA LeastNumber ==
  ASSUME NEW S \in SUBSET Nat, S # {}
  PROVE  \E x \in S : \A y \in S : x <= y
  <1>1. PICK x \in S : \A y \in S : ~(<<y, x>> \in OpToRel(<, Nat))
    BY NatLessThanWellFounded, WFMin, Zenon
  <1>2. ASSUME NEW y \in S
        PROVE  x <= y
    <2>1. ~(<<y, x>> \in OpToRel(<, Nat))
      BY <1>1
    <2>2. x \in Nat /\ y \in Nat
      OBVIOUS
    <2>3. ~(y < x)
      BY <2>1, <2>2 DEF OpToRel
    <2> QED  BY <2>2, <2>3
  <1> QED  BY <1>2

\* A set is everything if it has each number below which it has all others.
LEMMA StrongInduction ==
  ASSUME NEW T,
         \A n \in Nat : (\A m \in Nat : m < n => m \in T) => n \in T
  PROVE  Nat \subseteq T
  <1> DEFINE counterexamples == Nat \ T
  <1> SUFFICES ASSUME counterexamples # {}
               PROVE  FALSE
    OBVIOUS
  <1>1. PICK n \in counterexamples : \A m \in counterexamples : n <= m
    BY LeastNumber
  <1>2. \A m \in Nat : m < n => m \in T
    BY <1>1
  <1> QED  BY <1>1, <1>2

\* The same by steps of one.
LEMMA Induction ==
  ASSUME NEW T, 0 \in T, \A n \in Nat : n \in T => n + 1 \in T
  PROVE  Nat \subseteq T
  <1> SUFFICES ASSUME NEW n \in Nat, \A m \in Nat : m < n => m \in T
               PROVE  n \in T
    BY StrongInduction
  <1>1. CASE n = 0
    BY <1>1
  <1>2. CASE n # 0
    <2>1. n - 1 \in Nat /\ n - 1 < n /\ (n - 1) + 1 = n
      BY <1>2
    <2> QED  BY <2>1
  <1> QED  BY <1>1, <1>2

-----------------------------------------------------------------------------
(* Recursion: a function on D whose value at n comes from that at less[n], *)
(* if that is smaller, and is base[n] otherwise.                           *)

Recursive(D, less, n) == less[n] \in D /\ less[n] < n

Solves(f, D, base, less, step) ==
  \A n \in D :
    f[n] = IF Recursive(D, less, n) THEN step[<<n, f[less[n]]>>] ELSE base[n]

\* The part of D that is not above n.
UpTo(D, n) == {d \in D : d <= n}

LEMMA RecursiveFunction ==
  ASSUME NEW D \in SUBSET Nat, NEW S, NEW less,
         NEW base \in [D -> S], NEW step \in [D \X S -> S]
  PROVE  \E f \in [D -> S] : Solves(f, D, base, less, step)
  <1> DEFINE Parts(n) == {g \in [UpTo(D, n) -> S] : Solves(g, UpTo(D, n), base, less, step)}
  <1>1. ASSUME NEW n \in Nat, NEW m \in Nat, m <= n, NEW d \in D, d <= m
        PROVE  /\ d \in UpTo(D, n) /\ d \in UpTo(D, m)
               /\ Recursive(UpTo(D, n), less, d) <=> Recursive(D, less, d)
               /\ Recursive(D, less, d) => less[d] \in UpTo(D, m) /\ less[d] < d
    <2>1. d \in Nat /\ d <= n
      BY <1>1
    <2>2. \A e \in D : e < d => e <= n /\ e <= m
      BY <1>1, <2>1
    <2> QED  BY <1>1, <2>1, <2>2 DEF UpTo, Recursive
  <1>2. ASSUME NEW n \in Nat, NEW m \in Nat, m <= n, NEW g \in Parts(n), NEW h \in Parts(m),
               NEW d \in D, d <= m
        PROVE  g[d] = h[d]
    <2> DEFINE T == {i \in Nat : i \in D /\ i <= m => g[i] = h[i]}
    <2>1. ASSUME NEW i \in Nat, \A j \in Nat : j < i => j \in T
          PROVE  i \in T
      <3> SUFFICES ASSUME i \in D, i <= m
                   PROVE  g[i] = h[i]
        OBVIOUS
      <3>1. /\ i \in UpTo(D, n) /\ i \in UpTo(D, m)
            /\ Recursive(UpTo(D, n), less, i) <=> Recursive(D, less, i)
            /\ Recursive(UpTo(D, m), less, i) <=> Recursive(D, less, i)
            /\ Recursive(D, less, i) => less[i] \in UpTo(D, m) /\ less[i] < i
        BY <1>1, <1>2
      <3>2. /\ g[i] = IF Recursive(D, less, i) THEN step[<<i, g[less[i]]>>] ELSE base[i]
            /\ h[i] = IF Recursive(D, less, i) THEN step[<<i, h[less[i]]>>] ELSE base[i]
        BY <3>1 DEF Solves
      <3>3. Recursive(D, less, i) => g[less[i]] = h[less[i]]
        BY <2>1, <3>1 DEF UpTo
      <3> QED  BY <3>2, <3>3
    <2>2. Nat \subseteq T
      BY <2>1, StrongInduction
    <2> QED  BY <1>2, <2>2
  <1>3. \A n \in Nat : Parts(n) # {}
    <2> DEFINE T == {n \in Nat : Parts(n) # {}}
    <2>1. ASSUME NEW n \in Nat, \A m \in Nat : m < n => m \in T
          PROVE  n \in T
      <3>1. PICK g : n # 0 => g \in Parts(n - 1)
        <4>1. CASE n # 0
          BY <2>1, <4>1
        <4> QED  BY <4>1
      <3> DEFINE h == [d \in UpTo(D, n) |->
                         IF d < n THEN g[d]
                         ELSE IF Recursive(D, less, d) THEN step[<<d, g[less[d]]>>] ELSE base[d]]
      <3>2. ASSUME NEW d \in UpTo(D, n)
            PROVE  /\ h[d] \in S
                   /\ h[d] = IF Recursive(UpTo(D, n), less, d) THEN step[<<d, h[less[d]]>>] ELSE base[d]
        <4>1. d \in D /\ d \in Nat /\ d <= n
          BY DEF UpTo
        <4>2. /\ Recursive(UpTo(D, n), less, d) <=> Recursive(D, less, d)
              /\ Recursive(D, less, d) => less[d] \in UpTo(D, n) /\ less[d] < d
          BY <1>1, <4>1
        <4>3. ASSUME NEW e \in D, e < n
              PROVE  e \in UpTo(D, n - 1) /\ g \in Parts(n - 1) /\ g[e] \in S /\ h[e] = g[e]
          <5>1. n # 0 /\ e <= n - 1 /\ e <= n
            BY <4>3
          <5> QED  BY <3>1, <5>1, <4>3 DEF UpTo
        <4>4. Recursive(D, less, d) => less[d] \in D /\ less[d] < n
          <5>1. \A e \in D : e < d => e < n
            BY <4>1
          <5> QED  BY <4>2, <5>1 DEF UpTo
        <4>5. Recursive(D, less, d) => h[less[d]] = g[less[d]] /\ g[less[d]] \in S
          BY <4>3, <4>4
        <4>6. CASE d < n
          <5>1. /\ d \in UpTo(D, n - 1) /\ g \in Parts(n - 1) /\ g[d] \in S /\ h[d] = g[d]
            BY <4>1, <4>3, <4>6
          <5>2. Recursive(UpTo(D, n - 1), less, d) <=> Recursive(D, less, d)
            BY <1>1, <4>1, <4>6
          <5>3. g[d] = IF Recursive(D, less, d) THEN step[<<d, g[less[d]]>>] ELSE base[d]
            BY <5>1, <5>2 DEF Solves
          <5> QED  BY <4>2, <4>5, <5>1, <5>3
        <4>7. CASE ~(d < n)
          <5>1. h[d] = IF Recursive(D, less, d) THEN step[<<d, g[less[d]]>>] ELSE base[d]
            BY <4>7
          <5> QED  BY <4>1, <4>2, <4>5, <5>1
        <4> QED  BY <4>6, <4>7
      <3>3. h \in Parts(n)
        BY <3>2 DEF Solves
      <3> QED  BY <3>3
    <2> QED  BY <2>1, StrongInduction
  <1> DEFINE part == [n \in Nat |-> CHOOSE g : g \in Parts(n)]
             f == [d \in D |-> part[d][d]]
  <1>4. \A n \in Nat : part[n] \in Parts(n)
    BY <1>3
  <1> HIDE DEF part, Parts
  <1>5. ASSUME NEW d \in D
        PROVE  /\ f[d] \in S
               /\ f[d] = IF Recursive(D, less, d) THEN step[<<d, f[less[d]]>>] ELSE base[d]
    <2>1. /\ d \in Nat /\ d \in UpTo(D, d)
          /\ Recursive(UpTo(D, d), less, d) <=> Recursive(D, less, d)
          /\ Recursive(D, less, d) => less[d] \in UpTo(D, d) /\ less[d] < d
      BY <1>1
    <2>2. /\ f[d] = part[d][d]
          /\ part[d] \in [UpTo(D, d) -> S]
          /\ part[d][d] = IF Recursive(D, less, d) THEN step[<<d, part[d][less[d]]>>] ELSE base[d]
      BY <1>4, <2>1 DEF Solves, Parts
    <2>3. ASSUME Recursive(D, less, d)
          PROVE  f[less[d]] = part[d][less[d]]
      <3>1. less[d] \in D /\ less[d] \in Nat /\ less[d] <= d
        BY <2>1, <2>3 DEF UpTo
      <3>2. part[d][less[d]] = part[less[d]][less[d]]
        BY <1>2, <1>4, <2>1, <3>1 DEF Parts
      <3> QED  BY <3>1, <3>2
    <2> QED  BY <2>1, <2>2, <2>3
  <1> QED  BY <1>5 DEF Solves

-----------------------------------------------------------------------------
(* Counting: induction and recursion over 0 .. N.                          *)

Counts(f, N, start, step) ==
  f[0] = start /\ \A n \in 1 .. N : f[n] = step[<<n, f[n - 1]>>]

LEMMA CountingInduction ==
  ASSUME NEW N \in Nat, NEW T, 0 \in T, \A n \in 1 .. N : n - 1 \in T => n \in T
  PROVE  0 .. N \subseteq T
  <1> DEFINE U == {n \in Nat : n <= N => n \in T}
  <1>1. 0 \in U
    OBVIOUS
  <1>2. ASSUME NEW n \in Nat, n \in U
        PROVE  n + 1 \in U
    <2> SUFFICES ASSUME n + 1 <= N
                 PROVE  n + 1 \in T
      OBVIOUS
    <2>1. n + 1 \in 1 .. N /\ (n + 1) - 1 = n /\ n \in T
      BY <1>2
    <2> QED  BY <2>1
  <1>3. Nat \subseteq U
    BY <1>1, <1>2, Induction
  <1> QED  BY <1>3

LEMMA CountingFunction ==
  ASSUME NEW N \in Nat, NEW S, NEW start \in S, NEW step \in [(1 .. N) \X S -> S]
  PROVE  \E f \in [0 .. N -> S] : Counts(f, N, start, step)
  <1> DEFINE D == 0 .. N
             less == [n \in D |-> n - 1]
             base == [n \in D |-> start]
             steps == [x \in D \X S |-> IF x[1] = 0 THEN start ELSE step[x]]
  <1>1. ASSUME NEW n \in D, NEW s \in S
        PROVE  /\ steps[<<n, s>>] = IF n = 0 THEN start ELSE step[<<n, s>>]
               /\ n # 0 => step[<<n, s>>] \in S
    OBVIOUS
  <1>2. D \in SUBSET Nat /\ base \in [D -> S]
    OBVIOUS
  <1>3. steps \in [D \X S -> S]
    <2>1. ASSUME NEW x \in D \X S
          PROVE  steps[x] \in S
      <3>1. x = <<x[1], x[2]>> /\ x[1] \in D /\ x[2] \in S
        OBVIOUS
      <3> QED  BY <1>1, <3>1
    <2> QED  BY <2>1
  <1> HIDE DEF steps, base
  <1>4. PICK f \in [D -> S] : Solves(f, D, base, less, steps)
    BY <1>2, <1>3, RecursiveFunction
  <1>5. ASSUME NEW n \in D
        PROVE  f[n] = IF Recursive(D, less, n) THEN steps[<<n, f[less[n]]>>] ELSE base[n]
    BY <1>4 DEF Solves
  <1>6. f[0] = start
    <2>1. 0 \in D /\ less[0] = -1 /\ ~Recursive(D, less, 0)
      BY DEF Recursive
    <2> QED  BY <1>5, <2>1 DEF base
  <1>7. ASSUME NEW n \in 1 .. N
        PROVE  f[n] = step[<<n, f[n - 1]>>]
    <2>1. n \in D /\ n # 0 /\ less[n] = n - 1 /\ Recursive(D, less, n) /\ f[n - 1] \in S
      BY DEF Recursive
    <2> QED  BY <1>1, <1>5, <2>1
  <1> QED  BY <1>6, <1>7 DEF Counts
=============================================================================
