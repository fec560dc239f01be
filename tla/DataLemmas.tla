----------------------------- MODULE DataLemmas -----------------------------
(***************************************************************************)
(* What the proofs need to know of the data that the models are about:     *)
(* sequences, how often a value occurs in one, functions that are defined  *)
(* by recursion, division, and the rounds of a loop.                       *)
(***************************************************************************)
EXTENDS Integers, Sequences, FiniteSets, TLAPS,
        SequenceTheorems, FiniteSetTheorems, WellFoundedInduction

-----------------------------------------------------------------------------
(* Sequences.                                                              *)

(* The first n elements of a sequence. *)
LEMMA Prefix ==
  ASSUME NEW S, NEW s \in Seq(S), NEW n \in 0 .. Len(s)
  PROVE  /\ SubSeq(s, 1, n) \in Seq(S)
         /\ Len(SubSeq(s, 1, n)) = n
         /\ \A i \in 1 .. n : SubSeq(s, 1, n)[i] = s[i]
<1>1. Len(s) \in Nat
  BY LenProperties
<1>2. \A i \in 1 .. n : s[i] \in S
  BY <1>1, ElementOfSeq
<1> QED
  BY <1>1, <1>2, SubSeqProperties

(* A function on 1 .. n is a sequence of length n. *)
LEMMA FunctionIsSeq ==
  ASSUME NEW S, NEW n \in Nat, NEW f \in [1 .. n -> S]
  PROVE  f \in Seq(S) /\ Len(f) = n
<1>1. f \in Seq(S)
  BY SeqDef
<1>2. 1 .. Len(f) = 1 .. n /\ Len(f) \in Nat
  BY <1>1, LenProperties
<1>3. Len(f) <= n
  <2>1. CASE Len(f) = 0
    BY <2>1
  <2>2. CASE Len(f) # 0
    <3>1. Len(f) \in 1 .. Len(f)
      BY <1>2, <2>2
    <3> QED
      BY <1>2, <3>1
  <2> QED
    BY <2>1, <2>2
<1>4. n <= Len(f)
  <2>1. CASE n = 0
    BY <1>2, <2>1
  <2>2. CASE n # 0
    <3>1. n \in 1 .. n
      BY <2>2
    <3> QED
      BY <1>2, <3>1
  <2> QED
    BY <2>1, <2>2
<1> QED
  BY <1>1, <1>2, <1>3, <1>4

(* A sequence that is not empty is its first element and the others. *)
LEMMA HeadAndTail ==
  ASSUME NEW S, NEW s \in Seq(S), s # <<>>
  PROVE  /\ s[1] \in S /\ Tail(s) \in Seq(S)
         /\ Len(s) \in Nat \ {0} /\ Len(Tail(s)) = Len(s) - 1
         /\ s = <<s[1]>> \o Tail(s)
<1>1. Len(s) \in Nat \ {0}
  BY EmptySeq
<1>2. s[1] \in S
  BY <1>1, ElementOfSeq
<1>3. /\ Tail(s) \in Seq(S) /\ Len(Tail(s)) = Len(s) - 1
      /\ \A i \in 1 .. Len(Tail(s)) : Tail(s)[i] = s[i + 1]
  BY HeadTailProperties
<1> DEFINE one == <<s[1]>>
<1>4. one \in Seq(S) /\ Len(one) = 1 /\ one[1] = s[1]
  BY <1>2
<1> HIDE DEF one
<1> DEFINE rest == Tail(s)
<1>5. /\ rest \in Seq(S) /\ Len(rest) = Len(s) - 1
      /\ \A i \in 1 .. Len(rest) : rest[i] = s[i + 1]
  BY <1>3
<1> HIDE DEF rest
<1>6. /\ one \o rest \in Seq(S) /\ Len(one \o rest) = Len(one) + Len(rest)
      /\ \A i \in 1 .. Len(one) + Len(rest) : (one \o rest)[i] =
           IF i <= Len(one) THEN one[i] ELSE rest[i - Len(one)]
  <2>1. \A a, b \in Seq(S) :
          /\ a \o b \in Seq(S) /\ Len(a \o b) = Len(a) + Len(b)
          /\ \A i \in 1 .. Len(a) + Len(b) : (a \o b)[i] =
               IF i <= Len(a) THEN a[i] ELSE b[i - Len(a)]
    BY ConcatProperties
  <2>2. one \in Seq(S) /\ rest \in Seq(S)
    BY <1>4, <1>5
  <2> QED
    BY <2>1, <2>2
<1>7. Len(one \o rest) = Len(s) /\ \A i \in 1 .. Len(s) : s[i] = (one \o rest)[i]
  BY <1>1, <1>4, <1>5, <1>6
<1>8. s = one \o rest
  BY <1>6, <1>7, SeqEqual
<1> QED
  BY <1>1, <1>2, <1>3, <1>8 DEF one, rest

(* How often a value occurs in a sequence. *)
Occurrences(s, v) == Cardinality({i \in DOMAIN s : s[i] = v})

(* It occurs in two sequences as often as in one and in the other. *)
LEMMA OccurrencesConcat ==
  ASSUME NEW S, NEW s \in Seq(S), NEW t \in Seq(S), NEW v
  PROVE  /\ Occurrences(s, v) \in Nat /\ Occurrences(t, v) \in Nat
         /\ Occurrences(s \o t, v) = Occurrences(s, v) + Occurrences(t, v)
<1> DEFINE m == Len(s)
           n == Len(t)
           u == s \o t
           A == {i \in 1 .. m : s[i] = v}
           B == {i \in 1 .. n : t[i] = v}
           C == {i \in 1 .. m + n : u[i] = v}
           D == {i \in C : i > m}
           f == [i \in B |-> m + i]
<1>1. /\ m \in Nat /\ n \in Nat /\ DOMAIN s = 1 .. m /\ DOMAIN t = 1 .. n
      /\ DOMAIN u = 1 .. m + n
      /\ \A i \in 1 .. m + n : u[i] = IF i <= m THEN s[i] ELSE t[i - m]
  <2>1. m \in Nat /\ n \in Nat /\ DOMAIN s = 1 .. m /\ DOMAIN t = 1 .. n
    BY LenProperties
  <2>2. /\ u \in Seq(S) /\ Len(u) = m + n
        /\ \A i \in 1 .. m + n : u[i] = IF i <= m THEN s[i] ELSE t[i - m]
    BY ConcatProperties
  <2> QED
    BY <2>1, <2>2, LenProperties
<1> HIDE DEF m, n, u
<1>2. /\ IsFiniteSet(A) /\ IsFiniteSet(B) /\ IsFiniteSet(D)
  <2>1. IsFiniteSet(1 .. m) /\ IsFiniteSet(1 .. n) /\ IsFiniteSet(1 .. m + n)
    BY <1>1, FS_Interval
  <2>2. A \in SUBSET (1 .. m) /\ B \in SUBSET (1 .. n) /\ D \in SUBSET (1 .. m + n)
    OBVIOUS
  <2> QED
    BY <2>1, <2>2, FS_Subset
<1>3. C = A \cup D /\ A \cap D = {}
  BY <1>1
<1>4. f \in Bijection(B, D)
  <2>1. f \in [B -> D]
    <3>1. ASSUME NEW i \in B PROVE m + i \in D
      BY <1>1
    <3> QED
      BY <3>1
  <2>2. \A i, j \in B : f[i] = f[j] => i = j
    BY <1>1
  <2>3. \A k \in D : \E i \in B : f[i] = k
    <3> SUFFICES ASSUME NEW k \in D PROVE k - m \in B /\ f[k - m] = k
      OBVIOUS
    <3>1. k - m \in B
      BY <1>1
    <3> QED
      BY <1>1, <3>1
  <2> HIDE DEF f
  <2> QED
    BY <2>1, <2>2, <2>3 DEF Bijection, Injection, Surjection, IsInjective
<1>5. Cardinality(D) = Cardinality(B)
  <2>1. ExistsBijection(B, D)
    BY <1>4 DEF ExistsBijection
  <2> HIDE DEF B, D
  <2> QED
    BY <1>2, <2>1, FS_Bijection
<1>6. /\ Cardinality(A) \in Nat /\ Cardinality(B) \in Nat
      /\ Cardinality(C) = Cardinality(A) + Cardinality(B)
  <2>1. Cardinality(A) \in Nat /\ Cardinality(B) \in Nat
    BY <1>2, FS_CardinalityType
  <2>2. Cardinality(A \cup D) = Cardinality(A) + Cardinality(D) - Cardinality(A \cap D)
    <3> HIDE DEF A, D
    <3> QED
      BY <1>2, FS_Union
  <2>3. Cardinality(A \cap D) = 0
    BY <1>3, FS_EmptySet
  <2> HIDE DEF A, B, C, D
  <2> QED
    BY <1>3, <1>5, <2>1, <2>2, <2>3
<1>7. Occurrences(s, v) = Cardinality(A) /\ Occurrences(t, v) = Cardinality(B)
      /\ Occurrences(u, v) = Cardinality(C)
  BY <1>1 DEF Occurrences
<1> HIDE DEF A, B, C
<1> QED
  BY <1>6, <1>7 DEF u

LEMMA ShortSequences ==
  ASSUME NEW S, NEW a \in S, NEW b \in S, NEW c \in S
  PROVE  {<<a>>, <<a, b>>, <<a, b, c>>} \subseteq Seq(S)
OBVIOUS

(* One element in front of a sequence. *)
LEMMA InFrontOf ==
  ASSUME NEW S, NEW p \in S, NEW ps \in Seq(S)
  PROVE  LET w == <<p>> \o ps
         IN  /\ w \in Seq(S) /\ w # <<>> /\ Len(w) = Len(ps) + 1 /\ w[1] = p
             /\ \A i \in 1 .. Len(ps) : w[i + 1] = ps[i]
<1> DEFINE one == <<p>>
           w == one \o ps
           n == Len(ps)
<1>1. one \in Seq(S) /\ Len(one) = 1 /\ one[1] = p
  OBVIOUS
<1> HIDE DEF one
<1>2. w \in Seq(S) /\ Len(w) = 1 + n /\ \A i \in 1 .. 1 + n : w[i] = IF i <= 1 THEN one[i] ELSE ps[i - 1]
  BY <1>1, ConcatProperties, SMTT(40)
<1>3. n \in Nat
  BY LenProperties
<1> HIDE DEF w, n
<1>4. Len(w) = n + 1 /\ w[1] = p
  <2>1. 1 \in 1 .. 1 + n /\ 1 <= 1 /\ 1 + n = n + 1
    BY <1>3
  <2> QED
    BY <1>1, <1>2, <2>1
<1>5. \A i \in 1 .. n : w[i + 1] = ps[i]
  <2>1. \A i \in 1 .. n : i + 1 \in 1 .. 1 + n /\ ~ (i + 1 <= 1) /\ (i + 1) - 1 = i
    BY <1>3
  <2> QED
    BY <1>2, <2>1
<1>6. w # <<>>
  BY <1>2, <1>3, <1>4, EmptySeq
<1> QED
  BY <1>2, <1>4, <1>5, <1>6 DEF w, one, n

(* What is where in a sequence made of two. *)
LEMMA ConcatParts ==
  ASSUME NEW S, NEW s \in Seq(S), NEW x \in Seq(S)
  PROVE  /\ s \o x \in Seq(S) /\ Len(s \o x) = Len(s) + Len(x)
         /\ \A i \in 1 .. Len(s) : (s \o x)[i] = s[i]
         /\ \A i \in 1 .. Len(x) : (s \o x)[Len(s) + i] = x[i]
<1> DEFINE w == s \o x
           m == Len(s)
           n == Len(x)
<1>1. m \in Nat /\ n \in Nat
  BY LenProperties
<1>2. w \in Seq(S) /\ Len(w) = m + n /\ \A i \in 1 .. m + n : w[i] = IF i <= m THEN s[i] ELSE x[i - m]
  BY ConcatProperties
<1> HIDE DEF w, m, n
<1>3. \A i \in 1 .. m : i \in 1 .. m + n /\ i <= m
  BY <1>1
<1>4. \A i \in 1 .. n : m + i \in 1 .. m + n /\ ~ (m + i <= m) /\ (m + i) - m = i
  BY <1>1
<1>5. (\A i \in 1 .. m : w[i] = s[i]) /\ \A i \in 1 .. n : w[m + i] = x[i]
  BY <1>2, <1>3, <1>4
<1> QED
  BY <1>2, <1>5 DEF w, m, n

-----------------------------------------------------------------------------
(* Recursion.                                                              *)

(* A set of naturals has a least member: induction, without an operator as *)
(* a parameter.                                                            *)
LEMMA Least ==
  ASSUME NEW S \in SUBSET Nat, S # {}
  PROVE  \E m \in S : \A k \in S : m <= k
<1>1. PICK m \in S : \A k \in S : <<k, m>> \notin OpToRel(<, Nat)
  BY NatLessThanWellFounded, WFMin
<1>2. \A k \in S : ~ (k < m)
  BY <1>1 DEF OpToRel
<1> QED
  BY <1>2

(* One that is bounded has a greatest member. *)
LEMMA Greatest ==
  ASSUME NEW n \in Nat, NEW S \in SUBSET (0 .. n), S # {}
  PROVE  \E m \in S : \A k \in S : k <= m
<1> DEFINE T == {n - k : k \in S}
<1>1. T \in SUBSET Nat /\ T # {}
  <2>1. \A k \in S : n - k \in Nat
    OBVIOUS
  <2>2. PICK k \in S : n - k \in T
    OBVIOUS
  <2> QED
    BY <2>1, <2>2
<1>2. PICK m \in T : \A k \in T : m <= k
  <2> HIDE DEF T
  <2> QED
    BY <1>1, Least
<1>3. n - m \in S
  BY <1>2
<1>4. \A k \in S : k <= n - m
  BY <1>2
<1> QED
  BY <1>3, <1>4

(* Two sequences agree up to a first place where one of them ends or they  *)
(* differ.                                                                 *)
Agree(s, t, i) == i \in Nat /\ i <= Len(s) /\ i <= Len(t) /\ \A j \in 1 .. i : s[j] = t[j]
Parted(s, t, i) == i = Len(s) \/ i = Len(t) \/ s[i + 1] # t[i + 1]

LEMMA FirstDifference ==
  ASSUME NEW D, NEW s \in Seq(D), NEW t \in Seq(D)
  PROVE  \E i : Agree(s, t, i) /\ Parted(s, t, i)
<1> DEFINE S == {i \in Nat : Parted(s, t, i)}
<1>1. Len(s) \in Nat /\ Len(t) \in Nat
  BY LenProperties
<1>2. Len(s) \in S /\ Len(t) \in S
  BY <1>1 DEF Parted
<1>3. PICK i \in S : \A k \in S : i <= k
  BY <1>2, Least
<1>4. i \in Nat /\ i <= Len(s) /\ i <= Len(t)
  BY <1>2, <1>3
<1>5. ASSUME NEW j \in 1 .. i PROVE s[j] = t[j]
  <2>1. j - 1 \in Nat /\ ~ (i <= j - 1) /\ (j - 1) + 1 = j
    BY <1>4
  <2>2. ~ Parted(s, t, j - 1)
    BY <1>3, <2>1
  <2> QED
    BY <2>1, <2>2 DEF Parted
<1> QED
  BY <1>3, <1>4, <1>5 DEF Agree

(* Functions that are defined by recursion exist: step gives the value for *)
(* x from the values for smaller arguments.                                *)
SolvesUpTo(S, rank, step, f, n) == \A x \in S : rank[x] < n => f[x] = step[<<x, f>>]

LooksBelow(S, T, rank, step) ==
  \A x \in S, f, g \in [S -> T] :
    (\A y \in S : rank[y] < rank[x] => f[y] = g[y]) => step[<<x, f>>] = step[<<x, g>>]

LEMMA RecursionUpTo ==
  ASSUME NEW S, NEW T, NEW rank \in [S -> Nat], NEW step \in [S \X [S -> T] -> T],
         LooksBelow(S, T, rank, step), NEW t \in T, NEW n \in Nat
  PROVE  \E f \in [S -> T] : SolvesUpTo(S, rank, step, f, n)
<1> DEFINE Bad == {k \in Nat : ~ \E f \in [S -> T] : SolvesUpTo(S, rank, step, f, k)}
<1> SUFFICES ASSUME Bad # {} PROVE FALSE
  OBVIOUS
<1>1. PICK k \in Bad : \A j \in Bad : k <= j
  <2>1. Bad \in SUBSET Nat
    OBVIOUS
  <2> HIDE DEF Bad
  <2> QED
    BY <2>1, Least
<1>2. CASE k = 0
  <2>1. [x \in S |-> t] \in [S -> T] /\ SolvesUpTo(S, rank, step, [x \in S |-> t], 0)
    BY DEF SolvesUpTo
  <2> QED
    BY <1>1, <1>2, <2>1
<1>3. CASE k # 0
  <2>1. k - 1 \in Nat /\ k - 1 \notin Bad /\ k \in Nat
    BY <1>1, <1>3
  <2>2. PICK f \in [S -> T] : SolvesUpTo(S, rank, step, f, k - 1)
    BY <2>1
  <2> DEFINE g == [x \in S |-> IF rank[x] < k - 1 THEN f[x] ELSE step[<<x, f>>]]
  <2>3. g \in [S -> T]
    <3>1. \A x \in S : step[<<x, f>>] \in T /\ f[x] \in T
      OBVIOUS
    <3> QED
      BY <3>1
  <2>4. \A x \in S : g[x] = IF rank[x] < k - 1 THEN f[x] ELSE step[<<x, f>>]
    OBVIOUS
  <2> HIDE DEF g
  <2>5. ASSUME NEW x \in S, rank[x] < k PROVE g[x] = step[<<x, g>>]
    <3>1. g[x] = step[<<x, f>>]
      BY <2>2, <2>4 DEF SolvesUpTo
    <3>2. \A y \in S : rank[y] < rank[x] => g[y] = f[y]
      <4> SUFFICES ASSUME NEW y \in S, rank[y] < rank[x] PROVE g[y] = f[y]
        OBVIOUS
      <4>1. rank[y] \in Nat /\ rank[x] \in Nat
        OBVIOUS
      <4>2. rank[y] < k - 1
        BY <2>1, <2>5, <4>1
      <4> QED
        BY <2>4, <4>2
    <3>3. step[<<x, g>>] = step[<<x, f>>]
      BY <2>3, <3>2 DEF LooksBelow
    <3> QED
      BY <3>1, <3>3
  <2>6. SolvesUpTo(S, rank, step, g, k)
    BY <2>5 DEF SolvesUpTo
  <2> QED
    BY <1>1, <2>3, <2>6
<1> QED
  BY <1>2, <1>3

IsRecursion(S, T, rank, step) ==
  /\ T # {}
  /\ rank \in [S -> Nat]
  /\ step \in [S \X [S -> T] -> T]
  /\ LooksBelow(S, T, rank, step)

LEMMA Recursion ==
  ASSUME NEW S, NEW T, NEW rank, NEW step, IsRecursion(S, T, rank, step)
  PROVE  \E f \in [S -> T] : \A x \in S : f[x] = step[<<x, f>>]
<1> SUFFICES ASSUME rank \in [S -> Nat], step \in [S \X [S -> T] -> T],
                    LooksBelow(S, T, rank, step), NEW t \in T
             PROVE  \E f \in [S -> T] : \A x \in S : f[x] = step[<<x, f>>]
  BY DEF IsRecursion
<1> DEFINE F(n) == CHOOSE f \in [S -> T] : SolvesUpTo(S, rank, step, f, n)
           h == [x \in S |-> F(rank[x] + 1)[x]]
<1>1. ASSUME NEW n \in Nat PROVE F(n) \in [S -> T] /\ SolvesUpTo(S, rank, step, F(n), n)
  <2>1. \E f \in [S -> T] : SolvesUpTo(S, rank, step, f, n)
    BY RecursionUpTo
  <2> QED
    BY <2>1
<1>same. ASSUME NEW f \in [S -> T], NEW g \in [S -> T], NEW n \in Nat,
                SolvesUpTo(S, rank, step, f, n), SolvesUpTo(S, rank, step, g, n)
         PROVE  \A x \in S : rank[x] < n => f[x] = g[x]
  <2> DEFINE Bad == {k \in Nat : \E x \in S : rank[x] = k /\ k < n /\ f[x] # g[x]}
  <2> SUFFICES ASSUME Bad # {} PROVE FALSE
    OBVIOUS
  <2>1. PICK k \in Bad : \A j \in Bad : k <= j
    <3>1. Bad \in SUBSET Nat
      OBVIOUS
    <3> HIDE DEF Bad
    <3> QED
      BY <3>1, Least
  <2>2. PICK x \in S : rank[x] = k /\ k < n /\ f[x] # g[x]
    BY <2>1, <1>same
  <2>3. \A y \in S : rank[y] < rank[x] => f[y] = g[y]
    <3> SUFFICES ASSUME NEW y \in S, rank[y] < rank[x], f[y] # g[y] PROVE FALSE
      OBVIOUS
    <3>1. rank[y] \in Nat /\ rank[y] < n
      BY <2>2
    <3>2. rank[y] \in Bad
      BY <3>1
    <3> QED
      BY <2>1, <2>2, <3>1, <3>2
  <2>4. step[<<x, f>>] = step[<<x, g>>]
    BY <2>3 DEF LooksBelow
  <2> QED
    BY <1>same, <2>2, <2>4 DEF SolvesUpTo
<1> HIDE DEF F
<1>2. \A x \in S : rank[x] + 1 \in Nat
  OBVIOUS
<1>3. h \in [S -> T]
  <2>1. \A x \in S : F(rank[x] + 1)[x] \in T
    BY <1>1, <1>2
  <2> QED
    BY <2>1
<1>4. ASSUME NEW x \in S PROVE h[x] = step[<<x, h>>]
  <2> DEFINE f == F(rank[x] + 1)
  <2>1. f \in [S -> T] /\ SolvesUpTo(S, rank, step, f, rank[x] + 1)
    BY <1>1, <1>2
  <2>2. h[x] = f[x]
    OBVIOUS
  <2>3. \A y \in S : rank[y] < rank[x] => h[y] = f[y]
    <3> SUFFICES ASSUME NEW y \in S, rank[y] < rank[x] PROVE h[y] = f[y]
      OBVIOUS
    <3> DEFINE g == F(rank[y] + 1)
    <3>1. g \in [S -> T] /\ SolvesUpTo(S, rank, step, g, rank[y] + 1)
      BY <1>1, <1>2
    <3>2. h[y] = g[y]
      OBVIOUS
    <3>a. rank[y] \in Nat /\ rank[x] \in Nat /\ rank[y] + 1 \in Nat
      OBVIOUS
    <3> HIDE DEF f, g, h
    <3>3. SolvesUpTo(S, rank, step, f, rank[y] + 1)
      <4> SUFFICES ASSUME NEW z \in S, rank[z] < rank[y] + 1 PROVE f[z] = step[<<z, f>>]
        BY DEF SolvesUpTo
      <4>1. rank[z] \in Nat /\ rank[z] < rank[x] + 1
        BY <3>a
      <4> QED
        BY <2>1, <4>1 DEF SolvesUpTo
    <3>4. g[y] = f[y]
      <4>1. \A z \in S : rank[z] < rank[y] + 1 => g[z] = f[z]
        <5> DEFINE n == rank[y] + 1
        <5>1. n \in Nat /\ SolvesUpTo(S, rank, step, f, n) /\ SolvesUpTo(S, rank, step, g, n)
          BY <3>1, <3>3, <3>a
        <5> HIDE DEF n
        <5>2. \A z \in S : rank[z] < n => g[z] = f[z]
          <6>1. f \in [S -> T] /\ g \in [S -> T]
            BY <2>1, <3>1
          <6> QED
            BY <5>1, <6>1, <1>same
        <5> QED
          BY <5>2 DEF n
      <4>2. rank[y] < rank[y] + 1
        BY <3>a
      <4> QED
        BY <4>1, <4>2
    <3> QED
      BY <3>2, <3>4
  <2> HIDE DEF f, h
  <2>4. step[<<x, h>>] = step[<<x, f>>]
    BY <1>3, <2>1, <2>3 DEF LooksBelow
  <2>5. f[x] = step[<<x, f>>]
    <3>1. rank[x] < rank[x] + 1
      <4>1. rank[x] \in Nat
        OBVIOUS
      <4> QED
        BY <4>1
    <3> QED
      BY <2>1, <3>1 DEF SolvesUpTo
  <2> QED
    BY <2>2, <2>4, <2>5
<1> QED
  BY <1>3, <1>4

(* Induction over ranks: P has all of S if it has every member of which it *)
(* has all that rank below.                                                *)
LEMMA ByRank ==
  ASSUME NEW S, NEW rank \in [S -> Nat], NEW P,
         \A x \in S : (\A y \in S : rank[y] < rank[x] => y \in P) => x \in P
  PROVE  \A x \in S : x \in P
<1> DEFINE Bad == {rank[x] : x \in {y \in S : y \notin P}}
<1> SUFFICES ASSUME NEW z \in S, z \notin P PROVE FALSE
  OBVIOUS
<1>1. PICK n \in Bad : \A k \in Bad : n <= k
  <2>1. Bad \in SUBSET Nat /\ Bad # {}
    OBVIOUS
  <2> HIDE DEF Bad
  <2> QED
    BY <2>1, Least
<1>2. PICK x \in S : x \notin P /\ rank[x] = n
  OBVIOUS
<1>3. \A y \in S : rank[y] < rank[x] => y \in P
  <2> SUFFICES ASSUME NEW y \in S, rank[y] < rank[x], y \notin P PROVE FALSE
    OBVIOUS
  <2>1. rank[y] \in Bad /\ rank[y] \in Nat /\ rank[x] \in Nat
    OBVIOUS
  <2> HIDE DEF Bad
  <2>2. n <= rank[y]
    BY <1>1, <2>1
  <2>3. rank[y] < n
    BY <1>2
  <2> QED
    BY <1>2, <2>1, <2>2, <2>3
<1> QED
  BY <1>2, <1>3

(* The usual case: the value for x is out[x] where the recursion stops,    *)
(* and op of x and the value for next[x] elsewhere.                        *)
Descends(S, rank, stop, next) ==
  /\ rank \in [S -> Nat]
  /\ \A x \in S : x \notin stop => next[x] \in S /\ rank[next[x]] < rank[x]

MakesValues(S, T, rank, stop, next, out, op) ==
  /\ T # {}
  /\ Descends(S, rank, stop, next)
  /\ \A x \in S : x \in stop => out[x] \in T
  /\ op \in [S \X T -> T]

LEMMA Descent ==
  ASSUME NEW S, NEW T, NEW rank, NEW stop, NEW next, NEW out, NEW op,
         MakesValues(S, T, rank, stop, next, out, op)
  PROVE  \E f \in [S -> T] :
           \A x \in S : f[x] = IF x \in stop THEN out[x] ELSE op[<<x, f[next[x]]>>]
<1>0. /\ T # {} /\ Descends(S, rank, stop, next)
      /\ \A x \in S : x \in stop => out[x] \in T
      /\ op \in [S \X T -> T]
  BY DEF MakesValues
<1> DEFINE Step(x, f) == IF x \in stop THEN out[x] ELSE op[<<x, f[next[x]]>>]
           step == [y \in S \X [S -> T] |-> Step(y[1], y[2])]
<1>1. ASSUME NEW x \in S, NEW f \in [S -> T] PROVE Step(x, f) \in T
  <2>1. CASE x \in stop
    BY <1>0, <2>1
  <2>2. CASE x \notin stop
    <3>1. next[x] \in S
      BY <1>0, <2>2 DEF Descends
    <3>2. <<x, f[next[x]]>> \in S \X T
      BY <3>1
    <3> QED
      BY <1>0, <2>2, <3>2
  <2> QED
    BY <2>1, <2>2
<1>2. ASSUME NEW x \in S, NEW f \in [S -> T], NEW g \in [S -> T],
             \A y \in S : rank[y] < rank[x] => f[y] = g[y]
      PROVE  Step(x, f) = Step(x, g)
  <2>1. x \notin stop => f[next[x]] = g[next[x]]
    BY <1>0, <1>2 DEF Descends
  <2> QED
    BY <2>1
<1> HIDE DEF Step
<1>3. \A x \in S, f \in [S -> T] : step[<<x, f>>] = Step(x, f)
  OBVIOUS
<1>4. step \in [S \X [S -> T] -> T]
  <2>1. \A y \in S \X [S -> T] : Step(y[1], y[2]) \in T
    BY <1>1
  <2> QED
    BY <2>1
<1> HIDE DEF step
<1>5. LooksBelow(S, T, rank, step)
  BY <1>2, <1>3 DEF LooksBelow
<1>6. IsRecursion(S, T, rank, step)
  BY <1>0, <1>4, <1>5 DEF IsRecursion, Descends
<1>7. PICK f \in [S -> T] : \A x \in S : f[x] = step[<<x, f>>]
  BY <1>6, Recursion
<1>8. \A x \in S : f[x] = Step(x, f)
  BY <1>3, <1>7
<1> QED
  BY <1>8 DEF Step

(* A set has the values of a function if it has those where the recursion  *)
(* stops and every value that is made from one that it has.                *)
LEMMA DescentType ==
  ASSUME NEW S, NEW rank, NEW stop, NEW next, Descends(S, rank, stop, next), NEW T, NEW f,
         \A x \in S : x \in stop \/ f[next[x]] \in T => f[x] \in T
  PROVE  \A x \in S : f[x] \in T
<1> DEFINE P == {x \in S : f[x] \in T}
<1>1. rank \in [S -> Nat]
  BY DEF Descends
<1>2. ASSUME NEW x \in S, \A y \in S : rank[y] < rank[x] => y \in P PROVE x \in P
  BY <1>2 DEF Descends
<1> HIDE DEF P
<1>3. \A x \in S : x \in P
  BY <1>1, <1>2, ByRank
<1> QED
  BY <1>3 DEF P

-----------------------------------------------------------------------------
(* Division.                                                               *)

Radix == Nat \ {0}

LEMMA ProductSign ==
  ASSUME NEW k \in Int, NEW n \in Radix
  PROVE  /\ k * n \in Int
         /\ k >= 1 => k * n >= n
         /\ k <= -1 => k * n <= -n
<1>0. n \in Nat /\ n >= 1 /\ k * n \in Int
  BY DEF Radix
<1>1. CASE k >= 1
  <2>1. k - 1 \in Nat /\ (k - 1) * n \in Nat
    BY <1>0, <1>1
  <2>2. k * n = (k - 1) * n + n
    BY <1>0
  <2> QED
    BY <1>0, <1>1, <2>1, <2>2
<1>2. CASE k <= -1
  <2>1. -1 - k \in Nat /\ (-1 - k) * n \in Nat
    BY <1>0, <1>2
  <2>2. k * n = -n - (-1 - k) * n
    BY <1>0
  <2> QED
    BY <1>0, <1>2, <2>1, <2>2
<1> QED
  BY <1>0, <1>1, <1>2

LEMMA Division ==
  ASSUME NEW a \in Int, NEW n \in Radix
  PROVE  /\ a \div n \in Int /\ a % n \in 0 .. n - 1
         /\ a = (a \div n) * n + (a % n)
BY DEF Radix

LEMMA DivisionUnique ==
  ASSUME NEW a \in Int, NEW n \in Radix, NEW q \in Int, NEW r \in 0 .. n - 1, a = q * n + r
  PROVE  a \div n = q /\ a % n = r
<1> DEFINE p == a \div n
           s == a % n
<1>0. n \in Nat
  BY DEF Radix
<1>1. p \in Int /\ s \in 0 .. n - 1 /\ a = p * n + s
  BY Division
<1> HIDE DEF p, s
<1>2. (p - q) * n = r - s /\ p - q \in Int
  <2>1. p * n \in Int /\ q * n \in Int /\ (p - q) * n = p * n - q * n
    BY <1>0, <1>1
  <2> QED
    BY <1>1, <2>1, <1>0
<1>3. p - q = 0
  <2>1. /\ p - q >= 1 => r - s >= n
        /\ p - q <= -1 => r - s <= -n
    BY <1>2, ProductSign
  <2> QED
    BY <1>0, <1>1, <1>2, <2>1
<1>4. p = q
  BY <1>1, <1>3
<1>5. s = r
  <2>1. q * n \in Int
    BY <1>0
  <2> QED
    BY <1>0, <1>1, <1>4, <2>1
<1> QED
  BY <1>4, <1>5 DEF p, s

LEMMA DivisionTwice ==
  ASSUME NEW a \in Int, NEW n \in Radix, NEW m \in Radix
  PROVE  n * m \in Radix /\ a \div (n * m) = (a \div m) \div n
<1> DEFINE b == a \div m
           q == b \div n
           r == (b % n) * m + (a % m)
<1>0. n \in Nat /\ m \in Nat /\ n >= 1 /\ m >= 1
  BY DEF Radix
<1>1. n * m \in Radix
  <2>1. n * m \in Nat /\ n * m >= m
    BY <1>0, ProductSign
  <2> QED
    BY <1>0, <2>1 DEF Radix
<1>2. b \in Int /\ a % m \in 0 .. m - 1 /\ a = b * m + (a % m)
  BY Division
<1>3. q \in Int /\ b % n \in 0 .. n - 1 /\ b = q * n + (b % n)
  BY <1>2, Division
<1>4. r \in 0 .. n * m - 1
  <2> DEFINE c == b % n
             d == a % m
  <2>1. c \in 0 .. n - 1 /\ d \in 0 .. m - 1
    BY <1>2, <1>3
  <2> HIDE DEF c, d
  <2>2. c \in Nat /\ c * m \in Nat
    BY <1>0, <2>1
  <2>3. n - c \in Int /\ n - c >= 1 /\ (n - c) * m >= m
    BY <1>0, <2>1, ProductSign
  <2>4. (n - c) * m = n * m - c * m /\ n * m \in Nat
    BY <1>0, <2>1
  <2>5. c * m + d \in 0 .. n * m - 1
    BY <1>0, <2>1, <2>2, <2>3, <2>4
  <2> QED
    BY <2>5 DEF c, d
<1>5. a = q * (n * m) + r
  <2> DEFINE c == b % n
             d == a % m
  <2>1. c \in Int /\ d \in Int /\ b = q * n + c /\ a = b * m + d
    BY <1>2, <1>3, <1>0
  <2> HIDE DEF b, c, d, q
  <2>2. (q * n + c) * m = q * (n * m) + c * m
    BY <1>0, <1>3, <2>1
  <2>3. q * (n * m) \in Int /\ c * m \in Int
    BY <1>0, <1>3, <2>1
  <2>4. a = q * (n * m) + (c * m + d)
    BY <2>1, <2>2, <2>3
  <2> QED
    BY <2>4 DEF c, d
<1> HIDE DEF q, r
<1>6. a \div (n * m) = q
  BY <1>1, <1>3, <1>4, <1>5, DivisionUnique
<1> QED
  BY <1>1, <1>6 DEF q

LEMMA DivisionNext ==
  ASSUME NEW a \in Int, NEW n \in Radix
  PROVE  IF a % n < n - 1
         THEN (a + 1) \div n = a \div n /\ (a + 1) % n = (a % n) + 1
         ELSE (a + 1) \div n = a \div n + 1 /\ (a + 1) % n = 0 /\ a % n = n - 1
<1> DEFINE q == a \div n
           r == a % n
<1>0. n \in Nat /\ n >= 1
  BY DEF Radix
<1>a. q \in Int /\ r \in 0 .. n - 1 /\ a = q * n + r
  BY Division
<1> HIDE DEF q, r
<1>1. q \in Int /\ r \in 0 .. n - 1 /\ a = q * n + r /\ q * n \in Int
  BY <1>0, <1>a
<1>2. CASE r < n - 1
  <2>1. r + 1 \in 0 .. n - 1 /\ a + 1 = q * n + (r + 1) /\ a + 1 \in Int
    BY <1>0, <1>1, <1>2
  <2>2. (a + 1) \div n = q /\ (a + 1) % n = r + 1
    BY <1>1, <2>1, DivisionUnique
  <2> QED
    BY <1>2, <2>2 DEF q, r
<1>3. CASE ~ (r < n - 1)
  <2>0. r = n - 1
    BY <1>0, <1>1, <1>3
  <2>1. (q + 1) * n = q * n + n /\ q + 1 \in Int
    BY <1>0, <1>1
  <2>2. 0 \in 0 .. n - 1 /\ a + 1 = (q + 1) * n + 0 /\ a + 1 \in Int
    BY <1>0, <1>1, <2>0, <2>1
  <2>3. (a + 1) \div n = q + 1 /\ (a + 1) % n = 0
    BY <2>1, <2>2, DivisionUnique
  <2> QED
    BY <1>3, <2>0, <2>3 DEF q, r
<1> QED
  BY <1>2, <1>3 DEF r

LEMMA DivisionShift ==
  ASSUME NEW a \in Int, NEW n \in Radix, NEW k \in Int
  PROVE  /\ a + k * n \in Int
         /\ (a + k * n) \div n = a \div n + k
         /\ (a + k * n) % n = a % n
<1> DEFINE q == a \div n
           r == a % n
<1>0. n \in Nat /\ n >= 1
  BY DEF Radix
<1>a. q \in Int /\ r \in 0 .. n - 1 /\ a = q * n + r
  BY Division
<1> HIDE DEF q, r
<1>1. q \in Int /\ r \in 0 .. n - 1 /\ a = q * n + r /\ q * n \in Int /\ k * n \in Int
  BY <1>0, <1>a
<1>2. (q + k) * n = q * n + k * n /\ q + k \in Int
  BY <1>0, <1>1
<1>3. a + k * n = (q + k) * n + r /\ a + k * n \in Int
  BY <1>0, <1>1, <1>2
<1>4. (a + k * n) \div n = q + k /\ (a + k * n) % n = r
  BY <1>1, <1>2, <1>3, DivisionUnique
<1> QED
  BY <1>3, <1>4 DEF q, r

LEMMA NothingLeft ==
  ASSUME NEW m \in Nat \ {0}, NEW n \in Int, NEW q \in Int, n = m * q
  PROVE  n % m = 0
<1> DEFINE d == n \div m
           r == n % m
<1>1. d \in Int /\ r \in Int /\ n = m * d + r /\ 0 <= r /\ r < m
  OBVIOUS
<1> HIDE DEF d, r
<1> DEFINE t == q - d
<1>2. t \in Int /\ m * t = r
  BY <1>1
<1> HIDE DEF t
<1>3. t >= 1 => m * t >= m
  BY <1>2
<1>4. t <= -1 => m * t < 0
  BY <1>2
<1>5. t = 0
  BY <1>1, <1>2, <1>3, <1>4
<1>6. r = 0
  BY <1>2, <1>5
<1> QED
  BY <1>6 DEF r

LEMMA QuotientAndRest ==
  ASSUME NEW m \in Nat \ {0}, NEW n \in Int
  PROVE  n % m \in Nat /\ n % m < m /\ n \div m \in Int /\ n = m * (n \div m) + (n % m)
OBVIOUS

LEMMA SmallRemainder ==
  ASSUME NEW m \in Nat \ {0}, NEW n \in Nat, n < m
  PROVE  n % m = n
OBVIOUS

-----------------------------------------------------------------------------
(* Loops over a string: where they are, and how many rounds they have      *)
(* left.                                                                   *)

(* left counts down as fast as the characters do. *)
LEMMA LeftEnough ==
  ASSUME NEW i \in Nat, NEW len \in Nat, i < len, NEW left \in Nat, left > len - i
  PROVE  left # 0 /\ left - 1 \in Nat /\ left - 1 > len - (i + 1) /\ left > len - (i + 1)
OBVIOUS

LEMMA EndsInside ==
  ASSUME NEW i \in Nat, NEW len \in Nat, NEW b \in Nat, NEW size \in Nat, i < len, b + size = i + 1
  PROVE  b + size <= len /\ b <= len
OBVIOUS

LEMMA BackFrom ==
  ASSUME NEW len \in Nat
  PROVE  LET rank == [i \in 0 .. len |-> len - i]
         IN  /\ rank \in [0 .. len -> Nat]
             /\ \A i \in 0 .. len : i # len => i \in Nat /\ i < len /\ i + 1 \in 0 .. len /\ rank[i + 1] < rank[i]
OBVIOUS

LEMMA RoundsLeft ==
  ASSUME NEW i \in Nat, NEW len \in Nat, i <= len, NEW n \in Nat, n > len + 1 - i, NEW next \in Nat, i < next
  PROVE  n # 0 /\ n - 1 \in Nat /\ n - 1 # 0 /\ n - 1 > len + 1 - next
OBVIOUS

(* There is still something in front of the end. *)
LEMMA BeforeEnd ==
  ASSUME NEW d \in Nat, NEW len \in Nat, NEW j \in Nat, j < len, NEW size, size = d + (len - j)
  PROVE  ~ (d >= size)
OBVIOUS

LEMMA FewerRounds ==
  ASSUME NEW j \in Nat, NEW len \in Nat, NEW n \in Nat, j <= len, n > len - j
  PROVE  n # 0 /\ \A b \in Nat : j < b => n - 1 > len - b
OBVIOUS

=============================================================================
