---------------------------- MODULE ArraysProofs ----------------------------
(***************************************************************************)
(* Theorems about the array built-ins (Arrays.tla), for every length, set  *)
(* of values and number of arguments: what iterations call back for, where *)
(* elements are, what sort, splice and the queries answer, and that an     *)
(* array is the list that module Lists promises.                           *)
(***************************************************************************)
EXTENDS Arrays, DataLemmas, TLAPS, SequenceTheorems

-----------------------------------------------------------------------------
(* merge.  What it answers is defined by recursion: MergeRecursion shows   *)
(* that there is such a function, the lemmas after it what is in it.       *)

(* A comparison function, as Merge takes it. *)
IsCmp(c) == c \in [Stored \X Stored -> SUBSET BOOLEAN]

(* The recursion of merge.                                                 *)
MergeStep(merge, halves, c) ==
  LET l == halves[1]
      r == halves[2]
  IN  IF l = <<>> THEN {r}
      ELSE IF r = <<>> THEN {l}
      ELSE UNION {IF yes THEN {<<l[1]>> \o s : s \in merge[<<Tail(l), r>>]}
                         ELSE {<<r[1]>> \o s : s \in merge[<<l, Tail(r)>>]}
                    : yes \in c[<<l[1], r[1]>>]}

MergeFunction(c) == CHOOSE f : f = [halves \in Seq(Stored) \X Seq(Stored) |-> MergeStep(f, halves, c)]

LEMMA MergeIsFunction ==
  ASSUME NEW left, NEW right, NEW c
  PROVE  Merge(left, right, c) = MergeFunction(c)[<<left, right>>]
BY DEF Merge, MergeStep, MergeFunction

(* There is one: merge is a function of the two halves. *)
LEMMA MergeRecursion ==
  ASSUME NEW c, IsCmp(c)
  PROVE  \E f : \A l, r \in Seq(Stored) :
           /\ f[<<l, r>>] = Merge(l, r, c)
           /\ Merge(l, r, c) \in SUBSET Seq(Stored)
           /\ Merge(l, r, c) = MergeStep(f, <<l, r>>, c)
<1> DEFINE S == Seq(Stored) \X Seq(Stored)
           T == SUBSET Seq(Stored)
           rank == [x \in S |-> Len(x[1]) + Len(x[2])]
           step == [y \in S \X [S -> T] |-> MergeStep(y[2], y[1], c)]
           f == MergeFunction(c)
<1>1. ASSUME NEW x \in S, x[1] # <<>>, x[2] # <<>>
      PROVE  /\ x[1][1] \in Stored /\ x[2][1] \in Stored
             /\ Tail(x[1]) \in Seq(Stored) /\ Tail(x[2]) \in Seq(Stored)
             /\ <<Tail(x[1]), x[2]>> \in S /\ <<x[1], Tail(x[2])>> \in S
             /\ rank[<<Tail(x[1]), x[2]>>] < rank[x]
             /\ rank[<<x[1], Tail(x[2])>>] < rank[x]
  <2> DEFINE a == x[1]
             b == x[2]
  <2>0. a \in Seq(Stored) /\ b \in Seq(Stored) /\ a # <<>> /\ b # <<>>
    BY <1>1
  <2>a. rank[x] = Len(a) + Len(b)
    OBVIOUS
  <2> HIDE DEF a, b
  <2>1. /\ a[1] \in Stored /\ Tail(a) \in Seq(Stored)
        /\ Len(a) \in Nat \ {0} /\ Len(Tail(a)) = Len(a) - 1
    BY <2>0, HeadAndTail
  <2>2. /\ b[1] \in Stored /\ Tail(b) \in Seq(Stored)
        /\ Len(b) \in Nat \ {0} /\ Len(Tail(b)) = Len(b) - 1
    BY <2>0, HeadAndTail
  <2>3. <<Tail(a), b>> \in S /\ <<a, Tail(b)>> \in S
    BY <2>0, <2>1, <2>2
  <2>4. rank[<<Tail(a), b>>] = Len(Tail(a)) + Len(b) /\ rank[<<a, Tail(b)>>] = Len(a) + Len(Tail(b))
    BY <2>3
  <2>5. rank[<<Tail(a), b>>] < rank[x] /\ rank[<<a, Tail(b)>>] < rank[x]
    <3> HIDE DEF rank
    <3> QED
      BY <2>a, <2>1, <2>2, <2>4
  <2> HIDE DEF rank
  <2> QED
    BY <2>1, <2>2, <2>3, <2>5 DEF a, b
<1>2. rank \in [S -> Nat]
  <2>1. \A x \in S : Len(x[1]) \in Nat /\ Len(x[2]) \in Nat
    BY LenProperties
  <2>2. \A x \in S : Len(x[1]) + Len(x[2]) \in Nat
    BY <2>1
  <2> QED
    BY <2>2
<1>3. ASSUME NEW x \in S, NEW g \in [S -> T] PROVE MergeStep(g, x, c) \in T
  <2> DEFINE a == x[1]
             b == x[2]
  <2>0. a \in Seq(Stored) /\ b \in Seq(Stored)
    OBVIOUS
  <2>1. CASE a = <<>> \/ b = <<>>
    BY <2>0, <2>1 DEF MergeStep
  <2>2. CASE a # <<>> /\ b # <<>>
    <3>1. /\ a[1] \in Stored /\ b[1] \in Stored
          /\ g[<<Tail(a), b>>] \in T /\ g[<<a, Tail(b)>>] \in T
      BY <1>1, <2>2
    <3>2. <<a[1]>> \in Seq(Stored) /\ <<b[1]>> \in Seq(Stored)
      BY <3>1
    <3>3. /\ \A s \in g[<<Tail(a), b>>] : <<a[1]>> \o s \in Seq(Stored)
          /\ \A s \in g[<<a, Tail(b)>>] : <<b[1]>> \o s \in Seq(Stored)
      BY <3>1, <3>2, ConcatProperties
    <3>4. MergeStep(g, x, c) =
            UNION {IF yes THEN {<<a[1]>> \o s : s \in g[<<Tail(a), b>>]}
                          ELSE {<<b[1]>> \o s : s \in g[<<a, Tail(b)>>]}
                     : yes \in c[<<a[1], b[1]>>]}
      BY <2>2 DEF MergeStep
    <3>5. c[<<a[1], b[1]>>] \subseteq BOOLEAN
      BY <3>1 DEF IsCmp
    <3> HIDE DEF a, b
    <3>6. ASSUME NEW s \in MergeStep(g, x, c) PROVE s \in Seq(Stored)
      <4>1. PICK yes \in c[<<a[1], b[1]>>] :
              s \in IF yes THEN {<<a[1]>> \o u : u \in g[<<Tail(a), b>>]}
                          ELSE {<<b[1]>> \o u : u \in g[<<a, Tail(b)>>]}
        BY <3>4, <3>6
      <4>2. CASE yes
        BY <3>3, <4>1, <4>2
      <4>3. CASE ~ yes
        BY <3>3, <4>1, <4>3
      <4> QED
        BY <4>2, <4>3
    <3> QED
      BY <3>6
  <2> QED
    BY <2>1, <2>2
<1>4. step \in [S \X [S -> T] -> T]
  BY <1>3
<1>5. LooksBelow(S, T, rank, step)
  <2> SUFFICES ASSUME NEW x \in S, NEW g \in [S -> T], NEW h \in [S -> T],
                      \A y \in S : rank[y] < rank[x] => g[y] = h[y]
               PROVE  MergeStep(g, x, c) = MergeStep(h, x, c)
    <3>1. \A x \in S, g \in [S -> T] : step[<<x, g>>] = MergeStep(g, x, c)
      OBVIOUS
    <3> HIDE DEF step, S, T, rank
    <3> QED
      BY <3>1 DEF LooksBelow
  <2> HIDE DEF rank
  <2>1. CASE x[1] = <<>> \/ x[2] = <<>>
    BY <2>1 DEF MergeStep
  <2>2. CASE x[1] # <<>> /\ x[2] # <<>>
    <3>1. g[<<Tail(x[1]), x[2]>>] = h[<<Tail(x[1]), x[2]>>]
          /\ g[<<x[1], Tail(x[2])>>] = h[<<x[1], Tail(x[2])>>]
      BY <1>1, <2>2
    <3> QED
      BY <3>1 DEF MergeStep
  <2> QED
    BY <2>1, <2>2
<1>6. \E g \in [S -> T] : \A x \in S : g[x] = step[<<x, g>>]
  <2>1. T # {}
    OBVIOUS
  <2> HIDE DEF S, T, rank, step
  <2>2. IsRecursion(S, T, rank, step)
    BY <1>2, <1>4, <1>5, <2>1 DEF IsRecursion
  <2> QED
    BY <2>2, Recursion
<1>7. PICK g \in [S -> T] : \A x \in S : g[x] = MergeStep(g, x, c)
  <2>1. \A x \in S, g \in [S -> T] : step[<<x, g>>] = MergeStep(g, x, c)
    OBVIOUS
  <2> HIDE DEF step, S, T
  <2> QED
    BY <1>6, <2>1
<1>8. g = [x \in S |-> MergeStep(g, x, c)]
  BY <1>7
<1>9. f = [x \in S |-> MergeStep(f, x, c)]
  <2> HIDE DEF S, T
  <2>1. MergeFunction(c) = CHOOSE h : h = [x \in S |-> MergeStep(h, x, c)]
    BY DEF MergeFunction, S
  <2> QED
    BY <1>8, <2>1
<1> HIDE DEF f
<1>10. \A x \in S : f[x] = MergeStep(f, x, c)
  BY <1>9
<1>11. \A x \in S : f[x] \in T
  <2> DEFINE Bad == {n \in Nat : \E x \in S : rank[x] = n /\ f[x] \notin T}
  <2> HIDE DEF S, T, rank
  <2> SUFFICES ASSUME Bad # {} PROVE FALSE
    BY <1>2
  <2>1. PICK n \in Bad : \A k \in Bad : n <= k
    <3>1. Bad \in SUBSET Nat
      OBVIOUS
    <3> HIDE DEF Bad
    <3> QED
      BY <3>1, Least
  <2>2. PICK x \in S : rank[x] = n /\ f[x] \notin T
    BY <2>1
  <2> DEFINE h == [y \in S |-> IF f[y] \in T THEN f[y] ELSE {}]
  <2>3. h \in [S -> T]
    <3>1. {} \in T
      BY DEF T
    <3> QED
      BY <3>1
  <2>4. \A y \in S : rank[y] < rank[x] => f[y] = h[y]
    BY <1>2, <2>1, <2>2
  <2>5. MergeStep(f, x, c) = MergeStep(h, x, c)
    <3>1. CASE x[1] = <<>> \/ x[2] = <<>>
      BY <3>1 DEF MergeStep
    <3>2. CASE x[1] # <<>> /\ x[2] # <<>>
      <4>1. f[<<Tail(x[1]), x[2]>>] = h[<<Tail(x[1]), x[2]>>]
            /\ f[<<x[1], Tail(x[2])>>] = h[<<x[1], Tail(x[2])>>]
        BY <1>1, <2>4, <3>2
      <4> HIDE DEF h
      <4> QED
        BY <4>1 DEF MergeStep
    <3> QED
      BY <3>1, <3>2
  <2> HIDE DEF h
  <2>6. MergeStep(h, x, c) \in T
    BY <1>3, <2>3
  <2> QED
    BY <1>10, <2>2, <2>5, <2>6
<1> QED
  BY <1>10, <1>11, MergeIsFunction DEF f

(* Merge, unfolded. *)
LEMMA MergeSeqs ==
  ASSUME NEW c, IsCmp(c), NEW l \in Seq(Stored), NEW r \in Seq(Stored), NEW s \in Merge(l, r, c)
  PROVE  s \in Seq(Stored)
BY MergeRecursion

LEMMA MergeEmpty ==
  ASSUME NEW c, IsCmp(c), NEW l \in Seq(Stored), NEW r \in Seq(Stored), NEW s \in Merge(l, r, c)
  PROVE  /\ l = <<>> => s = r
         /\ l # <<>> /\ r = <<>> => s = l
<1> DEFINE x == <<l, r>>
<1>1. x[1] = l /\ x[2] = r
  OBVIOUS
<1> HIDE DEF x
<1>2. PICK f : Merge(l, r, c) = MergeStep(f, x, c)
  BY MergeRecursion DEF x
<1> QED
  BY <1>1, <1>2 DEF MergeStep

TakesLeft(s, l, r, c) ==
  TRUE \in c[<<l[1], r[1]>>] /\ \E t \in Merge(Tail(l), r, c) : s = <<l[1]>> \o t

TakesRight(s, l, r, c) ==
  FALSE \in c[<<l[1], r[1]>>] /\ \E t \in Merge(l, Tail(r), c) : s = <<r[1]>> \o t

LEMMA MergeBoth ==
  ASSUME NEW c, IsCmp(c), NEW l \in Seq(Stored), NEW r \in Seq(Stored), l # <<>>, r # <<>>,
         NEW s \in Merge(l, r, c)
  PROVE  TakesLeft(s, l, r, c) \/ TakesRight(s, l, r, c)
<1> DEFINE x == <<l, r>>
<1>1. x[1] = l /\ x[2] = r
  OBVIOUS
<1>2. Tail(l) \in Seq(Stored) /\ Tail(r) \in Seq(Stored) /\ l[1] \in Stored /\ r[1] \in Stored
  BY HeadAndTail
<1>3. PICK f : /\ Merge(l, r, c) = MergeStep(f, x, c)
               /\ f[<<Tail(l), r>>] = Merge(Tail(l), r, c)
               /\ f[<<l, Tail(r)>>] = Merge(l, Tail(r), c)
  BY <1>2, MergeRecursion
<1> HIDE DEF x
<1>4. c[<<l[1], r[1]>>] \subseteq BOOLEAN
  BY <1>2 DEF IsCmp
<1>5. Merge(l, r, c) =
        UNION {IF yes THEN {<<l[1]>> \o t : t \in Merge(Tail(l), r, c)}
                      ELSE {<<r[1]>> \o t : t \in Merge(l, Tail(r), c)}
                 : yes \in c[<<l[1], r[1]>>]}
  BY <1>1, <1>3 DEF MergeStep
<1> QED
  BY <1>4, <1>5 DEF TakesLeft, TakesRight

(* What holds of two sequences if it holds of each with the tail of the    *)
(* other holds of all.                                                     *)
LEMMA MergeInduction ==
  ASSUME NEW Good,
         \A l, r \in Seq(Stored) :
           (l # <<>> /\ r # <<>> => <<Tail(l), r>> \in Good /\ <<l, Tail(r)>> \in Good)
             => <<l, r>> \in Good
  PROVE  \A l, r \in Seq(Stored) : <<l, r>> \in Good
<1> DEFINE Bad == {n \in Nat : \E l, r \in Seq(Stored) : Len(l) + Len(r) = n /\ <<l, r>> \notin Good}
<1>1. \A s \in Seq(Stored) : Len(s) \in Nat
  BY LenProperties
<1> SUFFICES ASSUME NEW a \in Seq(Stored), NEW b \in Seq(Stored), <<a, b>> \notin Good PROVE FALSE
  OBVIOUS
<1>2. PICK n \in Bad : \A k \in Bad : n <= k
  <2>1. Bad \in SUBSET Nat
    OBVIOUS
  <2>2. Len(a) + Len(b) \in Bad
    <3>1. Len(a) \in Nat /\ Len(b) \in Nat
      BY <1>1
    <3>2. Len(a) + Len(b) \in Nat
      BY <3>1
    <3> DEFINE n == Len(a) + Len(b)
    <3>3. \E l, r \in Seq(Stored) : Len(l) + Len(r) = n /\ <<l, r>> \notin Good
      OBVIOUS
    <3> HIDE DEF n
    <3>4. n \in Nat => n \in Bad
      BY <3>3
    <3> QED
      BY <3>2, <3>4 DEF n
  <2> HIDE DEF Bad
  <2> QED
    BY <2>1, <2>2, Least
<1>3. PICK l \in Seq(Stored), r \in Seq(Stored) : Len(l) + Len(r) = n /\ <<l, r>> \notin Good
  BY <1>2
<1>4. l # <<>> /\ r # <<>>
  BY <1>3
<1>5. /\ Tail(l) \in Seq(Stored) /\ Len(l) \in Nat /\ Len(Tail(l)) = Len(l) - 1
      /\ Tail(r) \in Seq(Stored) /\ Len(r) \in Nat /\ Len(Tail(r)) = Len(r) - 1
  BY <1>4, HeadAndTail
<1>6. \A k \in Nat : k < n => k \notin Bad
  <2>1. n \in Nat
    BY <1>2
  <2> HIDE DEF Bad
  <2> QED
    BY <1>2, <2>1
<1>7. Len(Tail(l)) + Len(r) \notin Bad /\ Len(l) + Len(Tail(r)) \notin Bad
  <2>1. Len(Tail(l)) \in Nat /\ Len(Tail(r)) \in Nat
    BY <1>1, <1>5
  <2> HIDE DEF Bad
  <2> QED
    BY <1>3, <1>5, <1>6, <2>1
<1>8. Len(Tail(l)) + Len(r) \in Nat /\ Len(l) + Len(Tail(r)) \in Nat
  BY <1>1, <1>5
<1>9. <<Tail(l), r>> \in Good /\ <<l, Tail(r)>> \in Good
  BY <1>5, <1>7, <1>8
<1> QED
  BY <1>3, <1>9

(* Merging keeps what there is. *)
LEMMA MergeKeeps ==
  ASSUME NEW c, IsCmp(c), NEW l \in Seq(Stored), NEW r \in Seq(Stored), NEW s \in Merge(l, r, c)
  PROVE  /\ s \in Seq(Stored)
         /\ Len(s) = Len(l) + Len(r)
         /\ \A v : Occurrences(s, v) = Occurrences(l, v) + Occurrences(r, v)
<1> DEFINE Keeps(x, y) ==
             \A u \in Merge(x, y, c) :
               /\ Len(u) = Len(x) + Len(y)
               /\ \A v : Occurrences(u, v) = Occurrences(x, v) + Occurrences(y, v)
           Good == {halves \in Seq(Stored) \X Seq(Stored) : Keeps(halves[1], halves[2])}
<1>0. \A x, y \in Seq(Stored) : <<x, y>> \in Good <=> Keeps(x, y)
  OBVIOUS
<1>1. \A x, y \in Seq(Stored) : \A u \in Merge(x, y, c) : u \in Seq(Stored)
  BY MergeSeqs
<1>2. /\ Len(<<>>) = 0
      /\ \A v : Occurrences(<<>>, v) = 0
      /\ \A x \in Seq(Stored) : \A v : Occurrences(x, v) \in Nat /\ Len(x) \in Nat
  <2>1. \A v : Occurrences(<<>>, v) = 0
    <3>1. DOMAIN <<>> = {}
      OBVIOUS
    <3>2. \A v : {i \in DOMAIN <<>> : <<>>[i] = v} = {}
      BY <3>1
    <3> QED
      BY <3>2, FS_EmptySet DEF Occurrences
  <2>2. \A x \in Seq(Stored) : \A v : Occurrences(x, v) \in Nat
    BY OccurrencesConcat
  <2> QED
    BY <2>1, <2>2, LenProperties, EmptySeq
<1>3. ASSUME NEW x \in Seq(Stored), NEW y \in Seq(Stored), x # <<>>,
             NEW t \in Seq(Stored), NEW z \in Seq(Stored),
             Len(t) = Len(Tail(x)) + Len(z),
             \A v : Occurrences(t, v) = Occurrences(Tail(x), v) + Occurrences(z, v)
      PROVE  /\ Len(<<x[1]>> \o t) = Len(x) + Len(z)
             /\ \A v : Occurrences(<<x[1]>> \o t, v) = Occurrences(x, v) + Occurrences(z, v)
  <2> DEFINE a == <<x[1]>>
             b == Tail(x)
  <2>1. /\ x[1] \in Stored /\ b \in Seq(Stored) /\ Len(x) \in Nat /\ Len(b) = Len(x) - 1
        /\ x = a \o b
    BY <1>3, HeadAndTail
  <2>2. a \in Seq(Stored) /\ Len(a) = 1
    BY <2>1
  <2>3. Len(t) = Len(b) + Len(z) /\ \A v : Occurrences(t, v) = Occurrences(b, v) + Occurrences(z, v)
    BY <1>3
  <2> HIDE DEF a, b
  <2>4. Len(a \o t) = Len(a) + Len(t)
    BY <2>2, ConcatProperties
  <2>5. \A v : /\ Occurrences(a \o t, v) = Occurrences(a, v) + Occurrences(t, v)
               /\ Occurrences(a \o b, v) = Occurrences(a, v) + Occurrences(b, v)
               /\ Occurrences(a, v) \in Nat /\ Occurrences(b, v) \in Nat
               /\ Occurrences(z, v) \in Nat
    BY <2>1, <2>2, OccurrencesConcat
  <2>6. Len(t) \in Nat /\ Len(z) \in Nat
    BY <1>2
  <2>7. Len(a \o t) = Len(x) + Len(z)
    BY <2>1, <2>2, <2>3, <2>4, <2>6
  <2>8. \A v : Occurrences(a \o t, v) = Occurrences(x, v) + Occurrences(z, v)
    BY <2>1, <2>3, <2>5
  <2> QED
    BY <2>7, <2>8 DEF a
<1> HIDE DEF Good
<1>4. ASSUME NEW x \in Seq(Stored), NEW y \in Seq(Stored),
             x # <<>> /\ y # <<>> => <<Tail(x), y>> \in Good /\ <<x, Tail(y)>> \in Good
      PROVE  <<x, y>> \in Good
  <2> SUFFICES ASSUME NEW u \in Merge(x, y, c)
               PROVE  /\ Len(u) = Len(x) + Len(y)
                      /\ \A v : Occurrences(u, v) = Occurrences(x, v) + Occurrences(y, v)
    BY <1>0
  <2>1. CASE x = <<>>
    <3>1. u = y
      BY <2>1, MergeEmpty
    <3> QED
      BY <1>2, <2>1, <3>1
  <2>2. CASE x # <<>> /\ y = <<>>
    <3>1. u = x
      BY <2>2, MergeEmpty
    <3> QED
      BY <1>2, <2>2, <3>1
  <2>3. CASE x # <<>> /\ y # <<>>
    <3>1. Tail(x) \in Seq(Stored) /\ Tail(y) \in Seq(Stored)
      BY <2>3, HeadAndTail
    <3>2. Keeps(Tail(x), y) /\ Keeps(x, Tail(y))
      BY <1>0, <1>4, <2>3, <3>1
    <3>3. \/ \E t \in Merge(Tail(x), y, c) : u = <<x[1]>> \o t
          \/ \E t \in Merge(x, Tail(y), c) : u = <<y[1]>> \o t
      <4>1. x # <<>> /\ y # <<>>
        BY <2>3
      <4>2. TakesLeft(u, x, y, c) \/ TakesRight(u, x, y, c)
        BY <4>1, MergeBoth
      <4> QED
        BY <4>2 DEF TakesLeft, TakesRight
    <3>4. ASSUME NEW t \in Merge(Tail(x), y, c), u = <<x[1]>> \o t
          PROVE  /\ Len(u) = Len(x) + Len(y)
                 /\ \A v : Occurrences(u, v) = Occurrences(x, v) + Occurrences(y, v)
      <4>1. /\ t \in Seq(Stored) /\ Len(t) = Len(Tail(x)) + Len(y)
            /\ \A v : Occurrences(t, v) = Occurrences(Tail(x), v) + Occurrences(y, v)
        BY <1>1, <3>1, <3>2
      <4>2. /\ Len(<<x[1]>> \o t) = Len(x) + Len(y)
            /\ \A v : Occurrences(<<x[1]>> \o t, v) = Occurrences(x, v) + Occurrences(y, v)
        BY <1>3, <2>3, <4>1
      <4> QED
        BY <3>4, <4>2
    <3>5. ASSUME NEW t \in Merge(x, Tail(y), c), u = <<y[1]>> \o t
          PROVE  /\ Len(u) = Len(x) + Len(y)
                 /\ \A v : Occurrences(u, v) = Occurrences(x, v) + Occurrences(y, v)
      <4>1. /\ t \in Seq(Stored) /\ Len(t) = Len(x) + Len(Tail(y))
            /\ \A v : Occurrences(t, v) = Occurrences(x, v) + Occurrences(Tail(y), v)
        BY <1>1, <3>1, <3>2
      <4>2. \A v : /\ Occurrences(x, v) \in Nat /\ Occurrences(Tail(y), v) \in Nat
                   /\ Occurrences(y, v) \in Nat
        BY <1>2, <3>1
      <4>3. Len(x) \in Nat /\ Len(y) \in Nat /\ Len(Tail(y)) \in Nat
        BY <1>2, <3>1
      <4>4. Len(t) = Len(Tail(y)) + Len(x)
        BY <4>1, <4>3
      <4>5. \A v : Occurrences(t, v) = Occurrences(Tail(y), v) + Occurrences(x, v)
        BY <4>1, <4>2
      <4>6. /\ Len(u) = Len(y) + Len(x)
            /\ \A v : Occurrences(u, v) = Occurrences(y, v) + Occurrences(x, v)
        <5>1. /\ Len(<<y[1]>> \o t) = Len(y) + Len(x)
              /\ \A v : Occurrences(<<y[1]>> \o t, v) = Occurrences(y, v) + Occurrences(x, v)
          BY <1>3, <2>3, <4>1, <4>4, <4>5
        <5> QED
          BY <3>5, <5>1
      <4> QED
        BY <4>2, <4>3, <4>6
    <3> QED
      BY <3>3, <3>4, <3>5
  <2> QED
    BY <2>1, <2>2, <2>3
<1>5. <<l, r>> \in Good
  BY <1>4, MergeInduction
<1>6. Keeps(l, r)
  BY <1>0, <1>5
<1> QED
  BY <1>1, <1>6

(* Sorted sequences. *)
Sorted(s) == \A i, j \in DOMAIN s : i < j => ~ Precedes(s[j], s[i])
AllFrom(s, m) == \A i \in DOMAIN s : m <= s[i]

LEMMA StoredNat == Stored \subseteq Nat
BY ArraysAssumption DEF Stored, Value, Undef

LEMMA SortedCons ==
  ASSUME NEW a \in Stored, NEW t \in Seq(Stored)
  PROVE  /\ <<a>> \o t \in Seq(Stored)
         /\ \A m \in Nat : AllFrom(<<a>> \o t, m) <=> m <= a /\ AllFrom(t, m)
         /\ Sorted(<<a>> \o t) <=> AllFrom(t, a) /\ Sorted(t)
<1> DEFINE one == <<a>>
           u == one \o t
           n == Len(t)
<1>1. one \in Seq(Stored) /\ Len(one) = 1 /\ one[1] = a
  OBVIOUS
<1>2. n \in Nat /\ DOMAIN t = 1 .. n /\ \A i \in 1 .. n : t[i] \in Nat
  <2>1. n \in Nat /\ DOMAIN t = 1 .. n
    BY LenProperties
  <2> QED
    BY <2>1, ElementOfSeq, StoredNat
<1> HIDE DEF one
<1>3. /\ u \in Seq(Stored) /\ Len(u) = 1 + n
      /\ \A i \in 1 .. 1 + n : u[i] = IF i <= 1 THEN a ELSE t[i - 1]
  <2>1. /\ one \o t \in Seq(Stored) /\ Len(one \o t) = Len(one) + Len(t)
        /\ \A i \in 1 .. Len(one) + Len(t) : (one \o t)[i] =
             IF i <= Len(one) THEN one[i] ELSE t[i - Len(one)]
    BY <1>1, ConcatProperties
  <2> QED
    BY <1>1, <1>2, <2>1
<1>4. DOMAIN u = 1 .. 1 + n
  BY <1>3, LenProperties
<1> HIDE DEF u, n
<1>5. u[1] = a /\ \A i \in 1 .. n : u[i + 1] = t[i]
  BY <1>2, <1>3
<1>6. \A i \in 1 .. 1 + n : i = 1 \/ (i - 1 \in 1 .. n /\ u[i] = t[i - 1])
  BY <1>2, <1>3
<1>7. 1 \in 1 .. 1 + n /\ \A i \in 1 .. n : i + 1 \in 1 .. 1 + n
  BY <1>2
<1>8. a \in Nat
  BY StoredNat
<1>9. ASSUME NEW m \in Nat PROVE AllFrom(u, m) <=> m <= a /\ AllFrom(t, m)
  <2>1. ASSUME AllFrom(u, m) PROVE m <= a /\ AllFrom(t, m)
    BY <1>2, <1>4, <1>5, <1>7, <2>1 DEF AllFrom
  <2>2. ASSUME m <= a, AllFrom(t, m) PROVE AllFrom(u, m)
    BY <1>2, <1>4, <1>5, <1>6, <2>2 DEF AllFrom
  <2> QED
    BY <2>1, <2>2
<1>10. ASSUME Sorted(u) PROVE AllFrom(t, a) /\ Sorted(t)
  <2>1. AllFrom(t, a)
    <3> SUFFICES ASSUME NEW i \in 1 .. n PROVE a <= t[i]
      BY <1>2 DEF AllFrom
    <3>1. ~ Precedes(u[i + 1], u[1])
      BY <1>2, <1>4, <1>7, <1>10 DEF Sorted
    <3> QED
      BY <1>2, <1>5, <1>8, <3>1 DEF Precedes
  <2>2. Sorted(t)
    <3> SUFFICES ASSUME NEW i \in 1 .. n, NEW j \in 1 .. n, i < j PROVE ~ Precedes(t[j], t[i])
      BY <1>2 DEF Sorted
    <3>1. i + 1 < j + 1
      BY <1>2
    <3>2. ~ Precedes(u[j + 1], u[i + 1])
      BY <1>4, <1>7, <1>10, <3>1 DEF Sorted
    <3> QED
      BY <1>5, <3>2
  <2> QED
    BY <2>1, <2>2
<1>11. ASSUME AllFrom(t, a), Sorted(t) PROVE Sorted(u)
  <2> SUFFICES ASSUME NEW i \in 1 .. 1 + n, NEW j \in 1 .. 1 + n, i < j PROVE ~ Precedes(u[j], u[i])
    BY <1>4 DEF Sorted
  <2>1. j - 1 \in 1 .. n /\ u[j] = t[j - 1]
    BY <1>2, <1>6
  <2>2. CASE i = 1
    <3>1. a <= t[j - 1] /\ t[j - 1] \in Nat
      BY <1>2, <1>11, <2>1 DEF AllFrom
    <3> QED
      BY <1>5, <1>8, <2>1, <2>2, <3>1 DEF Precedes
  <2>3. CASE i # 1
    <3>1. i - 1 \in 1 .. n /\ u[i] = t[i - 1]
      BY <1>6, <2>3
    <3>2. i - 1 < j - 1
      BY <1>2
    <3> QED
      BY <1>2, <1>11, <2>1, <3>1, <3>2 DEF Sorted
  <2> QED
    BY <2>2, <2>3
<1> QED
  BY <1>3, <1>9, <1>10, <1>11 DEF u, one

LEMMA AreCmps == IsCmp(cmp) /\ IsCmp(cmp_js)
BY DEF IsCmp, cmp, cmp_js, Precedes

(* Merging two sorted sequences with the default comparison sorts. *)
LEMMA MergeSortedHalves ==
  ASSUME NEW l \in Seq(Stored), NEW r \in Seq(Stored), Sorted(l), Sorted(r),
         NEW s \in Merge(l, r, cmp)
  PROVE  Sorted(s)
<1> DEFINE Fine(x, y) ==
             Sorted(x) /\ Sorted(y) =>
               \A u \in Merge(x, y, cmp) :
                 /\ Sorted(u)
                 /\ \A m \in Nat : AllFrom(x, m) /\ AllFrom(y, m) => AllFrom(u, m)
           Good == {halves \in Seq(Stored) \X Seq(Stored) : Fine(halves[1], halves[2])}
<1>0. \A x, y \in Seq(Stored) : <<x, y>> \in Good <=> Fine(x, y)
  OBVIOUS
<1>1. IsCmp(cmp) /\ Stored \subseteq Nat
  BY AreCmps, StoredNat
(* The first element of the result, and what follows it. *)
<1>2. ASSUME NEW p \in Seq(Stored), p # <<>>, NEW q \in Seq(Stored), Sorted(p), AllFrom(q, p[1]),
             NEW t \in Seq(Stored), Sorted(t),
             \A m \in Nat : AllFrom(Tail(p), m) /\ AllFrom(q, m) => AllFrom(t, m)
      PROVE  /\ Sorted(<<p[1]>> \o t)
             /\ \A m \in Nat : AllFrom(p, m) /\ AllFrom(q, m) => AllFrom(<<p[1]>> \o t, m)
  <2> DEFINE a == p[1]
             rest == Tail(p)
  <2>1. a \in Stored /\ rest \in Seq(Stored) /\ p = <<a>> \o rest
    BY <1>2, HeadAndTail
  <2>2. AllFrom(q, a) /\ \A m \in Nat : AllFrom(rest, m) /\ AllFrom(q, m) => AllFrom(t, m)
    BY <1>2
  <2> HIDE DEF a, rest
  <2>3. AllFrom(rest, a) /\ \A m \in Nat : AllFrom(p, m) <=> m <= a /\ AllFrom(rest, m)
    <3>1. Sorted(<<a>> \o rest)
      BY <1>2, <2>1
    <3>2. AllFrom(rest, a)
      BY <2>1, <3>1, SortedCons
    <3>3. \A m \in Nat : AllFrom(<<a>> \o rest, m) <=> m <= a /\ AllFrom(rest, m)
      BY <2>1, SortedCons
    <3> QED
      BY <2>1, <3>2, <3>3
  <2>4. AllFrom(t, a)
    BY <1>1, <2>1, <2>2, <2>3
  <2>5. /\ \A m \in Nat : AllFrom(<<a>> \o t, m) <=> m <= a /\ AllFrom(t, m)
        /\ Sorted(<<a>> \o t) <=> AllFrom(t, a) /\ Sorted(t)
    BY <2>1, SortedCons
  <2>6. Sorted(<<a>> \o t)
    BY <1>2, <2>4, <2>5
  <2>7. \A m \in Nat : AllFrom(p, m) /\ AllFrom(q, m) => AllFrom(<<a>> \o t, m)
    BY <2>2, <2>3, <2>5
  <2> QED
    BY <2>6, <2>7 DEF a
<1>3. ASSUME NEW p \in Seq(Stored), p # <<>>, Sorted(p), NEW m \in Nat, m <= p[1]
      PROVE  AllFrom(p, m)
  <2> DEFINE n == Len(p)
  <2>1. n \in Nat /\ DOMAIN p = 1 .. n /\ n # 0
    BY <1>3, EmptySeq, LenProperties
  <2>2. \A i \in 1 .. n : p[i] \in Nat
    BY <1>1, <2>1, ElementOfSeq
  <2> HIDE DEF n
  <2> SUFFICES ASSUME NEW i \in 1 .. n, i # 1 PROVE m <= p[i]
    BY <1>3, <2>1 DEF AllFrom
  <2>3. 1 \in 1 .. n /\ 1 < i
    BY <2>1
  <2>4. ~ p[i] < p[1]
    BY <1>3, <2>1, <2>3 DEF Sorted, Precedes
  <2> QED
    BY <1>3, <2>2, <2>3, <2>4
<1>4. \A x \in Seq(Stored) : x # <<>> => x[1] \in Stored /\ Tail(x) \in Seq(Stored)
  BY HeadAndTail
<1>5. ASSUME NEW p \in Seq(Stored), p # <<>>, Sorted(p) PROVE Sorted(Tail(p))
  <2> DEFINE a == p[1]
             rest == Tail(p)
  <2>1. a \in Stored /\ rest \in Seq(Stored) /\ p = <<a>> \o rest
    BY <1>5, HeadAndTail
  <2> HIDE DEF a, rest
  <2>2. Sorted(rest)
    BY <1>5, <2>1, SortedCons
  <2> QED
    BY <2>2 DEF rest
<1>b. \A a, b \in Stored : cmp[<<a, b>>] = {Precedes(a, b)}
  <2> SUFFICES ASSUME NEW a \in Stored, NEW b \in Stored PROVE cmp[<<a, b>>] = {Precedes(a, b)}
    OBVIOUS
  <2> DEFINE pair == <<a, b>>
  <2>1. pair \in Stored \X Stored /\ pair[1] = a /\ pair[2] = b
    OBVIOUS
  <2> HIDE DEF pair
  <2> QED
    BY <2>1 DEF cmp, pair
<1>6. \A a, b \in Stored : TRUE \in cmp[<<a, b>>] => a <= b
  <2> SUFFICES ASSUME NEW a \in Stored, NEW b \in Stored, TRUE \in cmp[<<a, b>>] PROVE a <= b
    OBVIOUS
  <2>1. TRUE \in {Precedes(a, b)}
    BY <1>b
  <2>2. Precedes(a, b)
    BY <2>1
  <2> QED
    BY <1>1, <2>2 DEF Precedes
<1>7. \A a, b \in Stored : FALSE \in cmp[<<a, b>>] => b <= a
  <2> SUFFICES ASSUME NEW a \in Stored, NEW b \in Stored, ~ Precedes(a, b) PROVE b <= a
    BY <1>b
  <2> QED
    BY <1>1 DEF Precedes
<1> HIDE DEF Good
<1>8. ASSUME NEW x \in Seq(Stored), NEW y \in Seq(Stored),
             x # <<>> /\ y # <<>> => <<Tail(x), y>> \in Good /\ <<x, Tail(y)>> \in Good
      PROVE  <<x, y>> \in Good
  <2> SUFFICES ASSUME Sorted(x), Sorted(y), NEW u \in Merge(x, y, cmp)
               PROVE  /\ Sorted(u)
                      /\ \A m \in Nat : AllFrom(x, m) /\ AllFrom(y, m) => AllFrom(u, m)
    BY <1>0
  <2>1. CASE x = <<>>
    <3>1. u = y
      BY <1>1, <2>1, MergeEmpty
    <3> QED
      BY <3>1
  <2>2. CASE x # <<>> /\ y = <<>>
    <3>1. u = x
      BY <1>1, <2>2, MergeEmpty
    <3> QED
      BY <3>1
  <2>3. CASE x # <<>> /\ y # <<>>
    <3>1. /\ Tail(x) \in Seq(Stored) /\ Tail(y) \in Seq(Stored) /\ x[1] \in Stored /\ y[1] \in Stored
          /\ x[1] \in Nat /\ y[1] \in Nat
      BY <1>1, <1>4, <2>3
    <3>2. Fine(Tail(x), y) /\ Fine(x, Tail(y))
      BY <1>0, <1>8, <2>3, <3>1
    <3>3. TakesLeft(u, x, y, cmp) \/ TakesRight(u, x, y, cmp)
      BY <1>1, <2>3, MergeBoth
    <3>4. CASE TakesLeft(u, x, y, cmp)
      <4>1. PICK t \in Merge(Tail(x), y, cmp) : u = <<x[1]>> \o t
        BY <3>4 DEF TakesLeft
      <4>2. x[1] <= y[1]
        BY <1>6, <3>1, <3>4 DEF TakesLeft
      <4>3. AllFrom(y, x[1])
        BY <1>3, <2>3, <3>1, <4>2
      <4>4. Sorted(Tail(x))
        BY <1>5, <2>3
      <4>5. t \in Seq(Stored)
        BY <1>1, <3>1, MergeSeqs
      <4>6. Sorted(t) /\ \A m \in Nat : AllFrom(Tail(x), m) /\ AllFrom(y, m) => AllFrom(t, m)
        BY <3>2, <4>4
      <4>7. /\ Sorted(<<x[1]>> \o t)
            /\ \A m \in Nat : AllFrom(x, m) /\ AllFrom(y, m) => AllFrom(<<x[1]>> \o t, m)
        BY <1>2, <2>3, <4>3, <4>5, <4>6
      <4> QED
        BY <4>1, <4>7
    <3>5. CASE TakesRight(u, x, y, cmp)
      <4>1. PICK t \in Merge(x, Tail(y), cmp) : u = <<y[1]>> \o t
        BY <3>5 DEF TakesRight
      <4>2. y[1] <= x[1]
        BY <1>7, <3>1, <3>5 DEF TakesRight
      <4>3. AllFrom(x, y[1])
        BY <1>3, <2>3, <3>1, <4>2
      <4>4. Sorted(Tail(y))
        BY <1>5, <2>3
      <4>5. t \in Seq(Stored)
        BY <1>1, <3>1, MergeSeqs
      <4>6. Sorted(t) /\ \A m \in Nat : AllFrom(Tail(y), m) /\ AllFrom(x, m) => AllFrom(t, m)
        BY <3>2, <4>4
      <4>7. /\ Sorted(<<y[1]>> \o t)
            /\ \A m \in Nat : AllFrom(y, m) /\ AllFrom(x, m) => AllFrom(<<y[1]>> \o t, m)
        BY <1>2, <2>3, <4>3, <4>5, <4>6
      <4> QED
        BY <4>1, <4>7
    <3> QED
      BY <3>3, <3>4, <3>5
  <2> QED
    BY <2>1, <2>2, <2>3
<1>9. <<l, r>> \in Good
  BY <1>8, MergeInduction
<1> QED
  BY <1>0, <1>9

-----------------------------------------------------------------------------
(* merge_sort.                                                             *)

LeftHalf(s) == SubSeq(s, 1, Len(s) \div 2)
RightHalf(s) == SubSeq(s, Len(s) \div 2 + 1, Len(s))

LEMMA Halves ==
  ASSUME NEW s \in Seq(Stored), Len(s) > 1
  PROVE  /\ LeftHalf(s) \in Seq(Stored) /\ RightHalf(s) \in Seq(Stored)
         /\ Len(LeftHalf(s)) \in Nat /\ Len(LeftHalf(s)) < Len(s)
         /\ Len(RightHalf(s)) \in Nat /\ Len(RightHalf(s)) < Len(s)
         /\ Len(s) = Len(LeftHalf(s)) + Len(RightHalf(s))
         /\ s = LeftHalf(s) \o RightHalf(s)
<1> DEFINE n == Len(s)
           h == n \div 2
<1>1. n \in Nat /\ n > 1 /\ \A i \in 1 .. n : s[i] \in Stored
  BY LenProperties, ElementOfSeq
<1> HIDE DEF n
<1>2. h \in Nat /\ h >= 1 /\ h < n
  BY <1>1
<1> HIDE DEF h
<1>3. SubSeq(s, 1, h) \in Seq(Stored) /\ Len(SubSeq(s, 1, h)) = h
  <2>1. \A i \in 1 .. h : s[i] \in Stored
    BY <1>1, <1>2
  <2>2. /\ SubSeq(s, 1, h) \in Seq(Stored)
        /\ Len(SubSeq(s, 1, h)) = IF 1 <= h THEN h - 1 + 1 ELSE 0
    BY <1>2, <2>1, SubSeqProperties
  <2> QED
    BY <1>2, <2>2
<1>4. SubSeq(s, h + 1, n) \in Seq(Stored) /\ Len(SubSeq(s, h + 1, n)) = n - h
  <2>1. (\A i \in h + 1 .. n : s[i] \in Stored) /\ h + 1 \in Int /\ n \in Int
    BY <1>1, <1>2
  <2>2. /\ SubSeq(s, h + 1, n) \in Seq(Stored)
        /\ Len(SubSeq(s, h + 1, n)) = IF h + 1 <= n THEN n - (h + 1) + 1 ELSE 0
    BY <2>1, SubSeqProperties
  <2> QED
    BY <1>1, <1>2, <2>2
<1>5. SubSeq(s, 1, h) \o SubSeq(s, h + 1, n) = s
  <2>1. 1 \in 1 .. Len(s) + 1 /\ h \in 1 - 1 .. Len(s) /\ n \in h .. Len(s)
    BY <1>1, <1>2 DEF n
  <2>2. SubSeq(s, 1, h) \o SubSeq(s, h + 1, n) = SubSeq(s, 1, n)
    BY <2>1, ConcatAdjacentSubSeq
  <2>3. SubSeq(s, 1, n) = s
    <3>1. SubSeq(s, 1, n) \in Seq(Stored) /\ Len(SubSeq(s, 1, n)) = n
          /\ \A i \in 1 .. n : SubSeq(s, 1, n)[i] = s[i]
      <4>1. n \in 0 .. Len(s)
        BY <1>1 DEF n
      <4> QED
        BY <4>1, Prefix
    <3>2. Len(s) = n
      BY DEF n
    <3> QED
      BY <3>1, <3>2, SeqEqual
  <2> QED
    BY <2>2, <2>3
<1>6. LeftHalf(s) = SubSeq(s, 1, h) /\ RightHalf(s) = SubSeq(s, h + 1, n) /\ Len(s) = n
  BY DEF LeftHalf, RightHalf, h, n
<1> QED
  BY <1>1, <1>2, <1>3, <1>4, <1>5, <1>6

(* The recursion of merge_sort. *)
SortStep(recur, s, c) ==
  IF Len(s) <= 1 THEN {s}
  ELSE UNION {Merge(a, b, c) : a \in recur[LeftHalf(s)], b \in recur[RightHalf(s)]}

SortFunction(c) == CHOOSE f : f = [s \in Seq(Stored) |-> SortStep(f, s, c)]

LEMMA SortIsFunction ==
  ASSUME NEW s, NEW c
  PROVE  MergeSort(s, c) = SortFunction(c)[s]
BY DEF MergeSort, SortStep, SortFunction, LeftHalf, RightHalf

LEMMA SortRecursion ==
  ASSUME NEW c, IsCmp(c)
  PROVE  \E f : \A s \in Seq(Stored) :
           /\ f[s] = MergeSort(s, c)
           /\ MergeSort(s, c) \in SUBSET Seq(Stored)
           /\ MergeSort(s, c) = SortStep(f, s, c)
<1> DEFINE S == Seq(Stored)
           T == SUBSET S
           rank == [s \in S |-> Len(s)]
           step == [y \in S \X [S -> T] |-> SortStep(y[2], y[1], c)]
           f == SortFunction(c)
<1>1. rank \in [S -> Nat] /\ \A s \in S : rank[s] = Len(s)
  BY LenProperties
<1>2. ASSUME NEW s \in S, ~ Len(s) <= 1
      PROVE  /\ LeftHalf(s) \in S /\ RightHalf(s) \in S
             /\ rank[LeftHalf(s)] < rank[s] /\ rank[RightHalf(s)] < rank[s]
  <2>1. Len(s) > 1
    <3>1. Len(s) \in Nat
      BY LenProperties
    <3> QED
      BY <1>2, <3>1
  <2>2. /\ LeftHalf(s) \in S /\ RightHalf(s) \in S
        /\ Len(LeftHalf(s)) < Len(s) /\ Len(RightHalf(s)) < Len(s)
    BY <2>1, Halves
  <2> HIDE DEF rank
  <2> QED
    BY <1>1, <2>2
<1> HIDE DEF rank
<1>3. ASSUME NEW s \in S, NEW g \in [S -> T] PROVE SortStep(g, s, c) \in T
  <2>1. CASE Len(s) <= 1
    BY <2>1 DEF SortStep
  <2>2. CASE ~ Len(s) <= 1
    <3>1. g[LeftHalf(s)] \subseteq S /\ g[RightHalf(s)] \subseteq S
      BY <1>2, <2>2
    <3>2. SortStep(g, s, c) =
            UNION {Merge(a, b, c) : a \in g[LeftHalf(s)], b \in g[RightHalf(s)]}
      BY <2>2 DEF SortStep
    <3>3. ASSUME NEW u \in SortStep(g, s, c) PROVE u \in S
      <4>1. PICK a \in g[LeftHalf(s)], b \in g[RightHalf(s)] : u \in Merge(a, b, c)
        BY <3>2, <3>3
      <4>2. a \in Seq(Stored) /\ b \in Seq(Stored)
        BY <3>1
      <4> QED
        BY <4>1, <4>2, MergeSeqs
    <3> QED
      BY <3>3
  <2> QED
    BY <2>1, <2>2
<1>4. step \in [S \X [S -> T] -> T] /\ \A s \in S, g \in [S -> T] : step[<<s, g>>] = SortStep(g, s, c)
  BY <1>3
<1> HIDE DEF step
<1>5. ASSUME NEW s \in S, NEW g, NEW h, \A y \in S : rank[y] < rank[s] => g[y] = h[y]
      PROVE  SortStep(g, s, c) = SortStep(h, s, c)
  <2>1. CASE Len(s) <= 1
    BY <2>1 DEF SortStep
  <2>2. CASE ~ Len(s) <= 1
    <3>1. g[LeftHalf(s)] = h[LeftHalf(s)] /\ g[RightHalf(s)] = h[RightHalf(s)]
      BY <1>2, <1>5, <2>2
    <3> QED
      BY <2>2, <3>1 DEF SortStep
  <2> QED
    BY <2>1, <2>2
<1>6. T # {}
  OBVIOUS
<1> HIDE DEF T
<1>7. LooksBelow(S, T, rank, step)
  <2> SUFFICES ASSUME NEW s \in S, NEW g \in [S -> T], NEW h \in [S -> T],
                      \A y \in S : rank[y] < rank[s] => g[y] = h[y]
               PROVE  step[<<s, g>>] = step[<<s, h>>]
    BY DEF LooksBelow
  <2>1. SortStep(g, s, c) = SortStep(h, s, c)
    BY <1>5
  <2> QED
    BY <1>4, <2>1
<1>8. IsRecursion(S, T, rank, step)
  BY <1>1, <1>4, <1>6, <1>7 DEF IsRecursion
<1>9. PICK g \in [S -> T] : \A s \in S : g[s] = step[<<s, g>>]
  BY <1>8, Recursion
<1>10. g = [s \in S |-> SortStep(g, s, c)]
  BY <1>4, <1>9
<1>11. f = [s \in S |-> SortStep(f, s, c)]
  <2>1. SortFunction(c) = CHOOSE h : h = [s \in S |-> SortStep(h, s, c)]
    BY DEF SortFunction
  <2> QED
    BY <1>10, <2>1
<1> HIDE DEF f
<1>12. \A s \in S : f[s] = SortStep(f, s, c)
  BY <1>11
<1>13. \A s \in S : f[s] \in T
  <2> DEFINE Bad == {n \in Nat : \E s \in S : rank[s] = n /\ f[s] \notin T}
  <2> HIDE DEF S
  <2> SUFFICES ASSUME Bad # {} PROVE FALSE
    BY <1>1
  <2>1. PICK n \in Bad : \A k \in Bad : n <= k
    <3>1. Bad \in SUBSET Nat
      OBVIOUS
    <3> HIDE DEF Bad
    <3> QED
      BY <3>1, Least
  <2>2. PICK s \in S : rank[s] = n /\ f[s] \notin T
    BY <2>1
  <2> DEFINE h == [y \in S |-> IF f[y] \in T THEN f[y] ELSE {}]
  <2>3. h \in [S -> T]
    <3>1. {} \in T
      BY DEF T
    <3> QED
      BY <3>1
  <2>4. \A y \in S : rank[y] < rank[s] => f[y] = h[y]
    BY <1>1, <2>1, <2>2
  <2> HIDE DEF h
  <2>5. SortStep(f, s, c) = SortStep(h, s, c)
    BY <1>5, <2>4
  <2>6. SortStep(h, s, c) \in T
    BY <1>3, <2>3
  <2> QED
    BY <1>12, <2>2, <2>5, <2>6
<1> QED
  BY <1>12, <1>13, SortIsFunction DEF f, T

LEMMA SortShort ==
  ASSUME NEW c, IsCmp(c), NEW s \in Seq(Stored), Len(s) <= 1, NEW t \in MergeSort(s, c)
  PROVE  t = s
<1>1. PICK f : MergeSort(s, c) = SortStep(f, s, c)
  BY SortRecursion
<1> QED
  BY <1>1 DEF SortStep

LEMMA SortLong ==
  ASSUME NEW c, IsCmp(c), NEW s \in Seq(Stored), Len(s) > 1, NEW t \in MergeSort(s, c)
  PROVE  \E a \in MergeSort(LeftHalf(s), c), b \in MergeSort(RightHalf(s), c) : t \in Merge(a, b, c)
<1>1. LeftHalf(s) \in Seq(Stored) /\ RightHalf(s) \in Seq(Stored)
  BY Halves
<1>2. PICK f : /\ MergeSort(s, c) = SortStep(f, s, c)
               /\ f[LeftHalf(s)] = MergeSort(LeftHalf(s), c)
               /\ f[RightHalf(s)] = MergeSort(RightHalf(s), c)
  BY <1>1, SortRecursion
<1>3. ~ Len(s) <= 1
  <2>1. Len(s) \in Nat
    BY LenProperties
  <2> QED
    BY <2>1
<1>4. MergeSort(s, c) = UNION {Merge(a, b, c) : a \in MergeSort(LeftHalf(s), c),
                                                b \in MergeSort(RightHalf(s), c)}
  BY <1>2, <1>3 DEF SortStep
<1> QED
  BY <1>4

(* What holds of a sequence if it holds of its halves holds of all. *)
LEMMA SortInduction ==
  ASSUME NEW Good,
         \A s \in Seq(Stored) :
           (Len(s) > 1 => LeftHalf(s) \in Good /\ RightHalf(s) \in Good) => s \in Good
  PROVE  \A s \in Seq(Stored) : s \in Good
<1> DEFINE Bad == {n \in Nat : \E s \in Seq(Stored) : Len(s) = n /\ s \notin Good}
<1> SUFFICES ASSUME NEW u \in Seq(Stored), u \notin Good PROVE FALSE
  OBVIOUS
<1>1. PICK n \in Bad : \A k \in Bad : n <= k
  <2>1. Bad \in SUBSET Nat
    OBVIOUS
  <2>2. Len(u) \in Bad
    <3>1. Len(u) \in Nat
      BY LenProperties
    <3> QED
      BY <3>1
  <2> HIDE DEF Bad
  <2> QED
    BY <2>1, <2>2, Least
<1>2. PICK s \in Seq(Stored) : Len(s) = n /\ s \notin Good
  BY <1>1
<1>3. Len(s) > 1
  BY <1>2
<1>4. /\ LeftHalf(s) \in Seq(Stored) /\ RightHalf(s) \in Seq(Stored)
      /\ Len(LeftHalf(s)) \in Nat /\ Len(LeftHalf(s)) < Len(s)
      /\ Len(RightHalf(s)) \in Nat /\ Len(RightHalf(s)) < Len(s)
  BY <1>3, Halves
<1>5. Len(LeftHalf(s)) \notin Bad /\ Len(RightHalf(s)) \notin Bad
  <2>1. n \in Nat
    BY <1>1
  <2> HIDE DEF Bad
  <2>2. \A k \in Nat : k < n => k \notin Bad
    BY <1>1, <2>1
  <2> QED
    BY <1>2, <1>4, <2>2
<1>6. LeftHalf(s) \in Good /\ RightHalf(s) \in Good
  BY <1>4, <1>5
<1> QED
  BY <1>2, <1>6

(* Sorting permutes. *)
LEMMA SortPermutes ==
  ASSUME NEW c, IsCmp(c), NEW s \in Seq(Stored), NEW t \in MergeSort(s, c)
  PROVE  /\ t \in Seq(Stored)
         /\ Len(t) = Len(s)
         /\ \A v : Occurrences(t, v) = Occurrences(s, v)
<1> DEFINE Fine(x) == \A u \in MergeSort(x, c) :
                        /\ Len(u) = Len(x)
                        /\ \A v : Occurrences(u, v) = Occurrences(x, v)
           Good == {x \in Seq(Stored) : Fine(x)}
<1>0. \A x \in Seq(Stored) : x \in Good <=> Fine(x)
  OBVIOUS
<1>1. \A x \in Seq(Stored) : \A u \in MergeSort(x, c) : u \in Seq(Stored)
  BY SortRecursion
<1> HIDE DEF Good
<1>2. ASSUME NEW x \in Seq(Stored),
             Len(x) > 1 => LeftHalf(x) \in Good /\ RightHalf(x) \in Good
      PROVE  x \in Good
  <2> SUFFICES ASSUME NEW u \in MergeSort(x, c)
               PROVE  Len(u) = Len(x) /\ \A v : Occurrences(u, v) = Occurrences(x, v)
    BY <1>0
  <2>1. CASE Len(x) <= 1
    <3>1. u = x
      BY <2>1, SortShort
    <3> QED
      BY <3>1
  <2>2. CASE Len(x) > 1
    <3> DEFINE l == LeftHalf(x)
               r == RightHalf(x)
    <3>1. /\ l \in Seq(Stored) /\ r \in Seq(Stored) /\ x = l \o r
          /\ Len(x) = Len(l) + Len(r)
      BY <2>2, Halves
    <3>2. PICK a \in MergeSort(l, c), b \in MergeSort(r, c) : u \in Merge(a, b, c)
      BY <2>2, SortLong
    <3>3. Fine(l) /\ Fine(r)
      BY <1>0, <1>2, <2>2, <3>1
    <3> HIDE DEF l, r
    <3>4. a \in Seq(Stored) /\ b \in Seq(Stored)
      BY <1>1, <3>1
    <3>5. /\ Len(u) = Len(a) + Len(b)
          /\ \A v : Occurrences(u, v) = Occurrences(a, v) + Occurrences(b, v)
      BY <3>2, <3>4, MergeKeeps
    <3>6. \A v : Occurrences(l \o r, v) = Occurrences(l, v) + Occurrences(r, v)
      BY <3>1, OccurrencesConcat
    <3> QED
      BY <3>1, <3>3, <3>5, <3>6
  <2>3. Len(x) \in Nat
    BY LenProperties
  <2> QED
    BY <2>1, <2>2, <2>3
<1>3. s \in Good
  BY <1>2, SortInduction
<1> QED
  BY <1>0, <1>1, <1>3

(* With the default comparison function it sorts. *)
LEMMA SortGivesSorted ==
  ASSUME NEW s \in Seq(Stored), NEW t \in MergeSort(s, cmp)
  PROVE  Sorted(t)
<1> DEFINE Fine(x) == \A u \in MergeSort(x, cmp) : Sorted(u)
           Good == {x \in Seq(Stored) : Fine(x)}
<1>0. \A x \in Seq(Stored) : x \in Good <=> Fine(x)
  OBVIOUS
<1>a. IsCmp(cmp)
  BY AreCmps
<1>1. \A x \in Seq(Stored) : \A u \in MergeSort(x, cmp) : u \in Seq(Stored)
  BY <1>a, SortRecursion
<1> HIDE DEF Good
<1>2. ASSUME NEW x \in Seq(Stored),
             Len(x) > 1 => LeftHalf(x) \in Good /\ RightHalf(x) \in Good
      PROVE  x \in Good
  <2> SUFFICES ASSUME NEW u \in MergeSort(x, cmp) PROVE Sorted(u)
    BY <1>0
  <2>0. Len(x) \in Nat /\ DOMAIN x = 1 .. Len(x)
    BY LenProperties
  <2>1. CASE Len(x) <= 1
    <3>1. u = x
      BY <1>a, <2>1, SortShort
    <3>2. \A i, j \in 1 .. Len(x) : ~ i < j
      BY <2>0, <2>1
    <3> QED
      BY <2>0, <3>1, <3>2 DEF Sorted
  <2>2. CASE Len(x) > 1
    <3>1. LeftHalf(x) \in Seq(Stored) /\ RightHalf(x) \in Seq(Stored)
      BY <2>2, Halves
    <3>2. PICK a \in MergeSort(LeftHalf(x), cmp), b \in MergeSort(RightHalf(x), cmp) :
            u \in Merge(a, b, cmp)
      BY <1>a, <2>2, SortLong
    <3>3. Sorted(a) /\ Sorted(b)
      BY <1>0, <1>2, <2>2, <3>1
    <3>4. a \in Seq(Stored) /\ b \in Seq(Stored)
      BY <1>1, <3>1
    <3> QED
      BY <3>2, <3>3, <3>4, MergeSortedHalves
  <2> QED
    BY <2>0, <2>1, <2>2
<1>3. s \in Good
  BY <1>2, SortInduction
<1> QED
  BY <1>0, <1>3
-----------------------------------------------------------------------------
(* The inductive invariant.                                                *)

(* The number of callbacks that an iteration makes if nothing stops it,    *)
(* and the index of the k-th.                                              *)
Rounds(it) == IF it.method \in {"reduce", "reduceRight"} THEN it.len - 1 ELSE it.len

Nth(it, k) ==
  IF it.method \in Descending THEN Rounds(it) - k ELSE it.len - Rounds(it) + k - 1

(* Where an iteration stands in the middle of its m-th callback. *)
Stands(it, m) ==
  /\ m \in 1 .. Rounds(it)
  /\ it.seen = [k \in 1 .. m |-> Nth(it, k)]
  /\ it.i = Nth(it, m)

IterInv ==
  iter # Idle =>
    /\ iter \in [method : Method, len : Nat, i : Nat, seen : Seq(Nat)]
    /\ \E m \in Nat : Stands(iter, m)

MapInv ==
  /\ DOMAIN map \subseteq Nat
  /\ \A i \in DOMAIN map : map[i] \in Stored

IInv ==
  /\ length \in Nat /\ length <= MaxLen
  /\ MapInv
  /\ IterInv
  /\ stray \in BOOLEAN /\ ElementsBelowLength

-----------------------------------------------------------------------------
(* What a script reads.                                                    *)

LEMMA GetStored ==
  ASSUME MapInv
  PROVE  \A i : Get(map, i) \in Stored
BY DEF MapInv, Get, Stored

(* What a script reads from a map is a sequence. *)
LEMMA ReadsSeq ==
  ASSUME NEW m, NEW first \in Nat, NEW last \in Nat, NEW S, \A i \in Nat : Get(m, i) \in S
  PROVE  /\ Reads(m, first, last) \in Seq(S)
         /\ Len(Reads(m, first, last)) = IF first <= last THEN last - first ELSE 0
         /\ \A i \in 1 .. last - first : Reads(m, first, last)[i] = Get(m, first + i - 1)
<1>1. CASE first <= last
  <2>1. last - first \in Nat
    BY <1>1
  <2>2. \A i \in 1 .. last - first : first + i - 1 \in Nat
    BY <1>1
  <2>3. Reads(m, first, last) \in [1 .. last - first -> S]
    BY <2>2 DEF Reads
  <2>4. Reads(m, first, last) \in Seq(S) /\ Len(Reads(m, first, last)) = last - first
    BY <2>1, <2>3, FunctionIsSeq
  <2> QED
    BY <1>1, <2>4 DEF Reads
<1>2. CASE ~ first <= last
  <2>1. 1 .. last - first = {}
    BY <1>2
  <2>2. Reads(m, first, last) \in [1 .. 0 -> S]
    BY <2>1 DEF Reads
  <2>3. Reads(m, first, last) \in Seq(S) /\ Len(Reads(m, first, last)) = 0
    BY <2>2, FunctionIsSeq
  <2> QED
    BY <1>2, <2>1, <2>3
<1> QED
  BY <1>1, <1>2

(* Arguments are sequences. *)
LEMMA ArgsSeq ==
  ASSUME NEW args \in Args
  PROVE  args \in Seq(Stored) /\ Len(args) \in Nat /\ \A i \in 1 .. Len(args) : args[i] \in Value
<1>1. PICK n \in 0 .. MaxArgs : args \in [1 .. n -> Value]
  BY DEF Args
<1>2. n \in Nat
  BY ArraysAssumption
<1>3. args \in Seq(Value) /\ Len(args) = n
  BY <1>1, <1>2, FunctionIsSeq
<1>4. args \in [1 .. n -> Stored]
  BY <1>1 DEF Stored
<1> QED
  BY <1>1, <1>2, <1>3, <1>4, FunctionIsSeq

(* Words are natural numbers. *)
LEMMA WordsNat ==
  /\ \A n \in ArgWords : n \in Nat
  /\ \A n \in ArgWords : n # WordMax => n \in 0 .. MaxLen
BY ArraysAssumption DEF ArgWords, Words, WordMax

(* What splice keeps is a sequence. *)
LEMMA KeepersSeq ==
  ASSUME length \in Nat, MapInv, NEW index \in Nat, NEW howMany \in Nat, NEW args \in Args
  PROVE  Keepers(index, howMany, args) \in Seq(Stored)
<1> DEFINE last == IF index + howMany < length THEN length ELSE index + howMany
<1>1. \A i \in Nat : Get(map, i) \in Stored
  BY GetStored
<1>2. last \in Nat /\ index + howMany \in Nat
  OBVIOUS
<1> HIDE DEF last
<1>3. /\ Reads(map, 0, index) \in Seq(Stored) /\ Reads(map, 0, length) \in Seq(Stored)
      /\ Reads(map, index + howMany, last) \in Seq(Stored)
      /\ args \in Seq(Stored)
  BY <1>1, <1>2, ReadsSeq, ArgsSeq
<1>4. Reads(map, 0, index) \o args \o Reads(map, index + howMany, last) \in Seq(Stored)
  BY <1>3, ConcatProperties
<1> QED
  BY <1>3, <1>4 DEF Keepers, last

(* A map filled with a sequence. *)
LEMMA FilledMap ==
  ASSUME NEW s \in Seq(Stored)
  PROVE  /\ Len(s) \in Nat
         /\ DOMAIN Filled(s) = 0 .. Len(s) - 1
         /\ \A i \in 0 .. Len(s) - 1 : Filled(s)[i] = s[i + 1] /\ Filled(s)[i] \in Stored
<1>1. Len(s) \in Nat
  BY LenProperties
<1>2. \A i \in 0 .. Len(s) - 1 : i + 1 \in 1 .. Len(s)
  BY <1>1
<1>3. \A i \in 1 .. Len(s) : s[i] \in Stored
  BY ElementOfSeq
<1> QED
  BY <1>1, <1>2, <1>3 DEF Filled

-----------------------------------------------------------------------------
(* Steps.                                                                  *)

(* What a sort leaves in the map. *)
LEMMA SortedMap ==
  ASSUME length \in Nat, MapInv, NEW c, IsCmp(c), NEW s \in MergeSort(Reads(map, 0, length), c)
  PROVE  s \in Seq(Stored) /\ Len(s) = length
<1>1. Reads(map, 0, length) \in Seq(Stored) /\ Len(Reads(map, 0, length)) = length
  <2>1. \A i \in Nat : Get(map, i) \in Stored
    BY GetStored
  <2>2. /\ Reads(map, 0, length) \in Seq(Stored)
        /\ Len(Reads(map, 0, length)) = IF 0 <= length THEN length - 0 ELSE 0
    BY <2>1, ReadsSeq
  <2> QED
    BY <2>2
<1> QED
  BY <1>1, SortPermutes

Fits ==
  /\ length' \in Nat /\ length' <= MaxLen
  /\ MapInv'
  /\ stray' \in BOOLEAN /\ ElementsBelowLength'

(* No step puts anything but values into the map, or an element beyond the *)
(* length, unless it strays.                                               *)
LEMMA MapStep ==
  ASSUME IInv, [Next]_vars
  PROVE  Fits
<1> USE DEF IInv
<1>a. stray' \in BOOLEAN
  BY DEF Next, vars, Push, Unshift, Pop, Shift, Reverse, Sort, SortWith, SortBy, Splice, Assign,
         AssignKey, Increment, AssignLength, Begin, MoveOn, Delete, Step, Goes, Ends, Ended
<1>0. UNCHANGED <<map, length, stray>> => Fits
  BY DEF MapInv, ElementsBelowLength, Fits
<1>1. ASSUME NEW args \in Args, Push(args) PROVE Fits
  <2> DEFINE n == Len(args)
             new == length .. length + n - 1
  <2>1. n \in Nat /\ \A i \in 1 .. n : args[i] \in Value
    BY ArgsSeq
  <2>2. /\ map' = [i \in DOMAIN map \cup new |-> IF i \in new THEN args[i - length + 1] ELSE map[i]]
        /\ length' = length + n /\ length + n <= MaxLen /\ stray' = stray
    BY <1>1 DEF Push, SetLen, Step
  <2> HIDE DEF n
  <2>3. \A i \in new : i \in Nat /\ i < length + n /\ i - length + 1 \in 1 .. n
    BY <2>1
  <2>4. length' \in Nat /\ length' <= MaxLen
    BY <2>1, <2>2
  <2>5. MapInv'
    <3>1. DOMAIN map' = DOMAIN map \cup new
      BY <2>2
    <3>2. \A i \in DOMAIN map' : map'[i] = IF i \in new THEN args[i - length + 1] ELSE map[i]
      BY <2>2
    <3> HIDE DEF new
    <3> QED
      BY <2>1, <2>3, <3>1, <3>2 DEF MapInv, Stored
  <2>6. ASSUME ~ stray' PROVE ElementsBelowLength'
    <3>1. DOMAIN map' = DOMAIN map \cup new
      BY <2>2
    <3>2. \A i \in DOMAIN map : i \in Nat /\ i < length + n
      BY <2>1, <2>2, <2>6 DEF ElementsBelowLength, MapInv
    <3> HIDE DEF new
    <3> QED
      BY <2>2, <2>3, <3>1, <3>2 DEF ElementsBelowLength
  <2> QED
    BY <1>a, <2>4, <2>5, <2>6 DEF Fits, ElementsBelowLength
<1>2. ASSUME NEW s \in Seq(Stored), map' = Filled(s), length' = Len(s), length' <= MaxLen
      PROVE  Fits
  <2>1. /\ Len(s) \in Nat /\ DOMAIN map' = 0 .. Len(s) - 1
        /\ \A i \in 0 .. Len(s) - 1 : map'[i] \in Stored
    BY <1>2, FilledMap
  <2> QED
    BY <1>a, <1>2, <2>1 DEF MapInv, ElementsBelowLength, Fits
<1>3. ASSUME NEW args \in Args, Unshift(args) PROVE Fits
  <2> DEFINE r == Reads(map, 0, length)
  <2>1. args \in Seq(Stored) /\ Len(args) \in Nat
    BY ArgsSeq
  <2>2. \A i \in Nat : Get(map, i) \in Stored
    BY GetStored
  <2>3. r \in Seq(Stored) /\ Len(r) = IF 0 <= length THEN length - 0 ELSE 0
    BY <2>2, ReadsSeq
  <2>4. map' = Filled(args \o r) /\ length' = length + Len(args) /\ length' <= MaxLen
    BY <1>3 DEF Unshift, SetLen
  <2> HIDE DEF r
  <2>5. args \o r \in Seq(Stored) /\ Len(args \o r) = Len(args) + Len(r)
    BY <2>1, <2>3, ConcatProperties
  <2>6. length' = Len(args \o r)
    BY <2>1, <2>3, <2>4, <2>5
  <2> QED
    BY <1>2, <2>4, <2>5, <2>6
<1>4. ASSUME NEW index \in ArgWords, NEW howMany \in ArgWords, NEW args \in Args,
             Splice(index, howMany, args)
      PROVE  Fits
  <2>1. index \in Nat /\ howMany \in Nat
    BY WordsNat
  <2>2. Keepers(index, howMany, args) \in Seq(Stored)
    BY <2>1, KeepersSeq
  <2>3. \/ /\ map' = Filled(Keepers(index, howMany, args))
           /\ length' = Len(Keepers(index, howMany, args)) /\ length' <= MaxLen
        \/ UNCHANGED <<map, length, stray>>
    BY <1>4 DEF Splice, SetLen, Ends
  <2> QED
    BY <1>2, <1>0, <2>2, <2>3
<1>5. ASSUME NEW c, IsCmp(c), SortBy(c) PROVE Fits
  <2>1. CASE UNCHANGED <<map, length, stray>>
    BY <1>0, <2>1
  <2>2. ASSUME NEW s \in MergeSort(Reads(map, 0, length), c),
               map' = [j \in 0 .. length - 1 |-> s[j + 1]], length' = length
        PROVE  Fits
    <3>1. s \in Seq(Stored) /\ Len(s) = length
      BY <1>5, SortedMap
    <3>2. map' = Filled(s) /\ length' = Len(s)
      BY <2>2, <3>1 DEF Filled
    <3> QED
      BY <1>2, <3>1, <3>2
  <2> QED
    BY <1>5, <2>1, <2>2 DEF SortBy, Unchanged, Ends, SetLen, Step
<1>6. CASE Pop
  <2>1. CASE UNCHANGED <<map, length, stray>>
    BY <1>0, <2>1
  <2>2. CASE length > 0 /\ map' = Without(map, length - 1) /\ length' = length - 1 /\ stray' = stray
    <3>1. length' \in Nat /\ length' <= MaxLen
      BY <2>2, ArraysAssumption
    <3>2. DOMAIN map' = DOMAIN map \ {length - 1} /\ \A i \in DOMAIN map' : map'[i] = map[i]
      BY <2>2 DEF Without
    <3>3. ~ stray => \A i \in DOMAIN map' : i < length - 1
      BY <3>2 DEF ElementsBelowLength, MapInv
    <3> QED
      BY <1>a, <2>2, <3>1, <3>2, <3>3 DEF MapInv, ElementsBelowLength, Fits
  <2> QED
    BY <1>6, <2>1, <2>2 DEF Pop, Unchanged, SetLen, Step
<1>7. CASE Shift
  <2>1. CASE UNCHANGED <<map, length, stray>>
    BY <1>0, <2>1
  <2>2. ASSUME length > 0, Holes \subseteq {0},
               map' = [i \in {j - 1 : j \in 1 .. length - 1} \cup {j \in DOMAIN map : j >= length} |->
                         IF i < length THEN map[i + 1] ELSE map[i]],
               length' = length - 1, stray' = stray
        PROVE  Fits
    <3> DEFINE D == {j - 1 : j \in 1 .. length - 1} \cup {j \in DOMAIN map : j >= length}
    <3>1. \A i \in D : \/ i \in Nat /\ i < length - 1
                       \/ i \in DOMAIN map /\ i \in Nat /\ ~ i < length
      BY DEF MapInv
    <3>2. \A i \in Nat : i < length - 1 => i + 1 \in DOMAIN map
      BY <2>2 DEF Holes
    <3>3. DOMAIN map' = D /\ \A i \in D : map'[i] = IF i < length THEN map[i + 1] ELSE map[i]
      BY <2>2
    <3> HIDE DEF D
    <3>4. MapInv'
      <4>1. \A i \in D : i \in Nat /\ map'[i] \in Stored
        <5> SUFFICES ASSUME NEW i \in D PROVE i \in Nat /\ map'[i] \in Stored
          OBVIOUS
        <5>1. CASE i \in Nat /\ i < length - 1
          BY <3>2, <3>3, <5>1 DEF MapInv
        <5>2. CASE i \in DOMAIN map /\ i \in Nat /\ ~ i < length
          BY <3>3, <5>2 DEF MapInv
        <5> QED
          BY <3>1, <5>1, <5>2
      <4> QED
        BY <3>3, <4>1 DEF MapInv
    <3>5. ASSUME ~ stray' PROVE ElementsBelowLength'
      BY <2>2, <3>1, <3>3, <3>5 DEF ElementsBelowLength
    <3>6. length' \in Nat /\ length' <= MaxLen
      BY <2>2, ArraysAssumption
    <3> QED
      BY <1>a, <3>4, <3>5, <3>6 DEF Fits, ElementsBelowLength
  <2> QED
    BY <1>7, <2>1, <2>2 DEF Shift, Unchanged, Ends, SetLen, Step
<1>8. CASE Reverse
  <2>1. CASE UNCHANGED <<map, length, stray>>
    BY <1>0, <2>1
  <2>2. ASSUME length > 0,
               map' = [i \in {IF j < length THEN length - 1 - j ELSE j : j \in DOMAIN map} |->
                         map[IF i < length THEN length - 1 - i ELSE i]],
               length' = length, stray' = stray
        PROVE  Fits
    <3> DEFINE D == {IF j < length THEN length - 1 - j ELSE j : j \in DOMAIN map}
               from(i) == IF i < length THEN length - 1 - i ELSE i
    <3>1. \A i \in D : i \in Nat /\ from(i) \in DOMAIN map
      BY DEF MapInv
    <3>2. DOMAIN map' = D /\ \A i \in D : map'[i] = map[from(i)]
      BY <2>2
    <3>3. ~ stray => \A i \in D : i < length
      BY DEF ElementsBelowLength, MapInv
    <3> HIDE DEF D, from
    <3> QED
      BY <1>a, <2>2, <3>1, <3>2, <3>3 DEF MapInv, ElementsBelowLength, Fits
  <2> QED
    BY <1>8, <2>1, <2>2 DEF Reverse, Ends, Step
<1>9. ASSUME NEW index \in Index, NEW value \in Value,
             Assign(index, value) \/ Increment(index, value)
      PROVE  Fits
  <2>0. index + 1 <= MaxLen
    BY ArraysAssumption DEF Index
  <2>1. index \in Nat
    BY ArraysAssumption DEF Index
  <2>2. /\ DOMAIN map' = DOMAIN map \cup {index}
        /\ \A i \in DOMAIN map' : map'[i] = IF i = index THEN value ELSE map[i]
    BY <1>9 DEF Assign, Increment, Put
  <2>3. /\ length' \in Nat /\ length <= length' /\ length' <= MaxLen
        /\ ~ stray' => ~ stray /\ index < length'
    BY <1>9, <2>0, <2>1, ArraysAssumption DEF Assign, Increment, SetLen, Step
  <2>4. MapInv'
    BY <2>1, <2>2 DEF MapInv, Stored
  <2>5. ASSUME ~ stray' PROVE ElementsBelowLength'
    <3>1. \A i \in DOMAIN map : i \in Nat /\ i < length
      BY <2>3, <2>5 DEF ElementsBelowLength, MapInv
    <3> QED
      BY <2>2, <2>3, <2>5, <3>1 DEF ElementsBelowLength
  <2> QED
    BY <1>a, <2>3, <2>4, <2>5 DEF Fits, ElementsBelowLength
<1>10. ASSUME NEW index, Delete(index) PROVE Fits
  <2>1. CASE UNCHANGED <<map, length, stray>>
    BY <1>0, <2>1
  <2>2. CASE map' = Without(map, index) /\ length' = length /\ stray' = stray
    <3>1. DOMAIN map' \subseteq DOMAIN map /\ \A i \in DOMAIN map' : map'[i] = map[i]
      BY <2>2 DEF Without
    <3> QED
      BY <1>a, <2>2, <3>1 DEF MapInv, ElementsBelowLength, Fits
  <2> QED
    BY <1>10, <2>1, <2>2 DEF Delete, Ends, Step
<1>11. CASE \/ \E n \in {0, MaxLen} : AssignLength(n)
            \/ \E method \in Method : Begin(method)
            \/ MoveOn \/ Ended \/ UNCHANGED vars
  <2>1. UNCHANGED <<map, length, stray>>
    BY <1>11 DEF AssignLength, Begin, MoveOn, Ended, vars, Step
  <2> QED
    BY <1>0, <2>1
<1>12. CASE Sort \/ SortWith
  BY <1>5, <1>12, AreCmps DEF Sort, SortWith
<1>13. ASSUME NEW n \in -1 .. MaxLen - 1, AssignKey(n) PROVE Fits
  <2>1. PICK val \in Nat :
          /\ val = WordMax \/ val + 1 <= MaxLen \/ val = 0
          /\ IF val >= length THEN SetLen(IF val = WordMax THEN 0 ELSE val + 1)
             ELSE UNCHANGED <<length, shown>>
          /\ IF val = WordMax /\ length > 0 THEN stray' = TRUE ELSE UNCHANGED stray
          /\ map' = map
    <3>1. \A val \in Words(n) : val \in Nat /\ (val = WordMax \/ val + 1 <= MaxLen \/ val = 0)
      BY ArraysAssumption DEF Words, WordMax
    <3> QED
      BY <1>13, <3>1 DEF AssignKey
  <2>2. length' \in Nat /\ length' <= MaxLen
    BY <2>1, ArraysAssumption DEF SetLen
  <2>3. ASSUME ~ stray' PROVE ~ stray /\ length <= length'
    BY <2>1, <2>3 DEF SetLen
  <2> QED
    BY <1>a, <2>1, <2>2, <2>3 DEF Fits, MapInv, ElementsBelowLength
<1> QED
  BY <1>1, <1>3, <1>4, <1>6, <1>7, <1>8, <1>9, <1>10, <1>11, <1>12, <1>13 DEF Next

(* Methods and assignments leave the iteration alone. *)
LEMMA IterSteps ==
  ASSUME [Next]_vars
  PROVE  (\E method \in Method : Begin(method)) \/ MoveOn \/ UNCHANGED iter
BY DEF Next, vars, Push, Unshift, Pop, Shift, Reverse, Sort, SortWith, SortBy, Splice, Assign,
       AssignKey, Increment, AssignLength, Delete, Step, Goes, Ends, Ended

(* An iteration begins at its first index. *)
LEMMA BeginInv ==
  ASSUME IInv, NEW method \in Method, Begin(method)
  PROVE  IterInv'
<1> DEFINE it == [method |-> method, len |-> length, i |-> First(method), seen |-> <<First(method)>>]
<1>1. length \in Nat /\ iter' = it
  BY DEF IInv, Begin
<1>2. /\ method \in {"reduce", "reduceRight"} => length > 1
      /\ method \notin {"reduce", "reduceRight"} => length > 0
  BY <1>1 DEF Begin, Nothing
<1>3. First(method) \in Nat /\ First(method) = Nth(it, 1) /\ 1 \in 1 .. Rounds(it)
  BY <1>1, <1>2 DEF First, Word, Nth, Rounds, Method, Descending
<1>4. it \in [method : Method, len : Nat, i : Nat, seen : Seq(Nat)]
  BY <1>1, <1>3
<1>5. it.seen = <<First(method)>> /\ it.i = First(method)
  OBVIOUS
<1> HIDE DEF it
<1>6. [k \in 1 .. 1 |-> Nth(it, k)] = <<First(method)>>
  BY <1>3
<1>7. Stands(it, 1)
  BY <1>3, <1>5, <1>6 DEF Stands
<1> QED
  BY <1>1, <1>4, <1>7 DEF IterInv

(* In its last callback, and only there, it is over: the local that counts *)
(* down never wraps around.                                                *)
LEMMA Last ==
  ASSUME NEW it \in [method : Method, len : Nat, i : Nat, seen : Seq(Nat)],
         NEW m \in Nat, Stands(it, m)
  PROVE  LET next == Word(IF it.method \in Descending THEN it.i - 1 ELSE it.i + 1)
             over == IF it.method \in Descending THEN it.i = 0 ELSE next >= it.len
         IN  /\ over <=> m = Rounds(it)
             /\ ~ over => next = Nth(it, m + 1) /\ next \in Nat /\ m + 1 \in 1 .. Rounds(it)
<1>1. it.len \in Nat /\ it.i \in Nat /\ Rounds(it) \in Int
  BY DEF Rounds
<1>2. m \in 1 .. Rounds(it) /\ it.i = Nth(it, m)
  BY DEF Stands
<1>3. CASE it.method \in Descending
  BY <1>1, <1>2, <1>3 DEF Nth, Word
<1>4. CASE it.method \notin Descending
  BY <1>1, <1>2, <1>4 DEF Nth, Word
<1> QED
  BY <1>3, <1>4

(* A callback has returned. *)
LEMMA MoveOnInv ==
  ASSUME IInv, MoveOn
  PROVE  IterInv'
<1> DEFINE next == Word(IF iter.method \in Descending THEN iter.i - 1 ELSE iter.i + 1)
           over == IF iter.method \in Descending THEN iter.i = 0 ELSE next >= iter.len
           new == [iter EXCEPT !.i = next, !.seen = Append(@, next)]
<1>1. iter \in [method : Method, len : Nat, i : Nat, seen : Seq(Nat)]
  BY DEF IInv, IterInv, MoveOn
<1>2. PICK m \in Nat : Stands(iter, m)
  BY DEF IInv, IterInv, MoveOn
<1>3. CASE iter' = Idle
  BY <1>3 DEF IterInv
<1>4. CASE ~ over /\ iter' = new
  <2>1. next = Nth(iter, m + 1) /\ next \in Nat /\ m + 1 \in 1 .. Rounds(iter)
    BY <1>1, <1>2, <1>4, Last
  <2> HIDE DEF next
  <2>2. new \in [method : Method, len : Nat, i : Nat, seen : Seq(Nat)]
    <3>1. Append(iter.seen, next) \in Seq(Nat)
      BY <1>1, <2>1
    <3> QED
      BY <1>1, <2>1, <3>1
  <2>3. /\ new.i = next /\ new.seen = Append(iter.seen, next)
        /\ new.method = iter.method /\ new.len = iter.len
    BY <1>1
  <2> HIDE DEF new
  <2>4. Rounds(new) = Rounds(iter) /\ \A k : Nth(new, k) = Nth(iter, k)
    BY <2>3 DEF Rounds, Nth
  <2>5. new.seen = [k \in 1 .. m + 1 |-> Nth(new, k)]
    <3>1. /\ iter.seen = [k \in 1 .. m |-> Nth(iter, k)] /\ iter.seen \in Seq(Nat)
          /\ Len(iter.seen) = m
      BY <1>1, <1>2, LenProperties DEF Stands
    <3>2. Append(iter.seen, next) = [k \in 1 .. m + 1 |-> Nth(iter, k)]
      BY <2>1, <3>1
    <3> QED
      BY <2>3, <2>4, <3>2
  <2>6. Stands(new, m + 1)
    BY <2>1, <2>3, <2>4, <2>5 DEF Stands
  <2> QED
    BY <1>4, <2>2, <2>6 DEF IterInv
<1> QED
  BY <1>3, <1>4 DEF MoveOn

-----------------------------------------------------------------------------
(* Methods that answer, or put together, a list.                           *)

(* The list that a script reads. *)
LEMMA ListIs ==
  ASSUME length \in Nat, MapInv
  PROVE  /\ List \in Seq(Stored)
         /\ Len(List) = length
         /\ \A i \in 1 .. length : List[i] = Get(map, i - 1) /\ List[i] \in Stored
<1>1. \A i : Get(map, i) \in Stored
  BY GetStored
<1>2. /\ Reads(map, 0, length) \in Seq(Stored)
      /\ Len(Reads(map, 0, length)) = IF 0 <= length THEN length - 0 ELSE 0
      /\ \A i \in 1 .. length - 0 : Reads(map, 0, length)[i] = Get(map, 0 + i - 1)
  BY <1>1, ReadsSeq
<1> QED
  BY <1>1, <1>2 DEF List

(* What is read between two indices below the length is a part of it. *)
LEMMA ReadsPart ==
  ASSUME length \in Nat, MapInv, NEW first \in Nat, NEW last \in Nat,
         last <= length \/ last <= first
  PROVE  Reads(map, first, last) = SubSeq(List, first + 1, last)
<1>1. \A i : Get(map, i) \in Stored
  BY GetStored
<1> DEFINE r == Reads(map, first, last)
           s == SubSeq(List, first + 1, last)
<1>2. /\ r \in Seq(Stored)
      /\ Len(r) = IF first <= last THEN last - first ELSE 0
      /\ \A i \in 1 .. last - first : r[i] = Get(map, first + i - 1)
  BY <1>1, ReadsSeq
<1>3. /\ s \in Seq(Stored)
      /\ Len(s) = IF first + 1 <= last THEN last - (first + 1) + 1 ELSE 0
      /\ \A i \in 1 .. last - (first + 1) + 1 : s[i] = List[first + 1 + i - 1]
  <2>1. \A i \in first + 1 .. last : i \in 1 .. length
    OBVIOUS
  <2>2. \A i \in first + 1 .. last : List[i] \in Stored
    BY <2>1, ListIs
  <2>3. first + 1 \in Int /\ last \in Int
    OBVIOUS
  <2> QED
    BY <2>2, <2>3, SubSeqProperties
<1> HIDE DEF r, s
<1>4. Len(r) = Len(s)
  BY <1>2, <1>3
<1>5. ASSUME NEW i \in 1 .. Len(r) PROVE r[i] = s[i]
  <2>1. i \in 1 .. last - first /\ first + 1 + i - 1 = first + i
    BY <1>2, <1>5
  <2>2. first + i \in 1 .. length /\ first + i - 1 \in Nat
    BY <2>1
  <2>3. r[i] = Get(map, first + i - 1) /\ s[i] = List[first + i]
    BY <1>2, <1>3, <2>1
  <2>4. List[first + i] = Get(map, first + i - 1)
    BY <2>2, ListIs
  <2> QED
    BY <2>3, <2>4
<1>6. r = s
  BY <1>2, <1>3, <1>4, <1>5, SeqEqual
<1> QED
  BY <1>6 DEF r, s

(* Nothing is between an index and an earlier one. *)
LEMMA NoPart ==
  ASSUME length \in Nat, MapInv, NEW m \in Int, NEW n \in Int, n < m
  PROVE  SubSeq(List, m, n) = <<>>
<1>1. \A i \in m .. n : List[i] \in Stored
  OBVIOUS
<1>2. /\ SubSeq(List, m, n) \in Seq(Stored)
      /\ Len(SubSeq(List, m, n)) = IF m <= n THEN n - m + 1 ELSE 0
  BY <1>1, SubSeqProperties
<1>3. Len(SubSeq(List, m, n)) = 0
  BY <1>2
<1> QED
  BY <1>2, <1>3, EmptySeq

(* splice for one index and number of elements. *)
LEMMA SpliceWith ==
  ASSUME length \in Nat, MapInv, ElementsBelowLength,
         NEW index \in Nat, NEW howMany \in Nat, NEW args
  PROVE  IF index < length
           THEN /\ Keepers(index, howMany, args) =
                     SubSeq(List, 1, index) \o args \o SubSeq(List, index + howMany + 1, length)
                /\ Len(Rejects(index, howMany)) = howMany
                /\ \A i \in 1 .. howMany :
                     index + i <= length \/ ~ stray =>
                       Rejects(index, howMany)[i] =
                         IF index + i <= length THEN List[index + i] ELSE Undef
           ELSE Keepers(index, howMany, args) = List /\ Rejects(index, howMany) = <<>>
<1>0. index \in Nat /\ howMany \in Nat /\ index + howMany \in Nat
  OBVIOUS
<1>1. CASE index < length
  <2> DEFINE last == IF index + howMany < length THEN length ELSE index + howMany
             reject == Reads(map, index, index + howMany)
  <2>1. Reads(map, 0, index) = SubSeq(List, 1, index)
    <3>1. 0 \in Nat /\ index <= length
      BY <1>0, <1>1
    <3>2. Reads(map, 0, index) = SubSeq(List, 0 + 1, index)
      BY <1>0, <3>1, ReadsPart
    <3> QED
      BY <3>2
  <2>2. Reads(map, index + howMany, last) = SubSeq(List, index + howMany + 1, length)
    <3>1. CASE index + howMany < length
      <4> DEFINE past == index + howMany
      <4>1. past \in Nat
        BY <1>0
      <4> HIDE DEF past
      <4>2. Reads(map, past, length) = SubSeq(List, past + 1, length)
        BY <4>1, ReadsPart
      <4> QED
        BY <3>1, <4>2 DEF past
    <3>2. CASE ~ index + howMany < length
      <4>1. Reads(map, index + howMany, index + howMany)
              = SubSeq(List, index + howMany + 1, index + howMany)
        BY <1>0, ReadsPart
      <4>2. /\ index + howMany + 1 \in Int /\ index + howMany \in Int
            /\ index + howMany < index + howMany + 1 /\ length < index + howMany + 1
        BY <1>0, <3>2
      <4>3. SubSeq(List, index + howMany + 1, index + howMany) = <<>>
        BY <4>2, NoPart
      <4>4. SubSeq(List, index + howMany + 1, length) = <<>>
        BY <4>2, NoPart
      <4> QED
        BY <3>2, <4>1, <4>3, <4>4
    <3> QED
      BY <3>1, <3>2
  <2>3. Keepers(index, howMany, args) =
          Reads(map, 0, index) \o args \o Reads(map, index + howMany, last)
    BY <1>1 DEF Keepers
  <2>4. \A i : Get(map, i) \in Stored
    BY GetStored
  <2>5. /\ Len(reject) = IF index <= index + howMany THEN index + howMany - index ELSE 0
        /\ \A i \in 1 .. index + howMany - index : reject[i] = Get(map, index + i - 1)
    <3> DEFINE past == index + howMany
    <3>1. past \in Nat
      BY <1>0
    <3> HIDE DEF past
    <3>2. /\ Len(Reads(map, index, past)) = IF index <= past THEN past - index ELSE 0
          /\ \A i \in 1 .. past - index : Reads(map, index, past)[i] = Get(map, index + i - 1)
      BY <1>0, <2>4, <3>1, ReadsSeq
    <3> QED
      BY <3>2 DEF past
  <2>6. Rejects(index, howMany) = reject
    BY <1>1 DEF Rejects
  <2> HIDE DEF reject
  <2>7. Len(reject) = howMany /\ \A i \in 1 .. howMany : reject[i] = Get(map, index + i - 1)
    BY <1>0, <2>5
  <2>8. ASSUME NEW i \in 1 .. howMany, index + i <= length \/ ~ stray
        PROVE  Get(map, index + i - 1) = IF index + i <= length THEN List[index + i] ELSE Undef
    <3>1. CASE index + i <= length
      <4>1. index + i \in 1 .. length
        BY <1>0, <3>1
      <4> QED
        BY <3>1, <4>1, ListIs
    <3>2. CASE ~ index + i <= length
      <4>1. ~ index + i - 1 < length
        BY <1>0, <3>2
      <4>2. index + i - 1 \notin DOMAIN map
        BY <2>8, <3>2, <4>1 DEF ElementsBelowLength
      <4> QED
        BY <3>2, <4>2 DEF Get
    <3> QED
      BY <3>1, <3>2
  <2> QED
    BY <1>1, <2>1, <2>2, <2>3, <2>6, <2>7, <2>8
<1>2. CASE ~ index < length
  BY <1>2 DEF Keepers, Rejects, List
<1> QED
  BY <1>1, <1>2

LEMMA SpliceIs ==
  ASSUME length \in Nat, MapInv, ElementsBelowLength
  PROVE  SpliceAgrees
BY WordsNat, SpliceWith DEF SpliceAgrees

LEMMA SortIs ==
  ASSUME length \in Nat, MapInv
  PROVE  SortSorts
<1>1. List \in Seq(Stored) /\ Len(List) = length
  BY ListIs
<1>2. ASSUME NEW s \in MergeSort(List, cmp_js)
      PROVE  Len(s) = length /\ \A v : Occurrences(s, v) = Occurrences(List, v)
  BY <1>1, AreCmps, SortPermutes
<1>3. ASSUME NEW s \in MergeSort(List, cmp) PROVE Sorted(s)
  BY <1>1, SortGivesSorted
<1> QED
  BY <1>2, <1>3 DEF SortSorts, Occurrences, Sorted

(* Where a relative index of slice and indexOf lies. *)
Clip(n) == IF n < 0 THEN (IF length + n < 0 THEN 0 ELSE length + n)
           ELSE IF n > length THEN length ELSE n

LEMMA ClipIs ==
  ASSUME length \in Nat, NEW n \in Int
  PROVE  Clip(n) \in 0 .. length
BY DEF Clip

LEMMA SliceIs ==
  ASSUME length \in Nat, MapInv, NEW b \in Int, NEW e \in Int
  PROVE  /\ Slice(<<b>>, <<e>>) = SubSeq(List, Clip(b) + 1, Clip(e))
         /\ Slice(<<b>>, <<>>) = SubSeq(List, Clip(b) + 1, length)
<1> DEFINE from == IF b >= 0 THEN b ELSE IF -b <= length THEN length + b ELSE 0
           to == IF e > length THEN length ELSE IF e >= 0 THEN e ELSE length + e
<1>1. Slice(<<b>>, <<e>>) =
        IF b > length \/ -e > length \/ from >= to THEN <<>> ELSE Reads(map, from, to)
  BY DEF Slice
<1>2. Slice(<<b>>, <<>>) =
        IF b > length \/ from >= length THEN <<>> ELSE Reads(map, from, length)
  BY DEF Slice
<1>3. /\ Clip(b) \in 0 .. length /\ Clip(e) \in 0 .. length
      /\ b > length => Clip(b) = length
      /\ ~ b > length => Clip(b) = from
      /\ -e > length => Clip(e) = 0
      /\ ~ -e > length => Clip(e) = to
  BY DEF Clip
<1>4. ASSUME NEW last \in 0 .. length
      PROVE  /\ Clip(b) >= last => SubSeq(List, Clip(b) + 1, last) = <<>>
             /\ Reads(map, Clip(b), last) = SubSeq(List, Clip(b) + 1, last)
  <2> DEFINE first == Clip(b)
  <2>1. first \in Nat /\ last \in Nat /\ last <= length
    BY <1>3
  <2> HIDE DEF first
  <2>2. first >= last => SubSeq(List, first + 1, last) = <<>>
    <3>1. ASSUME first >= last PROVE first + 1 \in Int /\ last \in Int /\ last < first + 1
      BY <2>1, <3>1
    <3> QED
      BY <3>1, NoPart
  <2>3. Reads(map, first, last) = SubSeq(List, first + 1, last)
    BY <2>1, ReadsPart
  <2> QED
    BY <2>2, <2>3 DEF first
<1> HIDE DEF from, to
<1>5. CASE b > length
  <2>1. Clip(b) >= Clip(e) /\ Clip(b) >= length /\ length \in 0 .. length
    BY <1>3, <1>5
  <2> QED
    BY <1>1, <1>2, <1>3, <1>4, <1>5, <2>1
<1>6. CASE ~ b > length
  <2>1. Slice(<<b>>, <<>>) = SubSeq(List, Clip(b) + 1, length)
    <3>1. length \in 0 .. length
      OBVIOUS
    <3> QED
      BY <1>2, <1>3, <1>4, <1>6, <3>1
  <2>2. CASE -e > length
    <3>1. Clip(b) >= Clip(e)
      BY <1>3, <2>2
    <3> QED
      BY <1>1, <1>3, <1>4, <2>1, <2>2, <3>1
  <2>3. CASE ~ -e > length
    BY <1>1, <1>3, <1>4, <1>6, <2>1, <2>3
  <2> QED
    BY <2>2, <2>3
<1> QED
  BY <1>5, <1>6

LEMMA ConcatIs ==
  ASSUME NEW a, NEW b, a # <<>>, b # <<>>
  PROVE  Concat(<<a, b>>) = List \o a \o b
<1> DEFINE lists == <<a, b>>
           part(l) == IF l = <<>> THEN <<Undef>> ELSE l
           Joins(j, n) == IF n = 0 THEN List ELSE j[n - 1] \o part(lists[n])
           join == CHOOSE j : j = [n \in 0 .. Len(lists) |-> Joins(j, n)]
           witness == [n \in 0 .. 2 |->
                         IF n = 0 THEN List ELSE IF n = 1 THEN List \o a ELSE (List \o a) \o b]
<1>1. Len(lists) = 2 /\ lists[1] = a /\ lists[2] = b /\ part(a) = a /\ part(b) = b
  OBVIOUS
<1>2. Concat(<<a, b>>) = join[Len(lists)]
  BY DEF Concat, List
<1> HIDE DEF lists, part
<1>3. witness = [n \in 0 .. 2 |-> Joins(witness, n)]
  <2>1. witness[0] = List /\ witness[1] = List \o a /\ witness[2] = (List \o a) \o b
    OBVIOUS
  <2>2. \A n \in 0 .. 2 : n = 0 \/ n = 1 \/ n = 2
    OBVIOUS
  <2>3. \A n \in 0 .. 2 : witness[n] = Joins(witness, n)
    <3> HIDE DEF witness
    <3> SUFFICES ASSUME NEW n \in 0 .. 2 PROVE witness[n] = Joins(witness, n)
      OBVIOUS
    <3>1. CASE n = 0
      BY <2>1, <3>1
    <3>2. CASE n = 1
      <4>1. Joins(witness, 1) = witness[0] \o a
        <5>1. Joins(witness, 1) = witness[1 - 1] \o part(lists[1])
          OBVIOUS
        <5>2. 1 - 1 = 0
          OBVIOUS
        <5> QED
          BY <1>1, <5>1, <5>2
      <4> QED
        BY <2>1, <3>2, <4>1
    <3>3. CASE n = 2
      <4>1. Joins(witness, 2) = witness[1] \o b
        <5>1. Joins(witness, 2) = witness[2 - 1] \o part(lists[2])
          OBVIOUS
        <5>2. 2 - 1 = 1
          OBVIOUS
        <5> QED
          BY <1>1, <5>1, <5>2
      <4> QED
        BY <2>1, <3>3, <4>1
    <3> QED
      BY <2>2, <3>1, <3>2, <3>3
  <2> QED
    BY <2>3
<1> HIDE DEF witness
<1>4. join = [n \in 0 .. 2 |-> Joins(join, n)]
  BY <1>1, <1>3
<1> HIDE DEF join
<1>5. join[0] = List
  BY <1>4
<1>6. join[1] = List \o a
  BY <1>1, <1>4, <1>5
<1>7. join[2] = (List \o a) \o b
  <2>1. join[2] = join[2 - 1] \o part(lists[2])
    <3>1. \A n \in 0 .. 2 : join[n] = Joins(join, n)
      <4> HIDE DEF Joins
      <4> QED
        BY <1>4
    <3>2. join[2] = Joins(join, 2)
      <4>1. 2 \in 0 .. 2
        OBVIOUS
      <4> HIDE DEF Joins
      <4> QED
        BY <3>1, <4>1
    <3>3. Joins(join, 2) = join[2 - 1] \o part(lists[2])
      OBVIOUS
    <3> HIDE DEF Joins
    <3> QED
      BY <3>2, <3>3
  <2>2. 2 - 1 = 1
    OBVIOUS
  <2> QED
    BY <1>1, <1>6, <2>1, <2>2
<1> QED
  BY <1>1, <1>2, <1>7

LEMMA IndexOfIs ==
  ASSUME length \in Nat, MapInv, NEW v, NEW n \in Int, -n <= length, NEW r \in IndexOf(v, <<n>>)
  PROVE  LET first == {j \in Clip(n) .. length - 1 : List[j + 1] = v}
         IN  IF first = {} THEN r = -1 ELSE r \in first /\ \A j \in first : r <= j
<1> DEFINE first == {j \in Clip(n) .. length - 1 : List[j + 1] = v}
           start == IF n >= 0 THEN n ELSE length + n
           found(i) == {j \in i .. length - 1 : Get(map, j) = v}
<1>1. r \in {IF found(i) = {} THEN -1 ELSE CHOOSE j \in found(i) : \A k \in found(i) : j <= k
               : i \in {start}}
  BY DEF IndexOf, Words
<1>2. r = IF found(start) = {} THEN -1
          ELSE CHOOSE j \in found(start) : \A k \in found(start) : j <= k
  BY <1>1
<1>3. found(start) = first
  <2>1. start = Clip(n) \/ (start > length - 1 /\ Clip(n) > length - 1)
    BY DEF Clip
  <2>2. Clip(n) \in Nat /\ start \in Int
    BY ClipIs
  <2>3. \A j \in Nat : j <= length - 1 => List[j + 1] = Get(map, j)
    <3> SUFFICES ASSUME NEW j \in Nat, j <= length - 1 PROVE List[j + 1] = Get(map, j)
      OBVIOUS
    <3>1. j + 1 \in 1 .. length /\ j + 1 - 1 = j
      OBVIOUS
    <3>2. List[j + 1] = Get(map, j + 1 - 1)
      BY <3>1, ListIs
    <3> QED
      BY <3>1, <3>2
  <2> HIDE DEF start
  <2> QED
    BY <2>1, <2>2, <2>3
<1>4. first \in SUBSET Nat
  BY ClipIs
<1> HIDE DEF first, found, start
<1>5. first # {} => \E m \in first : \A k \in first : m <= k
  BY <1>4, Least
<1> QED
  BY <1>2, <1>3, <1>5 DEF first

LEMMA LastIndexOfIs ==
  ASSUME length \in Nat, MapInv, NEW v, NEW n \in Int
  PROVE  LET from == IF n < 0 THEN length + n ELSE n
             last == {j \in 0 .. length - 1 : j <= from /\ List[j + 1] = v}
             r == LastIndexOf(v, <<n>>)
         IN  IF last = {} THEN r = -1 ELSE r \in last /\ \A j \in last : j <= r
<1> DEFINE from == IF n < 0 THEN length + n ELSE n
           last == {j \in 0 .. length - 1 : j <= from /\ List[j + 1] = v}
           r == LastIndexOf(v, <<n>>)
           i == IF n >= length THEN length - 1 ELSE IF n < 0 THEN length + n ELSE n
           found == {j \in 0 .. i : Get(map, j) = v}
<1>1. r = IF found = {} THEN -1 ELSE CHOOSE j \in found : \A k \in found : k <= j
  BY DEF LastIndexOf
<1>2. found = last
  <2>1. i \in Int /\ i <= length - 1 /\ \A j \in 0 .. length - 1 : j <= from <=> j <= i
    OBVIOUS
  <2>2. \A j \in Nat : j <= length - 1 => List[j + 1] = Get(map, j)
    <3> SUFFICES ASSUME NEW j \in Nat, j <= length - 1 PROVE List[j + 1] = Get(map, j)
      OBVIOUS
    <3>1. j + 1 \in 1 .. length /\ j + 1 - 1 = j
      OBVIOUS
    <3>2. List[j + 1] = Get(map, j + 1 - 1)
      BY <3>1, ListIs
    <3> QED
      BY <3>1, <3>2
  <2> HIDE DEF i, from
  <2>3. \A j \in 0 .. i : j \in 0 .. length - 1
    BY <2>1
  <2>4. \A j \in 0 .. length - 1 : j <= from => j \in 0 .. i
    BY <2>1
  <2>5. \A j \in 0 .. i : j <= from
    BY <2>1, <2>3
  <2> QED
    BY <2>2, <2>3, <2>4, <2>5
<1>3. last \in SUBSET (0 .. length)
  OBVIOUS
<1> HIDE DEF last, found, r
<1>4. last # {} => \E m \in last : \A k \in last : k <= m
  BY <1>3, Greatest
<1>5. IF last = {} THEN r = -1 ELSE r \in last /\ \A j \in last : j <= r
  BY <1>1, <1>2, <1>4
<1> QED
  BY <1>5 DEF last, r

LEMMA QueriesAre ==
  ASSUME length \in Nat, MapInv
  PROVE  QueriesAgree
<1>1. \A n \in -MaxLen - 1 .. MaxLen + 1 : n \in Int
  BY ArraysAssumption
<1>2. ASSUME NEW b \in -MaxLen - 1 .. MaxLen + 1, NEW e \in -MaxLen - 1 .. MaxLen + 1
      PROVE  /\ Slice(<<b>>, <<e>>) = SubSeq(List, Clip(b) + 1, Clip(e))
             /\ Slice(<<b>>, <<>>) = SubSeq(List, Clip(b) + 1, length)
  BY <1>1, SliceIs
<1>3. ASSUME NEW a \in Args \ {<<>>}, NEW b \in Args \ {<<>>}
      PROVE  Concat(<<a, b>>) = List \o a \o b
  BY ConcatIs
<1>4. ASSUME NEW v \in Stored, NEW n \in -MaxLen - 1 .. MaxLen + 1, -n <= length,
             NEW r \in IndexOf(v, <<n>>)
      PROVE  LET first == {j \in Clip(n) .. length - 1 : List[j + 1] = v}
             IN  IF first = {} THEN r = -1 ELSE r \in first /\ \A j \in first : r <= j
  BY <1>1, <1>4, IndexOfIs
<1>5. ASSUME NEW v \in Stored, NEW n \in -MaxLen - 1 .. MaxLen + 1
      PROVE  LET from == IF n < 0 THEN length + n ELSE n
                 last == {j \in 0 .. length - 1 : j <= from /\ List[j + 1] = v}
                 r == LastIndexOf(v, <<n>>)
             IN  IF last = {} THEN r = -1 ELSE r \in last /\ \A j \in last : j <= r
  BY <1>1, LastIndexOfIs
<1> QED
  BY <1>2, <1>3, <1>4, <1>5 DEF QueriesAgree, Clip

-----------------------------------------------------------------------------
(* The array is the list that module Lists promises.  A step is looked at  *)
(* with what is known before and after it.                                 *)

Known ==
  /\ length \in Nat /\ length <= MaxLen /\ MapInv /\ ElementsBelowLength /\ ~ stray
  /\ length' \in Nat /\ MapInv' /\ stray' \in BOOLEAN

(* A list that holds what a map does is what the map is read as.           *)
LEMMA ReadsWhole ==
  ASSUME NEW m, NEW n \in Nat, \A i \in Nat : Get(m, i) \in Stored,
         NEW s \in Seq(Stored), Len(s) = n, \A i \in 1 .. n : s[i] = Get(m, i - 1)
  PROVE  Reads(m, 0, n) = s
<1> DEFINE first == 0
           t == Reads(m, first, n)
<1>1. first \in Nat
  OBVIOUS
<1> HIDE DEF first
<1>2. t \in Seq(Stored)
  BY <1>1, ReadsSeq
<1>3. Len(t) = IF first <= n THEN n - first ELSE 0
  BY <1>1, ReadsSeq
<1>4. \A i \in 1 .. n - first : t[i] = Get(m, first + i - 1)
  BY <1>1, ReadsSeq
<1> HIDE DEF t
<1>5. Len(t) = n /\ \A i \in 1 .. n : t[i] = Get(m, i - 1)
  BY <1>3, <1>4 DEF first
<1>6. t = s
  BY <1>2, <1>5, SeqEqual
<1> QED
  BY <1>6 DEF t, first

(* The list after a step. *)
LEMMA NewList ==
  ASSUME Known, NEW s \in Seq(Stored), Len(s) = length',
         \A i \in 1 .. length' : s[i] = Get(map', i - 1)
  PROVE  List' = s
<1> DEFINE m == map'
           n == length'
<1>1. \A i \in Nat : Get(m, i) \in Stored
  BY DEF Known, MapInv, Get, Stored
<1>2. n \in Nat
  BY DEF Known
<1>3. Len(s) = n /\ \A i \in 1 .. n : s[i] = Get(m, i - 1)
  OBVIOUS
<1>4. List' = Reads(m, 0, n)
  BY DEF List
<1> HIDE DEF m, n
<1>5. Reads(m, 0, n) = s
  BY <1>1, <1>2, <1>3, ReadsWhole
<1> QED
  BY <1>4, <1>5

(* A map that has been filled with a list. *)
LEMMA NewFilled ==
  ASSUME Known, NEW s \in Seq(Stored), map' = Filled(s), length' = Len(s)
  PROVE  List' = s
<1>1. /\ Len(s) \in Nat /\ DOMAIN map' = 0 .. Len(s) - 1
      /\ \A i \in 0 .. Len(s) - 1 : map'[i] = s[i + 1]
  BY FilledMap
<1>2. ASSUME NEW i \in 1 .. Len(s) PROVE s[i] = Get(map', i - 1)
  <2>1. i - 1 \in 0 .. Len(s) - 1 /\ i - 1 + 1 = i
    BY <1>1
  <2>2. map'[i - 1] = s[i - 1 + 1]
    BY <1>1, <2>1
  <2> QED
    BY <1>1, <2>1, <2>2 DEF Get
<1> QED
  BY <1>2, NewList

LEMMA ListKnown ==
  ASSUME Known
  PROVE  /\ List \in Seq(Stored) /\ Len(List) = length /\ Promise!Size = length
         /\ \A i \in 1 .. length : List[i] = Get(map, i - 1) /\ List[i] \in Stored
BY ListIs DEF Known, Promise!Size

LEMMA MapsPush ==
  ASSUME Known, NEW args \in Args, Push(args)
  PROVE  Promise!Push(args)
<1> DEFINE n == Len(args)
           new == length .. length + n - 1
<1>1. args \in Seq(Stored) /\ n \in Nat
  BY ArgsSeq
<1>2. /\ List \in Seq(Stored) /\ Len(List) = length
      /\ \A i \in 1 .. length : List[i] = Get(map, i - 1)
  BY ListKnown
<1>3. /\ map' = [i \in DOMAIN map \cup new |-> IF i \in new THEN args[i - length + 1] ELSE map[i]]
      /\ length' = length + n /\ status' = status /\ stray' = stray
  BY DEF Push, SetLen, Step, Goes
<1>4. /\ List \o args \in Seq(Stored)
      /\ Len(List \o args) = length + n
      /\ \A i \in 1 .. length + n : (List \o args)[i] =
           IF i <= length THEN List[i] ELSE args[i - length]
  BY <1>1, <1>2, ConcatProperties
<1>5. length \in Nat
  BY DEF Known
<1> HIDE DEF n
<1>6. ASSUME NEW i \in 1 .. length + n PROVE (List \o args)[i] = Get(map', i - 1)
  <2>1. CASE i <= length
    <3>1. i - 1 \notin new /\ i \in 1 .. length
      BY <1>1, <1>5, <2>1
    <3>2. Get(map', i - 1) = Get(map, i - 1)
      BY <1>3, <3>1 DEF Get
    <3> QED
      BY <1>2, <1>4, <2>1, <3>1, <3>2
  <2>2. CASE ~ i <= length
    <3>1. i - 1 \in new /\ i - 1 - length + 1 = i - length
      BY <1>1, <1>5, <2>2
    <3>2. Get(map', i - 1) = args[i - 1 - length + 1]
      <4>1. i - 1 \in DOMAIN map'
        BY <1>3, <3>1
      <4>2. map'[i - 1] = args[i - 1 - length + 1]
        BY <1>3, <3>1, <4>1
      <4> QED
        BY <4>1, <4>2 DEF Get
    <3> QED
      BY <1>4, <2>2, <3>1, <3>2
  <2> QED
    BY <2>1, <2>2
<1>7. List' = List \o args
  BY <1>3, <1>4, <1>6, NewList
<1> QED
  BY <1>3, <1>7 DEF Promise!Push, Promise!Becomes

LEMMA MapsUnshift ==
  ASSUME Known, NEW args \in Args, Unshift(args)
  PROVE  Promise!Unshift(args)
<1>1. args \in Seq(Stored) /\ Len(args) \in Nat
  BY ArgsSeq
<1>2. List \in Seq(Stored) /\ Len(List) = length
  BY ListKnown
<1>3. map' = Filled(args \o List) /\ length' = length + Len(args) /\ status' = status /\ stray' = stray
  BY DEF Unshift, SetLen, Step, Goes, List
<1>4. args \o List \in Seq(Stored) /\ Len(args \o List) = Len(args) + Len(List)
  BY <1>1, <1>2, ConcatProperties
<1>5. length' = Len(args \o List)
  BY <1>1, <1>2, <1>3, <1>4 DEF Known
<1>6. List' = args \o List
  BY <1>3, <1>4, <1>5, NewFilled
<1> QED
  BY <1>3, <1>6 DEF Promise!Unshift, Promise!Becomes

LEMMA MapsSplice ==
  ASSUME Known, status = "running", NEW index \in ArgWords, NEW howMany \in ArgWords, NEW args \in Args,
         Splice(index, howMany, args)
  PROVE  Promise!Next \/ UNCHANGED Promise!vars
<1> DEFINE k == Keepers(index, howMany, args)
<1>0. index \in Nat /\ howMany \in Nat /\ length \in Nat
  BY WordsNat DEF Known
<1>1. k \in Seq(Stored)
  BY <1>0, KeepersSeq DEF Known
<1>2. Promise!Size = length /\ Len(List) = length
  BY ListKnown
<1> HIDE DEF k
<1>3. ASSUME Step, index < length => howMany # WordMax, map' = Filled(k), SetLen(Len(k))
      PROVE  Promise!Next \/ UNCHANGED Promise!vars
  <2>1. List' = k /\ status' = status /\ stray' = stray
    BY <1>1, <1>3, NewFilled DEF SetLen, Step, Goes
  <2>2. CASE index < length
    <3>1. k = SubSeq(List, 1, index) \o args \o SubSeq(List, index + howMany + 1, length)
      <4>1. SpliceAgrees
        BY SpliceIs DEF Known
      <4>2. howMany \in ArgWords \ {WordMax}
        BY <1>3, <2>2
      <4> QED
        BY <2>2, <4>1, <4>2 DEF SpliceAgrees, k
    <3>2. Promise!Splice(index, howMany, args)
      BY <1>2, <2>1, <2>2, <3>1
         DEF Promise!Splice, Promise!Becomes, Promise!Front, Promise!Rest
    <3>3. index \in 0 .. MaxLen /\ howMany \in 0 .. MaxLen
      <4>1. howMany \in 0 .. MaxLen
        BY <1>3, <2>2, ArraysAssumption DEF ArgWords, Words
      <4>2. index \in 0 .. MaxLen
        BY <1>0, <2>2, ArraysAssumption DEF Known
      <4> QED
        BY <4>1, <4>2
    <3> QED
      BY <3>2, <3>3 DEF Promise!Next, Known
  <2>3. CASE ~ index < length
    <3>1. k = List
      BY <2>3 DEF Keepers, List, k
    <3> QED
      BY <2>1, <3>1 DEF Promise!vars
  <2> QED
    BY <2>2, <2>3
<1>4. ASSUME index < length, Ends("splice") PROVE Promise!Next
  <2>1. List # <<>>
    BY <1>0, <1>2, <1>4, EmptySeq
  <2>2. List' = List /\ status' = "splice" /\ ~ stray'
    BY <1>4 DEF Ends, List, Known
  <2> QED
    BY <2>1, <2>2 DEF Promise!Next, Promise!SpliceTooMany, Promise!Fails, Known
<1> QED
  BY <1>3, <1>4 DEF Splice, k

(* Lists counts as this module does. *)
LEMMA SameCardinality == \A S : Promise!Cardinality(S) = Cardinality(S)
BY DEF Promise!Cardinality, Cardinality

(* Members of a sequence that another has as often are members of it. *)
LEMMA SameMembers ==
  ASSUME NEW s \in Seq(Stored), NEW t \in Seq(Stored), NEW i \in DOMAIN s,
         \A v : Occurrences(s, v) = Occurrences(t, v)
  PROVE  \E j \in DOMAIN t : t[j] = s[i]
<1> DEFINE A == {j \in DOMAIN s : s[j] = s[i]}
           B == {j \in DOMAIN t : t[j] = s[i]}
<1>1. Cardinality(A) = Cardinality(B)
  BY DEF Occurrences
<1>2. IsFiniteSet(A) /\ IsFiniteSet(B)
  <2>1. /\ Len(s) \in Nat /\ DOMAIN s = 1 .. Len(s)
        /\ Len(t) \in Nat /\ DOMAIN t = 1 .. Len(t)
    BY LenProperties
  <2>2. IsFiniteSet(DOMAIN s) /\ IsFiniteSet(DOMAIN t)
    BY <2>1, FS_Interval
  <2>3. A \in SUBSET DOMAIN s /\ B \in SUBSET DOMAIN t
    OBVIOUS
  <2> QED
    BY <2>2, <2>3, FS_Subset
<1>3. A # {}
  OBVIOUS
<1>4. B # {}
  <2> HIDE DEF A, B
  <2> QED
    BY <1>1, <1>2, <1>3, FS_EmptySet
<1> QED
  BY <1>4

LEMMA MapsSort ==
  ASSUME Known, NEW c, IsCmp(c), SortBy(c)
  PROVE  Promise!Sort \/ UNCHANGED Promise!vars
<1>1. /\ List \in Seq(Stored) /\ Len(List) = length /\ Promise!Size = length
      /\ \A i \in 1 .. length : List[i] = Get(map, i - 1)
  BY ListKnown
<1>2. CASE Unchanged /\ Step
  BY <1>2 DEF Unchanged, Step, Goes, List, Promise!vars
<1>3. ASSUME NEW s \in MergeSort(List, c), Step,
             map' = [j \in 0 .. length - 1 |-> s[j + 1]], SetLen(length)
      PROVE  Promise!Permute
  <2>1. /\ s \in Seq(Stored) /\ Len(s) = length
        /\ \A v : Occurrences(s, v) = Occurrences(List, v)
    BY <1>1, SortPermutes
  <2>2. map' = Filled(s) /\ length' = Len(s)
    BY <1>3, <2>1 DEF Filled, SetLen
  <2>3. List' = s
    BY <2>1, <2>2, NewFilled
  <2>4. DOMAIN s = 1 .. length /\ DOMAIN List = 1 .. length
    BY <1>1, <2>1, LenProperties
  <2>5. s \in [1 .. length -> {List[i] : i \in 1 .. length}]
    <3>1. \A i \in 1 .. length : \E j \in 1 .. length : List[j] = s[i]
      <4> SUFFICES ASSUME NEW i \in 1 .. length PROVE \E j \in 1 .. length : List[j] = s[i]
        OBVIOUS
      <4>1. i \in DOMAIN s
        BY <2>4
      <4>2. \E j \in DOMAIN List : List[j] = s[i]
        BY <1>1, <2>1, <4>1, SameMembers
      <4> QED
        BY <2>4, <4>2
    <3>2. s = [i \in 1 .. length |-> s[i]]
      BY <2>1, <2>4, LenProperties
    <3> QED
      BY <3>1, <3>2
  <2>6. \A i \in 1 .. length : Cardinality({j \in 1 .. length : s[j] = List[i]}) =
                               Cardinality({j \in 1 .. length : List[j] = List[i]})
    BY <2>1, <2>4 DEF Occurrences
  <2>7. \A i \in 1 .. length : Promise!Cardinality({j \in 1 .. length : s[j] = List[i]}) =
                               Promise!Cardinality({j \in 1 .. length : List[j] = List[i]})
    BY <2>6, SameCardinality
  <2> QED
    BY <1>1, <1>3, <2>3, <2>5, <2>7 DEF Promise!Permute, Step, Goes
<1>4. ASSUME Holes # {}, Ends("sort") PROVE Promise!Sort
  <2>1. PICK i \in 0 .. length - 1 : i \notin DOMAIN map
    BY <1>4 DEF Holes
  <2>2. i + 1 \in 1 .. length /\ i + 1 - 1 = i
    BY <2>1 DEF Known
  <2>3. List[i + 1] = Get(map, i + 1 - 1)
    BY <1>1, <2>2
  <2>4. List[i + 1] = Undef
    BY <2>1, <2>2, <2>3 DEF Get
  <2>5. status' = "sort" /\ List' = List /\ ~ stray'
    BY <1>4 DEF Ends, List, Known
  <2> QED
    BY <1>1, <2>2, <2>4, <2>5 DEF Promise!Sort, Promise!Fails
<1> QED
  BY <1>2, <1>3, <1>4 DEF SortBy, List, Promise!Sort

LEMMA MapsPop ==
  ASSUME Known, Pop
  PROVE  Promise!Pop
<1>1. /\ List \in Seq(Stored) /\ Len(List) = length /\ Promise!Size = length
      /\ \A i \in 1 .. length : List[i] = Get(map, i - 1)
  BY ListKnown
<1>2. length \in Nat
  BY DEF Known
<1>3. CASE length = 0
  <2>1. List = <<>>
    BY <1>1, <1>3, EmptySeq
  <2>2. List' = List /\ status' = status /\ stray' = stray
    BY <1>3, <1>2 DEF Pop, Step, Goes, Unchanged, List
  <2> QED
    BY <2>1, <2>2 DEF Promise!Pop, Promise!Becomes
<1>4. CASE length # 0
  <2> DEFINE s == SubSeq(List, 1, length - 1)
  <2>1. map' = Without(map, length - 1) /\ length' = length - 1 /\ status' = status /\ stray' = stray
    BY <1>4 DEF Pop, Step, Goes, SetLen
  <2>2. length - 1 \in 0 .. Len(List) /\ List # <<>>
    BY <1>1, <1>2, <1>4, EmptySeq
  <2>3. s \in Seq(Stored) /\ Len(s) = length - 1 /\ \A i \in 1 .. length - 1 : s[i] = List[i]
    BY <1>1, <2>2, Prefix
  <2> HIDE DEF s
  <2>4. ASSUME NEW i \in 1 .. length - 1 PROVE s[i] = Get(map', i - 1)
    <3>1. i \in 1 .. length /\ i - 1 # length - 1
      BY <1>2
    <3>2. Get(map', i - 1) = Get(map, i - 1)
      BY <2>1, <3>1 DEF Without, Get
    <3> QED
      BY <1>1, <2>3, <3>1, <3>2
  <2>5. List' = s
    BY <2>1, <2>3, <2>4, NewList
  <2> QED
    BY <1>1, <2>1, <2>2, <2>5 DEF Promise!Pop, Promise!Becomes, Promise!Front, s
<1> QED
  BY <1>3, <1>4

LEMMA MapsShift ==
  ASSUME Known, Shift
  PROVE  Promise!Shift
<1>1. /\ List \in Seq(Stored) /\ Len(List) = length /\ Promise!Size = length
      /\ \A i \in 1 .. length : List[i] = Get(map, i - 1)
  BY ListKnown
<1>2. length \in Nat
  BY DEF Known
<1>3. CASE Step /\ length = 0 /\ Unchanged
  <2>1. List = <<>>
    BY <1>1, <1>3, EmptySeq
  <2>2. List' = List /\ status' = status /\ stray' = stray
    BY <1>3 DEF Step, Goes, Unchanged, List
  <2> QED
    BY <2>1, <2>2 DEF Promise!Shift, Promise!Becomes
<1>4. ASSUME Step, length > 0, Holes \subseteq {0},
             map' = [i \in {j - 1 : j \in 1 .. length - 1} \cup {j \in DOMAIN map : j >= length} |->
                       IF i < length THEN map[i + 1] ELSE map[i]],
             SetLen(length - 1)
      PROVE  Promise!Shift
  <2> DEFINE s == Tail(List)
             D == {j - 1 : j \in 1 .. length - 1} \cup {j \in DOMAIN map : j >= length}
  <2>1. List # <<>>
    BY <1>1, <1>4, EmptySeq
  <2>2. s \in Seq(Stored) /\ Len(s) = length - 1 /\ \A i \in 1 .. Len(s) : s[i] = List[i + 1]
    BY <1>1, <2>1, HeadTailProperties
  <2>3. length' = length - 1 /\ status' = status /\ stray' = stray
    BY <1>4 DEF Step, Goes, SetLen
  <2>4. DOMAIN map' = D /\ \A i \in D : map'[i] = IF i < length THEN map[i + 1] ELSE map[i]
    BY <1>4
  <2>5. \A i \in 1 .. length - 1 : i - 1 \in D
    OBVIOUS
  <2> HIDE DEF s, D
  <2>6. ASSUME NEW i \in 1 .. length - 1 PROVE s[i] = Get(map', i - 1)
    <3>1. /\ i \in 0 .. length - 1 /\ i # 0 /\ i - 1 < length /\ i - 1 + 1 = i
          /\ i + 1 \in 1 .. length /\ i + 1 - 1 = i
      BY <1>2
    <3>2. i \in DOMAIN map
      BY <1>4, <3>1 DEF Holes
    <3>3. Get(map', i - 1) = map[i]
      <4>1. i - 1 \in DOMAIN map'
        BY <2>4, <2>5
      <4>2. map'[i - 1] = map[i - 1 + 1]
        BY <2>4, <2>5, <3>1
      <4> QED
        BY <3>1, <4>1, <4>2 DEF Get
    <3>4. List[i + 1] = Get(map, i + 1 - 1)
      BY <1>1, <3>1
    <3>5. s[i] = List[i + 1]
      BY <2>2
    <3> QED
      BY <3>1, <3>2, <3>3, <3>4, <3>5 DEF Get
  <2>7. List' = s
    BY <2>2, <2>3, <2>6, NewList
  <2> QED
    BY <2>1, <2>3, <2>7 DEF Promise!Shift, Promise!Becomes, s
<1>5. ASSUME ~ Holes \subseteq {0}, Ends("shift") PROVE Promise!Shift
  <2>1. PICK i \in 0 .. length - 1 : i \notin DOMAIN map /\ i # 0
    BY <1>5 DEF Holes
  <2>2. i + 1 \in 1 .. length /\ i + 1 \in 2 .. length /\ i + 1 - 1 = i
    BY <1>2, <2>1
  <2>3. List[i + 1] = Get(map, i + 1 - 1)
    BY <1>1, <2>2
  <2>4. List[i + 1] = Undef
    BY <2>1, <2>2, <2>3 DEF Get
  <2>5. status' = "shift" /\ List' = List /\ ~ stray'
    BY <1>5 DEF Ends, List, Known
  <2> QED
    BY <1>1, <2>2, <2>4, <2>5 DEF Promise!Shift, Promise!Fails
<1> QED
  BY <1>3, <1>4, <1>5 DEF Shift

LEMMA MapsReverse ==
  ASSUME Known, Reverse
  PROVE  Promise!Reverse
<1>1. /\ List \in Seq(Stored) /\ Len(List) = length /\ Promise!Size = length
      /\ \A i \in 1 .. length : List[i] = Get(map, i - 1) /\ List[i] \in Stored
  BY ListKnown
<1>2. length \in Nat /\ \A j \in DOMAIN map : j \in Nat /\ j < length
  BY DEF Known, MapInv, ElementsBelowLength
<1>3. ASSUME Step, length > 0,
             map' = [i \in {IF j < length THEN length - 1 - j ELSE j : j \in DOMAIN map} |->
                       map[IF i < length THEN length - 1 - i ELSE i]],
             UNCHANGED <<length, shown>>
      PROVE  Promise!Reverse
  <2> DEFINE s == [i \in 1 .. length |-> List[length + 1 - i]]
             D == {IF j < length THEN length - 1 - j ELSE j : j \in DOMAIN map}
  <2>1. \A i \in 1 .. length : length + 1 - i \in 1 .. length
    BY <1>2
  <2>2. s \in [1 .. length -> Stored]
    BY <1>1, <2>1
  <2>3. s \in Seq(Stored) /\ Len(s) = length /\ \A i \in 1 .. length : s[i] = List[length + 1 - i]
    BY <1>2, <2>2, FunctionIsSeq
  <2>4. DOMAIN map' = D /\ \A i \in D : map'[i] = map[IF i < length THEN length - 1 - i ELSE i]
    BY <1>3
  <2>5. \A i \in 1 .. length : i - 1 \in D <=> length - i \in DOMAIN map
    <3> SUFFICES ASSUME NEW i \in 1 .. length PROVE i - 1 \in D <=> length - i \in DOMAIN map
      OBVIOUS
    <3>1. ASSUME i - 1 \in D PROVE length - i \in DOMAIN map
      <4>1. PICK j \in DOMAIN map : i - 1 = IF j < length THEN length - 1 - j ELSE j
        BY <3>1
      <4>2. i - 1 = length - 1 - j /\ j \in Nat
        BY <1>2, <4>1
      <4>3. j = length - i
        BY <1>2, <4>2
      <4> QED
        BY <4>3
    <3>2. ASSUME length - i \in DOMAIN map PROVE i - 1 \in D
      <4> DEFINE j == length - i
      <4>1. j \in DOMAIN map /\ j < length /\ length - 1 - j = i - 1
        BY <1>2, <3>2
      <4> HIDE DEF j
      <4> QED
        BY <4>1
    <3> QED
      BY <3>1, <3>2
  <2>6. length' = length /\ status' = status /\ stray' = stray
    BY <1>3 DEF Step, Goes
  <2> HIDE DEF s, D
  <2>7. ASSUME NEW i \in 1 .. length PROVE s[i] = Get(map', i - 1)
    <3>1. i - 1 < length /\ length - 1 - (i - 1) = length - i /\ length + 1 - i - 1 = length - i
      BY <1>2
    <3>2. List[length + 1 - i] = Get(map, length + 1 - i - 1)
      BY <1>1, <2>1
    <3>3. Get(map', i - 1) = Get(map, length - i)
      <4>1. CASE i - 1 \in D
        <5>1. map'[i - 1] = map[length - 1 - (i - 1)]
          BY <2>4, <3>1, <4>1
        <5> QED
          BY <2>4, <2>5, <3>1, <4>1, <5>1 DEF Get
      <4>2. CASE i - 1 \notin D
        BY <2>4, <2>5, <4>2 DEF Get
      <4> QED
        BY <4>1, <4>2
    <3> QED
      BY <2>3, <3>1, <3>2, <3>3
  <2>8. List' = s
    BY <2>3, <2>6, <2>7, NewList
  <2>9. List # <<>>
    BY <1>1, <1>3, EmptySeq
  <2> QED
    BY <1>1, <2>6, <2>8, <2>9 DEF Promise!Reverse, Promise!Becomes, s
<1>4. ASSUME length = 0, Ends("reverse") PROVE Promise!Reverse
  <2>1. List = <<>>
    BY <1>1, <1>4, EmptySeq
  <2> QED
    BY <1>4, <2>1 DEF Promise!Reverse, Promise!Fails, Ends, List, Known
<1> QED
  BY <1>3, <1>4 DEF Reverse

LEMMA MapsAssign ==
  ASSUME Known, NEW index \in Nat, NEW value \in Value, Step, map' = Put(map, index, value),
         length' = IF index < length THEN length ELSE index + 1
  PROVE  Promise!Assign(index, value)
<1>1. /\ List \in Seq(Stored) /\ Len(List) = length /\ Promise!Size = length
      /\ \A i \in 1 .. length : List[i] = Get(map, i - 1) /\ List[i] \in Stored
  BY ListKnown
<1>2. length \in Nat /\ \A j \in DOMAIN map : j < length
  BY DEF Known, ElementsBelowLength
<1> DEFINE n == IF index < length THEN length ELSE index + 1
           At(i) == IF i = index + 1 THEN value ELSE IF i <= length THEN List[i] ELSE Undef
           s == [i \in 1 .. n |-> At(i)]
<1>3. n \in Nat /\ length' = n
  BY <1>2
<1>4. \A i \in 1 .. n : At(i) \in Stored
  BY <1>1, <1>2 DEF Stored
<1> HIDE DEF n
<1>5. s \in [1 .. n -> Stored]
  <2> HIDE DEF At
  <2> QED
    BY <1>4
<1>6. s \in Seq(Stored) /\ Len(s) = n
  <2> HIDE DEF s
  <2> QED
    BY <1>3, <1>5, FunctionIsSeq
<1>7. \A i \in 1 .. n : s[i] = At(i)
  OBVIOUS
<1> HIDE DEF s
<1>8. ASSUME NEW i \in 1 .. n PROVE s[i] = Get(map', i - 1)
  <2>1. CASE i = index + 1
    <3>1. i - 1 = index
      BY <2>1
    <3> QED
      BY <1>7, <2>1, <3>1 DEF Put, Get
  <2>2. CASE i # index + 1
    <3>1. i - 1 # index
      BY <2>2
    <3>2. Get(map', i - 1) = Get(map, i - 1)
      BY <3>1 DEF Put, Get
    <3>3. CASE i <= length
      <4>1. i \in 1 .. length
        BY <1>2, <3>3
      <4> QED
        BY <1>1, <1>7, <2>2, <3>2, <3>3, <4>1
    <3>4. CASE ~ i <= length
      <4>1. i - 1 \notin DOMAIN map
        BY <1>2, <3>4
      <4> QED
        BY <1>7, <2>2, <3>2, <3>4, <4>1 DEF Get
    <3> QED
      BY <3>3, <3>4
  <2> QED
    BY <2>1, <2>2
<1>9. List' = s
  BY <1>3, <1>6, <1>8, NewList
<1> QED
  BY <1>1, <1>9 DEF Promise!Assign, Promise!Becomes, Step, Goes, s, n

(* What a key that spells no index does to the length, it does to the list. *)
LEMMA MapsLengthen ==
  ASSUME Known, NEW n \in Nat, n >= length, map' = map, length' = n + 1,
         UNCHANGED <<status, stray>>
  PROVE  Promise!Lengthen(n)
<1>1. /\ List \in Seq(Stored) /\ Len(List) = length /\ Promise!Size = length
      /\ \A i \in 1 .. length : List[i] = Get(map, i - 1) /\ List[i] \in Stored
  BY ListKnown
<1>2. length \in Nat /\ \A j \in DOMAIN map : j < length
  BY DEF Known, ElementsBelowLength
<1> DEFINE s == [i \in 1 .. n + 1 |-> IF i <= length THEN List[i] ELSE Undef]
<1>3. s \in [1 .. n + 1 -> Stored]
  BY <1>1, <1>2 DEF Stored
<1>4. \A i \in 1 .. n + 1 : s[i] = IF i <= length THEN List[i] ELSE Undef
  OBVIOUS
<1> HIDE DEF s
<1>5. s \in Seq(Stored) /\ Len(s) = n + 1
  BY <1>3, FunctionIsSeq
<1>6. ASSUME NEW i \in 1 .. n + 1 PROVE s[i] = Get(map', i - 1)
  <2>1. CASE i <= length
    <3>1. i \in 1 .. length
      BY <1>2, <2>1
    <3> QED
      BY <1>1, <1>4, <2>1, <3>1
  <2>2. CASE ~ i <= length
    <3>1. i - 1 \notin DOMAIN map
      BY <1>2, <2>2
    <3> QED
      BY <1>4, <2>2, <3>1 DEF Get
  <2> QED
    BY <2>1, <2>2
<1>7. List' = s
  BY <1>5, <1>6, NewList
<1> QED
  BY <1>1, <1>7 DEF Promise!Lengthen, Promise!Becomes, s

LEMMA MapsDelete ==
  ASSUME Known, NEW index \in 0 .. MaxLen, Delete(index)
  PROVE  Promise!Delete(index)
<1>0. index \in Nat
  BY ArraysAssumption
<1>1. /\ List \in Seq(Stored) /\ Len(List) = length /\ Promise!Size = length
      /\ \A i \in 1 .. length : List[i] = Get(map, i - 1) /\ List[i] \in Stored
  BY ListKnown
<1>2. length \in Nat /\ \A j \in DOMAIN map : j < length
  BY DEF Known, ElementsBelowLength
<1>3. ASSUME Step, index \in DOMAIN map, map' = Without(map, index), UNCHANGED <<length, shown>>
      PROVE  Promise!Delete(index)
  <2> DEFINE s == [List EXCEPT ![index + 1] = Undef]
  <2>1. index < length /\ index + 1 \in 1 .. length
    BY <1>0, <1>2, <1>3
  <2>2. DOMAIN List = 1 .. length
    BY <1>1, LenProperties
  <2>3. s \in [1 .. length -> Stored] /\ \A i \in 1 .. length :
          s[i] = IF i = index + 1 THEN Undef ELSE List[i]
    <3>1. List \in [1 .. length -> Stored]
      BY <1>1, LenProperties
    <3> QED
      BY <2>1, <3>1 DEF Stored
  <2> HIDE DEF s
  <2>4. s \in Seq(Stored) /\ Len(s) = length
    BY <1>2, <2>3, FunctionIsSeq
  <2>5. ASSUME NEW i \in 1 .. length PROVE s[i] = Get(map', i - 1)
    <3>1. CASE i = index + 1
      <4>1. i - 1 = index
        BY <1>0, <3>1
      <4> QED
        BY <1>3, <2>3, <3>1, <4>1 DEF Without, Get
    <3>2. CASE i # index + 1
      <4>1. i - 1 # index
        BY <1>0, <3>2
      <4>2. Get(map', i - 1) = Get(map, i - 1)
        BY <1>3, <4>1 DEF Without, Get
      <4> QED
        BY <1>1, <2>3, <3>2, <4>2
    <3> QED
      BY <3>1, <3>2
  <2>6. length' = length /\ status' = status /\ stray' = stray
    BY <1>3 DEF Step, Goes
  <2>7. List' = s
    BY <2>4, <2>5, <2>6, NewList
  <2> QED
    BY <1>1, <2>1, <2>6, <2>7 DEF Promise!Delete, Promise!Becomes, s
<1>4. ASSUME index \notin DOMAIN map, Ends("delete") PROVE Promise!Delete(index)
  <2>1. ASSUME index < length PROVE List[index + 1] = Undef
    <3>1. PICK i \in 1 .. length : i = index + 1 /\ i - 1 = index
      BY <1>0, <1>2, <2>1
    <3>2. List[i] = Get(map, index)
      BY <1>1, <3>1
    <3> QED
      BY <1>4, <3>1, <3>2 DEF Get
  <2>2. status' = "delete" /\ List' = List /\ ~ stray'
    BY <1>4 DEF Ends, List, Known
  <2> QED
    BY <1>1, <2>1, <2>2 DEF Promise!Delete, Promise!Fails
<1> QED
  BY <1>3, <1>4 DEF Delete

(* An increment beyond the end, and the key -1. *)
LEMMA MapsStray ==
  ASSUME status = "running", ~ stray, stray'
  PROVE  Promise!Next
BY DEF Promise!Next, Promise!Break

(* What has strayed does not come back. *)
LEMMA StrayStays ==
  ASSUME [Next]_vars
  PROVE  stray => stray' = TRUE \/ stray' = stray
BY DEF Next, vars, Push, Unshift, Pop, Shift, Reverse, Sort, SortWith, SortBy, Splice, Assign,
       AssignKey, Increment, AssignLength, Delete, Begin, MoveOn, Step, Goes, Ends, Ended

(* Every step is one of the list, or leaves it alone. *)
LEMMA MapsStep ==
  ASSUME IInv, [Next]_vars
  PROVE  [Promise!Next]_(Promise!vars)
<1>0. CASE stray
  <2>1. stray' = TRUE \/ stray' = stray
    BY <1>0, StrayStays
  <2> QED
    BY <1>0, <2>1 DEF Promise!Next, Promise!Break
<1> SUFFICES ASSUME ~ stray PROVE [Promise!Next]_(Promise!vars)
  BY <1>0
<1>1. Known
  BY MapStep DEF IInv, Fits, Known
<1>2. length \in Nat
  BY DEF IInv
<1>3. ASSUME NEW args \in Args, Push(args) PROVE Promise!Next
  BY <1>1, <1>3, MapsPush DEF Promise!Next, Push, Step, Goes, Known
<1>4. ASSUME NEW args \in Args, Unshift(args) PROVE Promise!Next
  BY <1>1, <1>4, MapsUnshift DEF Promise!Next, Unshift, Step, Goes, Known
<1>5. CASE Pop
  BY <1>1, <1>5, MapsPop DEF Promise!Next, Pop, Step, Goes, Known
<1>6. CASE Shift
  <2>1. status = "running"
    BY <1>6 DEF Shift, Step, Goes, Ends
  <2> QED
    BY <1>1, <1>6, <2>1, MapsShift DEF Promise!Next, Known
<1>7. CASE Reverse
  <2>1. status = "running"
    BY <1>7 DEF Reverse, Step, Goes
  <2> QED
    BY <1>1, <1>7, <2>1, MapsReverse DEF Promise!Next, Known
<1>8. ASSUME NEW c, IsCmp(c), SortBy(c) PROVE Promise!Next \/ UNCHANGED Promise!vars
  <2>1. status = "running"
    BY <1>8 DEF SortBy, Step, Goes
  <2> QED
    BY <1>1, <1>8, <2>1, MapsSort DEF Promise!Next, Known
<1>9. CASE Sort \/ SortWith
  BY <1>8, <1>9, AreCmps DEF Sort, SortWith
<1>10. ASSUME NEW index \in ArgWords, NEW howMany \in ArgWords, NEW args \in Args,
              Splice(index, howMany, args)
       PROVE  Promise!Next \/ UNCHANGED Promise!vars
  <2>1. status = "running"
    BY <1>10 DEF Splice, Step, Goes
  <2> QED
    BY <1>1, <1>10, <2>1, MapsSplice
<1>11. ASSUME NEW index \in Index, NEW value \in Value,
              Assign(index, value) \/ Increment(index, value)
       PROVE  Promise!Next
  <2>0. CASE stray'
    <3>1. status = "running"
      BY <1>11 DEF Assign, Increment, Step, Goes
    <3> QED
      BY <2>0, <3>1, MapsStray
  <2> SUFFICES ASSUME ~ stray' PROVE Promise!Next
    BY <2>0
  <2>1. index \in Nat /\ index \in 0 .. MaxLen
    BY ArraysAssumption DEF Index
  <2>2. /\ Step /\ map' = Put(map, index, value)
        /\ length' = IF index < length THEN length ELSE index + 1
    BY <1>2, <1>11, <2>1 DEF Assign, Increment, SetLen, Step, Goes
  <2>3. Promise!Assign(index, value)
    BY <1>1, <2>1, <2>2, MapsAssign
  <2> QED
    BY <1>1, <2>1, <2>2, <2>3 DEF Promise!Next, Step, Goes, Known
<1>12. ASSUME NEW index \in 0 .. MaxLen, Delete(index) PROVE Promise!Next
  <2>1. status = "running"
    BY <1>12 DEF Delete, Step, Goes
  <2> QED
    BY <1>1, <1>12, <2>1, MapsDelete DEF Promise!Next, Known
<1>13. CASE \/ \E n \in {0, MaxLen} : AssignLength(n)
            \/ \E method \in Method : Begin(method)
            \/ MoveOn \/ Ended \/ UNCHANGED vars
  BY <1>13 DEF AssignLength, Begin, MoveOn, Ended, vars, Step, Goes, Promise!vars, List
<1>14. ASSUME NEW n \in -1 .. MaxLen - 1, AssignKey(n)
       PROVE  Promise!Next \/ UNCHANGED Promise!vars
  <2>0. CASE stray'
    <3>1. status = "running"
      BY <1>14 DEF AssignKey, Goes
    <3> QED
      BY <2>0, <3>1, MapsStray
  <2> SUFFICES ASSUME ~ stray' PROVE Promise!Next \/ UNCHANGED Promise!vars
    BY <2>0
  <2>1. PICK val \in Words(n) :
          /\ IF val >= length THEN SetLen(IF val = WordMax THEN 0 ELSE val + 1)
             ELSE UNCHANGED <<length, shown>>
          /\ IF val = WordMax /\ length > 0 THEN stray' = TRUE ELSE UNCHANGED stray
          /\ map' = map /\ Goes
    BY <1>14 DEF AssignKey
  <2>2. val \in Nat /\ (val = WordMax \/ val \in 0 .. MaxLen)
    BY ArraysAssumption DEF Words, WordMax
  <2>3. CASE val >= length /\ val # WordMax
    <3>1. Promise!Lengthen(val)
      <4>1. /\ val \in Nat /\ val >= length /\ map' = map /\ length' = val + 1
            /\ UNCHANGED <<status, stray>>
        BY <1>1, <2>1, <2>2, <2>3 DEF SetLen, Goes, Known
      <4> QED
        BY <1>1, <4>1, MapsLengthen
    <3>2. val \in 0 .. MaxLen /\ status = "running"
      BY <2>1, <2>2, <2>3 DEF Goes
    <3> QED
      BY <3>1, <3>2 DEF Promise!Next
  <2>4. CASE ~ (val >= length /\ val # WordMax)
    <3>1. length' = length
      <4>1. CASE val = WordMax
        BY <1>2, <2>1, <2>2, <4>1 DEF SetLen
      <4>2. CASE val # WordMax
        BY <2>1, <2>4, <4>2
      <4> QED
        BY <4>1, <4>2
    <3> QED
      BY <2>1, <3>1 DEF Promise!vars, List, Goes
  <2> QED
    BY <2>3, <2>4
<1> QED
  BY <1>3, <1>4, <1>5, <1>6, <1>7, <1>9, <1>10, <1>11, <1>12, <1>13, <1>14 DEF Next

-----------------------------------------------------------------------------
(* The theorems.                                                           *)

LEMMA InitHolds == Init => IInv
<1> SUFFICES ASSUME Init PROVE IInv
  OBVIOUS
<1>1. length \in Nat /\ length <= MaxLen
  BY ArraysAssumption DEF Init
<1>2. stray \in BOOLEAN /\ IterInv
  BY DEF Init, IterInv
<1>3. CASE map \in [0 .. length - 1 -> Value]
  <2>1. DOMAIN map = 0 .. length - 1 /\ \A i \in DOMAIN map : i \in Nat /\ i < length /\ map[i] \in Stored
    BY <1>1, <1>3 DEF Stored
  <2> QED
    BY <1>1, <1>2, <2>1 DEF IInv, MapInv, ElementsBelowLength
<1>4. CASE map = <<>>
  <2>1. DOMAIN map = {}
    BY <1>4
  <2> QED
    BY <1>1, <1>2, <2>1 DEF IInv, MapInv, ElementsBelowLength
<1> QED
  BY <1>3, <1>4 DEF Init

LEMMA StepKeeps == IInv /\ [Next]_vars => IInv'
<1> SUFFICES ASSUME IInv, [Next]_vars PROVE IterInv'
  BY MapStep DEF IInv, Fits
<1>1. CASE UNCHANGED iter
  BY <1>1 DEF IInv, IterInv
<1> QED
  BY <1>1, IterSteps, BeginInv, MoveOnInv

(* The inductive invariant holds of every reachable state. *)
THEOREM Invariant == Spec => []IInv
BY InitHolds, StepKeeps, PTL DEF Spec

(* No sequence of methods, deletions and assignments leaves an element     *)
(* where no method would find it, until a script increments one beyond the *)
(* end or assigns to the key -1 of an array that is not empty.             *)
THEOREM ElementsStayBelow == Spec => []ElementsBelowLength
<1>1. IInv => ElementsBelowLength
  BY DEF IInv
<1> QED
  BY <1>1, Invariant, PTL

(* What slice, concat, indexOf and lastIndexOf answer, and splice for any  *)
(* words but a number of elements that has wrapped around, is what their   *)
(* definitions on lists say, and sort permutes and sorts, for lists of     *)
(* every length.                                                           *)
THEOREM MethodsDoAgree == Spec => []MethodsAgree
<1>1. IInv => MethodsAgree
  BY QueriesAre, SpliceIs, SortIs DEF IInv, MethodsAgree
<1> QED
  BY <1>1, Invariant, PTL

(* An array behaves as the list of module Lists, in what its methods leave *)
(* and in which of them fail, until an element strays beyond its length.   *)
THEOREM ArraysAreLists == Spec => ImplementsLists
<1>1. Init => Promise!Init
  <2> SUFFICES ASSUME Init PROVE Promise!Init
    OBVIOUS
  <2>1. IInv /\ status = "running" /\ ~ stray
    BY InitHolds DEF Init
  <2>2. List \in Seq(Stored)
    BY <2>1, ListIs DEF IInv
  <2> QED
    BY <2>1, <2>2 DEF Promise!Init, Stored
<1>2. IInv /\ [Next]_vars => [Promise!Next]_(Promise!vars)
  BY MapsStep
<1> QED
  BY <1>1, <1>2, Invariant, PTL DEF Spec, ImplementsLists, Promise!Spec

(* An iteration ends after a callback for each index that its array had    *)
(* when it began, in order, whatever the callbacks do to the array.        *)
THEOREM IterationsComplete == Spec => EveryIndexOnce
<1> DEFINE Whole ==
      iter # Idle /\ iter' = Idle /\ iter.method # "some" =>
        LET n == IF iter.method \in {"reduce", "reduceRight"} THEN iter.len - 1 ELSE iter.len
        IN  iter.seen = [k \in 1 .. n |->
              IF iter.method \in Descending THEN n - k ELSE iter.len - n + k - 1]
<1>1. IInv /\ [Next]_vars => [Whole]_vars
  <2> SUFFICES ASSUME IInv, [Next]_vars, iter # Idle, iter' = Idle, iter.method # "some"
               PROVE  iter.seen = [k \in 1 .. Rounds(iter) |-> Nth(iter, k)]
    BY DEF Rounds, Nth
  <2>1. MoveOn
    BY IterSteps DEF Begin, Idle
  <2>2. iter \in [method : Method, len : Nat, i : Nat, seen : Seq(Nat)]
    BY DEF IInv, IterInv
  <2>3. PICK m \in Nat : Stands(iter, m)
    BY DEF IInv, IterInv
  <2>4. m = Rounds(iter)
    <3>1. [iter EXCEPT !.i = Word(IF iter.method \in Descending THEN iter.i - 1 ELSE iter.i + 1),
                       !.seen = Append(@, Word(IF iter.method \in Descending
                                                 THEN iter.i - 1 ELSE iter.i + 1))].method \in Method
      BY <2>2
    <3>2. Idle.method \notin Method
      BY DEF Idle, Method
    <3> QED
      BY <2>1, <2>2, <2>3, <3>1, <3>2, Last DEF MoveOn
  <2> QED
    BY <2>3, <2>4 DEF Stands
<1> QED
  BY <1>1, Invariant, PTL DEF Spec, EveryIndexOnce

(* A change of the length that methods use always brings the property that *)
(* a script reads back to it.                                              *)
THEOREM LengthsMeet == Spec => LengthShown
<1>1. [Next]_vars => [length' # length => shown' = length']_vars
  <2> SUFFICES ASSUME [Next]_vars, length' # length PROVE shown' = length'
    OBVIOUS
  <2>1. ASSUME NEW args \in Args, Push(args) \/ Unshift(args) PROVE shown' = length'
    BY <2>1 DEF Push, Unshift, SetLen
  <2>2. CASE Pop \/ Shift
    BY <2>2 DEF Pop, Shift, SetLen, Unchanged, Ends
  <2>3. CASE Reverse \/ Sort \/ SortWith
    BY <2>3 DEF Reverse, Sort, SortWith, SortBy, SetLen, Unchanged, Ends
  <2>4. ASSUME NEW index, NEW howMany, NEW args, Splice(index, howMany, args)
        PROVE  shown' = length'
    BY <2>4 DEF Splice, SetLen, Ends
  <2>5. ASSUME NEW index, NEW value, Assign(index, value) \/ Increment(index, value) \/ AssignKey(index)
        PROVE  shown' = length'
    BY <2>5 DEF Assign, AssignKey, Increment, SetLen
  <2>6. length' = length
        \/ ~ (\/ \E n \in {0, MaxLen} : AssignLength(n)
              \/ \E index \in 0 .. MaxLen : Delete(index)
              \/ \E method \in Method : Begin(method)
              \/ MoveOn \/ Ended \/ UNCHANGED vars)
    BY DEF AssignLength, Delete, Begin, MoveOn, Ended, Ends, vars
  <2> QED
    BY <2>1, <2>2, <2>3, <2>4, <2>5, <2>6 DEF Next
<1> QED
  BY <1>1, PTL DEF Spec, LengthShown
=============================================================================
