-------------------------- MODULE ArgumentsProofs --------------------------
(***************************************************************************)
(* Theorems about argument lists, array literals and methods               *)
(* (Arguments.tla), for every program: any lists, of any lengths, any      *)
(* methods and objects, and any bounds.                                    *)
(***************************************************************************)
EXTENDS Arguments, DataLemmas, TLAPS, SequenceTheorems

(* Of two open evaluations of a list, the first has counted the second.    *)
NestedCounted ==
  \A d, e \in 1 .. Depth :
    d < e /\ stack[d].list # NULL /\ stack[d].list = stack[e].list
      => stack[d].nested > 0

(* A list that is not being evaluated is rewound, or the list of a literal *)
(* that is done for good, unless a throw has ended its last evaluation.    *)
ListsAtRest ==
  \A l \in Lists \ torn :
    (\A d \in 1 .. Depth : stack[d].list # l)
      => cursor[l] = 0 \/ (l \in Literals /\ cursor[l] = Size[l])

(* The inductive invariant. *)
IInv ==
  /\ TypeOK
  /\ NestedCounted
  /\ ListsAtRest
  /\ ArgumentsInOrder
  /\ LiteralsAllOrNothing
  /\ MethodsKeepInstance

-----------------------------------------------------------------------------
(* The stack.                                                              *)

(* What the state's types say of the innermost activation and of others.   *)
LEMMA Activations ==
  ASSUME TypeOK
  PROVE  /\ Depth \in Nat
         /\ \A d \in 1 .. Depth : stack[d] \in Evaluation
         /\ \A l \in Lists : cursor[l] \in Nat /\ Size[l] \in Nat \ {0}
BY LenProperties, ElementOfSeq, ArgumentsAssumption DEF TypeOK, Depth

(* The record of a running function is an activation of no list. *)
LEMMA BodyType == Body \in Evaluation /\ Body.list = NULL
<1> DEFINE b == Begun(NULL, NULL, NULL)
<1>1. <<>> \in Seq(Nat) /\ 0 \in 0 .. MaxNested /\ FALSE \in BOOLEAN
  BY ArgumentsAssumption
<1>2. b \in Evaluation /\ b.list = NULL
  BY <1>1 DEF Begun, Evaluation
<1>3. Body = [b EXCEPT !.item = 1]
  BY DEF Body
<1> HIDE DEF b
<1> QED
  BY <1>2, <1>3 DEF Evaluation

(* Taking note changes the history of activations and nothing else. *)
LEMMA NotedStack ==
  ASSUME TypeOK, NEW m \in Methods \cup {NULL}, NEW l \in Lists \cup {NULL},
         \A d \in 1 .. Depth : stack[d].list = l => stack[d].nested < MaxNested \/ l = NULL
  PROVE  /\ Noted(m, l) \in Seq(Evaluation)
         /\ Len(Noted(m, l)) = Depth
         /\ \A d \in 1 .. Depth :
              /\ Noted(m, l)[d].list = stack[d].list
              /\ Noted(m, l)[d].item = stack[d].item
              /\ Noted(m, l)[d].got = stack[d].got
              /\ Noted(m, l)[d].fn = stack[d].fn
              /\ Noted(m, l)[d].on = stack[d].on
              /\ Noted(m, l)[d].relooked
                   <=> stack[d].relooked \/ (m # NULL /\ stack[d].fn = m)
              /\ Noted(m, l)[d].nested
                   = IF l # NULL /\ stack[d].list = l
                       THEN stack[d].nested + 1 ELSE stack[d].nested
<1>1. stack \in Seq(Evaluation) /\ Depth \in Nat /\ DOMAIN stack = 1 .. Depth
  BY LenProperties DEF TypeOK, Depth
<1>2. \A d \in 1 .. Depth : stack[d] \in Evaluation
  BY <1>1, ElementOfSeq DEF Depth
<1> DEFINE N(d) ==
      [stack[d] EXCEPT
        !.relooked = @ \/ (m # NULL /\ stack[d].fn = m),
        !.nested = IF l # NULL /\ stack[d].list = l THEN @ + 1 ELSE @]
<1>3. Noted(m, l) = [d \in 1 .. Depth |-> N(d)]
  BY <1>1 DEF Noted
<1>4. ASSUME NEW d \in 1 .. Depth
      PROVE  /\ N(d) \in Evaluation
             /\ N(d).list = stack[d].list
             /\ N(d).item = stack[d].item
             /\ N(d).got = stack[d].got
             /\ N(d).fn = stack[d].fn
             /\ N(d).on = stack[d].on
             /\ N(d).relooked <=> stack[d].relooked \/ (m # NULL /\ stack[d].fn = m)
             /\ N(d).nested = IF l # NULL /\ stack[d].list = l
                                THEN stack[d].nested + 1 ELSE stack[d].nested
  <2> DEFINE r == stack[d].relooked \/ (m # NULL /\ stack[d].fn = m)
             n == IF l # NULL /\ stack[d].list = l
                    THEN stack[d].nested + 1 ELSE stack[d].nested
  <2>1. stack[d] \in Evaluation
    BY <1>2
  <2>2. n \in 0 .. MaxNested
    BY <2>1, ArgumentsAssumption DEF Evaluation
  <2>3. r \in BOOLEAN
    OBVIOUS
  <2>4. N(d) = [stack[d] EXCEPT !.relooked = r, !.nested = n]
    OBVIOUS
  <2> HIDE DEF n, r, N
  <2>5. /\ N(d) \in Evaluation
        /\ N(d).list = stack[d].list
        /\ N(d).item = stack[d].item
        /\ N(d).got = stack[d].got
        /\ N(d).fn = stack[d].fn
        /\ N(d).on = stack[d].on
        /\ N(d).relooked = r
        /\ N(d).nested = n
    BY <2>1, <2>2, <2>3, <2>4 DEF Evaluation
  <2> QED
    BY <2>5 DEF n, r
<1> HIDE DEF N
<1>5. Noted(m, l) \in [1 .. Depth -> Evaluation]
  BY <1>3, <1>4
<1>6. Noted(m, l) \in Seq(Evaluation) /\ Len(Noted(m, l)) = Depth
  BY <1>1, <1>5, FunctionIsSeq
<1>7. \A d \in 1 .. Depth : Noted(m, l)[d] = N(d)
  BY <1>3
<1> QED
  BY <1>4, <1>6, <1>7

-----------------------------------------------------------------------------
(* The elements that an evaluation has seen.                               *)

(* The positions of the first n elements. *)
UpTo(n) == [i \in 1 .. n |-> i]

Seen(e) == e.got \o (IF e.item = 0 THEN <<>> ELSE <<e.item>>)

LEMMA NothingSeen ==
  ASSUME NEW e \in Evaluation, e.got = <<>>, e.item = 0
  PROVE  Seen(e) = UpTo(0)
BY DEF Seen, UpTo

(* The element after the first n. *)
LEMMA SeenNext ==
  ASSUME NEW e \in Evaluation, NEW n \in Nat, e.item = 0, Seen(e) = UpTo(n)
  PROVE  Seen([e EXCEPT !.item = n + 1]) = UpTo(n + 1)
<1>1. e.got \in Seq(Nat)
  BY DEF Evaluation
<1>2. e.got = UpTo(n)
  BY <1>1, ConcatEmptySeq DEF Seen
<1>3. Seen([e EXCEPT !.item = n + 1]) = Append(e.got, n + 1)
  BY <1>1, AppendIsConcat DEF Seen, Evaluation
<1>4. Len(e.got) = n
  BY <1>1, <1>2, LenProperties DEF UpTo
<1>5. UpTo(n + 1) \in Seq(Nat) /\ Len(UpTo(n + 1)) = n + 1
  <2>1. UpTo(n + 1) \in [1 .. n + 1 -> Nat]
    BY DEF UpTo
  <2> QED
    BY <2>1, FunctionIsSeq
<1>6. /\ Append(e.got, n + 1) \in Seq(Nat)
      /\ Len(Append(e.got, n + 1)) = n + 1
      /\ \A i \in 1 .. n : Append(e.got, n + 1)[i] = e.got[i]
      /\ Append(e.got, n + 1)[n + 1] = n + 1
  BY <1>1, <1>4, AppendProperties
<1>7. \A i \in 1 .. n + 1 : Append(e.got, n + 1)[i] = UpTo(n + 1)[i]
  BY <1>2, <1>6 DEF UpTo
<1>8. Append(e.got, n + 1) = UpTo(n + 1)
  BY SMTT(40), <1>5, <1>6, <1>7, SeqEqual
<1> QED
  BY <1>3, <1>8

(* The element's value is kept. *)
LEMMA SeenKept ==
  ASSUME NEW e \in Evaluation, e.item # 0
  PROVE  Seen([e EXCEPT !.item = 0, !.got = Append(@, e.item)]) = Seen(e)
<1>1. e.got \in Seq(Nat) /\ e.item \in Nat
  BY DEF Evaluation
<1>2. Append(e.got, e.item) \in Seq(Nat)
  BY <1>1
<1>3. Seen([e EXCEPT !.item = 0, !.got = Append(@, e.item)]) = Append(e.got, e.item) \o <<>>
  BY <1>1 DEF Seen, Evaluation
<1>4. Append(e.got, e.item) \o <<>> = Append(e.got, e.item)
  BY <1>2, ConcatEmptySeq
<1> QED
  BY <1>1, <1>3, <1>4, AppendIsConcat DEF Seen

-----------------------------------------------------------------------------
(* The steps.                                                              *)

(* Steps that end activations, and may call a function: the lists of those *)
(* that end are torn or at rest.                                           *)
LEMMA Ends ==
  ASSUME IInv, NEW n \in 0 .. Depth,
         stack' \in {SubSeq(stack, 1, n), Append(SubSeq(stack, 1, n), Body)},
         cursor' \in [Lists -> Nat], \A l \in Lists : cursor'[l] <= Size[l],
         torn' \subseteq Lists, UNCHANGED instance,
         \A l \in Lists \ torn' :
           \/ /\ l \notin torn /\ cursor'[l] = cursor[l]
              /\ \A d \in n + 1 .. Depth : stack[d].list # l
           \/ /\ \A d \in 1 .. n : stack[d].list = l => stack[d].nested > 0
              /\ cursor'[l] = 0 \/ (l \in Literals /\ cursor'[l] = Size[l])
  PROVE  IInv'
<1> DEFINE s == SubSeq(stack, 1, n)
<1>1. /\ Depth \in Nat
      /\ \A d \in 1 .. Depth : stack[d] \in Evaluation
  BY Activations DEF IInv
<1>2. /\ s \in Seq(Evaluation) /\ Len(s) = n
      /\ \A d \in 1 .. n : s[d] = stack[d]
  <2>1. stack \in Seq(Evaluation) /\ n \in 0 .. Len(stack)
    BY DEF IInv, TypeOK, Depth
  <2> QED
    BY <2>1, Prefix
<1> HIDE DEF s
<1>3. /\ Append(s, Body) \in Seq(Evaluation) /\ Len(Append(s, Body)) = n + 1
      /\ \A d \in 1 .. n : Append(s, Body)[d] = s[d]
      /\ Append(s, Body)[n + 1] = Body
  BY <1>2, BodyType, AppendProperties
<1>4. stack' = s \/ stack' = Append(s, Body)
  BY DEF s
<1>5. /\ stack' \in Seq(Evaluation)
      /\ Depth' \in Nat
      /\ \A d \in 1 .. Depth' :
           (d \in 1 .. n /\ stack'[d] = stack[d]) \/ (d = n + 1 /\ stack'[d].list = NULL)
      /\ \A d \in 1 .. n : d \in 1 .. Depth /\ d \in 1 .. Depth' /\ stack'[d] = stack[d]
  <2>1. CASE stack' = s
    BY <1>1, <1>2, <2>1 DEF Depth
  <2>2. CASE stack' = Append(s, Body)
    BY <1>1, <1>2, <1>3, <2>2, BodyType DEF Depth
  <2> QED
    BY <1>4, <2>1, <2>2
<1>6. TypeOK'
  BY <1>5 DEF IInv, TypeOK
<1>7. NestedCounted'
  BY <1>1, <1>5 DEF IInv, NestedCounted
<1>8. NULL \notin Lists
  BY ArgumentsAssumption
<1>9. ListsAtRest'
  <2> SUFFICES ASSUME NEW l \in Lists \ torn', \A d \in 1 .. Depth' : (stack'[d]).list # l
               PROVE  cursor'[l] = 0 \/ (l \in Literals /\ cursor'[l] = Size[l])
    BY DEF ListsAtRest
  <2>1. CASE /\ l \notin torn /\ cursor'[l] = cursor[l]
             /\ \A d \in n + 1 .. Depth : stack[d].list # l
    <3>1. \A d \in 1 .. n : stack[d].list # l
      BY <1>5
    <3>2. \A d \in 1 .. Depth : stack[d].list # l
      BY <1>1, <2>1, <3>1
    <3> QED
      BY <2>1, <3>2 DEF IInv, ListsAtRest
  <2> QED
    BY <2>1
<1>10. ASSUME NEW d \in 1 .. Depth', stack'[d].list \in Lists, Undisturbed(d)'
       PROVE  /\ d \in 1 .. Depth /\ stack'[d] = stack[d] /\ Undisturbed(d)
              /\ cursor'[stack[d].list] = cursor[stack[d].list]
  <2>1. d \in 1 .. n /\ d \in 1 .. Depth /\ stack'[d] = stack[d]
    BY <1>5, <1>8, <1>10
  <2>2. stack[d].list \in Lists \ torn' /\ ~ (stack[d].nested > 0)
    BY <1>10, <2>1 DEF Undisturbed
  <2>3. stack[d].list \notin torn /\ cursor'[stack[d].list] = cursor[stack[d].list]
    BY <2>1, <2>2
  <2>4. \A e \in 1 .. d - 1 : stack'[e] = stack[e]
    BY <1>5, <2>1
  <2> QED
    BY <1>10, <2>1, <2>3, <2>4 DEF Undisturbed
<1>11. ArgumentsInOrder'
  <2> SUFFICES ASSUME NEW d \in 1 .. Depth', stack'[d].list \in Calls, Undisturbed(d)'
               PROVE  FromFirst(d)'
    BY DEF ArgumentsInOrder
  <2> QED
    BY <1>10 DEF IInv, ArgumentsInOrder, FromFirst, Lists
<1>12. LiteralsAllOrNothing'
  <2> SUFFICES ASSUME NEW d \in 1 .. Depth', stack'[d].list \in Literals, Undisturbed(d)'
               PROVE  \/ FromFirst(d)'
                      \/ /\ stack'[d].got = <<>> /\ stack'[d].item = 0
                         /\ cursor'[stack'[d].list] = Size[stack'[d].list]
    BY DEF LiteralsAllOrNothing
  <2>1. /\ d \in 1 .. Depth /\ stack'[d] = stack[d] /\ Undisturbed(d)
        /\ cursor'[stack[d].list] = cursor[stack[d].list]
    BY <1>10 DEF Lists
  <2>2. FromFirst(d)' <=> FromFirst(d)
    BY <2>1 DEF FromFirst
  <2> QED
    BY <2>1, <2>2 DEF IInv, LiteralsAllOrNothing
<1>13. MethodsKeepInstance'
  BY <1>5 DEF IInv, MethodsKeepInstance
<1> QED
  BY <1>6, <1>7, <1>9, <1>11, <1>12, <1>13 DEF IInv

(* An evaluation of list l begins, of a call of method m on o if m is one. *)
Begin(l, m, o) ==
  /\ MayBegin(l)
  /\ stack' = Append(Noted(m, l), Begun(l, m, o))
  /\ m = NULL => UNCHANGED instance
  /\ m # NULL => o # NULL /\ instance' = Found(m, o)
  /\ UNCHANGED <<cursor, torn>>

LEMMA Begins ==
  ASSUME IInv, NEW l \in Lists, NEW m \in Methods \cup {NULL},
         NEW o \in Objects \cup {NULL}, Begin(l, m, o)
  PROVE  IInv'
<1> DEFINE s == Noted(m, l)
           b == Begun(l, m, o)
<1>1. /\ Depth \in Nat
      /\ \A d \in 1 .. Depth : stack[d] \in Evaluation
      /\ \A k \in Lists : cursor[k] \in Nat
  BY Activations DEF IInv
<1>2. /\ s \in Seq(Evaluation) /\ Len(s) = Depth
      /\ \A d \in 1 .. Depth :
           /\ s[d].list = stack[d].list /\ s[d].item = stack[d].item
           /\ s[d].got = stack[d].got /\ s[d].fn = stack[d].fn /\ s[d].on = stack[d].on
           /\ s[d].nested = IF stack[d].list = l
                              THEN stack[d].nested + 1 ELSE stack[d].nested
  <2>1. l # NULL
    BY ArgumentsAssumption
  <2> QED
    BY <2>1, NotedStack DEF Begin, MayBegin, IInv
<1>r. \A d \in 1 .. Depth :
        s[d].relooked <=> stack[d].relooked \/ (m # NULL /\ stack[d].fn = m)
  <2>1. l # NULL
    BY ArgumentsAssumption
  <2> QED
    BY <2>1, NotedStack DEF Begin, MayBegin, IInv
<1>3. /\ b \in Evaluation /\ b.list = l /\ b.item = 0 /\ b.got = <<>>
      /\ b.fn = m /\ b.on = o
  <2>1. <<>> \in Seq(Nat) /\ 0 \in 0 .. MaxNested /\ FALSE \in BOOLEAN
    BY ArgumentsAssumption
  <2> QED
    BY <2>1 DEF Begun, Evaluation
<1> HIDE DEF s, b
<1>4. /\ stack' \in Seq(Evaluation) /\ Depth' = Depth + 1
      /\ \A d \in 1 .. Depth : stack'[d] = s[d]
      /\ stack'[Depth + 1] = b
  BY <1>2, <1>3, AppendProperties DEF Begin, s, b, Depth
<1>i. /\ m = NULL => UNCHANGED instance
      /\ m # NULL => instance' = Found(m, o)
      /\ UNCHANGED <<cursor, torn>>
  BY DEF Begin
<1>5. TypeOK'
  <2>1. instance' \in [Methods -> Objects \cup {NULL}]
    BY <1>i DEF IInv, TypeOK, Found
  <2> QED
    BY <1>4, <1>i, <2>1 DEF IInv, TypeOK
<1>6. NestedCounted'
  <2> SUFFICES ASSUME NEW d \in 1 .. Depth + 1, NEW e \in 1 .. Depth + 1, d < e,
                      stack'[d].list # NULL, stack'[d].list = stack'[e].list
               PROVE  stack'[d].nested > 0
    BY <1>4 DEF NestedCounted
  <2>1. /\ d \in 1 .. Depth /\ stack'[d] = s[d] /\ stack[d].nested \in Nat
        /\ stack'[d].nested = IF stack[d].list = l
                                THEN stack[d].nested + 1 ELSE stack[d].nested
    <3>1. d \in 1 .. Depth
      BY <1>1
    <3>2. stack[d].nested \in Nat
      BY <1>1, <3>1 DEF Evaluation
    <3> QED
      BY <1>2, <1>4, <3>1, <3>2
  <2>2. CASE e = Depth + 1
    <3>1. stack[d].list = l
      BY <1>2, <1>3, <1>4, <2>1, <2>2
    <3> QED
      BY <2>1, <3>1
  <2>3. CASE e \in 1 .. Depth
    <3>1. stack[d].nested > 0
      BY <1>2, <1>4, <2>1, <2>3 DEF IInv, NestedCounted
    <3> QED
      BY <2>1, <3>1
  <2> QED
    BY <1>1, <2>2, <2>3
<1>7. ListsAtRest'
  <2> SUFFICES ASSUME NEW k \in Lists \ torn, \A d \in 1 .. Depth + 1 : (stack'[d]).list # k
               PROVE  cursor[k] = 0 \/ (k \in Literals /\ cursor[k] = Size[k])
    BY <1>4, <1>i DEF ListsAtRest
  <2>1. \A d \in 1 .. Depth : stack[d].list # k
    BY <1>1, <1>2, <1>4
  <2> QED
    BY <2>1 DEF IInv, ListsAtRest
(* The new evaluation, when it is undisturbed, finds its list at rest. *)
<1>8. ASSUME NEW k, k = Depth + 1, Undisturbed(k)'
      PROVE  cursor[l] = 0 \/ (l \in Literals /\ cursor[l] = Size[l])
  <2>1. l \notin torn
    BY <1>3, <1>4, <1>8, <1>i DEF Undisturbed
  <2>2. \A e \in 1 .. Depth : stack[e].list # l
    BY <1>1, <1>2, <1>3, <1>4, <1>8 DEF Undisturbed
  <2> QED
    BY <2>1, <2>2 DEF IInv, ListsAtRest
<1>9. ASSUME NEW d \in 1 .. Depth, Undisturbed(d)', stack'[d].list \in Lists
      PROVE  /\ Undisturbed(d) /\ stack'[d].list = stack[d].list
             /\ FromFirst(d)' <=> FromFirst(d)
             /\ stack'[d].item = stack[d].item /\ stack'[d].got = stack[d].got
  <2>1. /\ stack'[d].list = stack[d].list /\ stack'[d].item = stack[d].item
        /\ stack'[d].got = stack[d].got
        /\ stack'[d].nested = 0 => stack[d].nested = 0
    <3>1. stack[d].nested \in Nat
      BY <1>1 DEF Evaluation
    <3> QED
      BY SMTT(40), <1>2, <1>4, <3>1
  <2>2. \A e \in 1 .. d - 1 : stack'[e].list = stack[e].list
    BY <1>1, <1>2, <1>4
  <2>3. Undisturbed(d)
    BY <1>9, <1>i, <2>1, <2>2 DEF Undisturbed
  <2> QED
    BY <1>i, <2>1, <2>3 DEF FromFirst
<1>10. ASSUME NEW k, k = Depth + 1, cursor[l] = 0
       PROVE  FromFirst(k)'
  <2>1. Seen(b) = UpTo(0)
    BY <1>3, NothingSeen
  <2>2. stack'[k] = b /\ cursor'[b.list] = 0
    BY <1>3, <1>4, <1>10, <1>i
  <2> QED
    BY <2>1, <2>2 DEF FromFirst, Seen, UpTo
<1>11. ArgumentsInOrder'
  <2> SUFFICES ASSUME NEW d \in 1 .. Depth + 1, stack'[d].list \in Calls, Undisturbed(d)'
               PROVE  FromFirst(d)'
    BY <1>4 DEF ArgumentsInOrder
  <2>1. CASE d \in 1 .. Depth
    <3>1. /\ Undisturbed(d) /\ stack'[d].list = stack[d].list
          /\ FromFirst(d)' <=> FromFirst(d)
      BY <1>9, <2>1 DEF Lists
    <3> QED
      BY <2>1, <3>1 DEF IInv, ArgumentsInOrder
  <2>2. CASE d = Depth + 1
    <3>1. l \in Calls /\ l \notin Literals
      BY <1>3, <1>4, <2>2, ArgumentsAssumption
    <3> QED
      BY <1>8, <1>10, <2>2, <3>1
  <2> QED
    BY <1>1, <2>1, <2>2
<1>12. LiteralsAllOrNothing'
  <2> SUFFICES ASSUME NEW d \in 1 .. Depth + 1, stack'[d].list \in Literals, Undisturbed(d)'
               PROVE  \/ FromFirst(d)'
                      \/ /\ stack'[d].got = <<>> /\ stack'[d].item = 0
                         /\ cursor[stack'[d].list] = Size[stack'[d].list]
    BY <1>4, <1>i DEF LiteralsAllOrNothing
  <2>1. CASE d \in 1 .. Depth
    <3>1. /\ Undisturbed(d) /\ stack'[d].list = stack[d].list
          /\ FromFirst(d)' <=> FromFirst(d)
          /\ stack'[d].item = stack[d].item /\ stack'[d].got = stack[d].got
      BY <1>9, <2>1 DEF Lists
    <3> QED
      BY <2>1, <3>1 DEF IInv, LiteralsAllOrNothing
  <2>2. CASE d = Depth + 1
    BY <1>3, <1>4, <1>8, <1>10, <2>2
  <2> QED
    BY <1>1, <2>1, <2>2
<1>13. MethodsKeepInstance'
  <2> SUFFICES ASSUME NEW d \in 1 .. Depth + 1, stack'[d].list # NULL,
                      stack'[d].fn # NULL, ~ stack'[d].relooked
               PROVE  instance'[stack'[d].fn] = stack'[d].on
    BY <1>4 DEF MethodsKeepInstance
  <2>1. CASE d \in 1 .. Depth
    <3>1. /\ stack'[d].fn = stack[d].fn /\ stack'[d].on = stack[d].on
          /\ stack'[d].list = stack[d].list
      BY <1>2, <1>4, <2>1
    <3>r. ~ stack[d].relooked /\ (m = NULL \/ stack[d].fn # m)
      BY <1>r, <1>4, <2>1
    <3>2. instance[stack[d].fn] = stack[d].on
      BY <2>1, <3>1, <3>r DEF IInv, MethodsKeepInstance
    <3>3. stack[d].fn \in Methods
      BY <1>1, <2>1, <3>1 DEF Evaluation
    <3>4. instance'[stack[d].fn] = instance[stack[d].fn]
      BY <3>r, <3>3, <1>i DEF IInv, TypeOK, Found
    <3> QED
      BY <3>1, <3>2, <3>4
  <2>2. CASE d = Depth + 1
    BY <1>3, <1>4, <1>i, <2>2 DEF IInv, TypeOK, Found
  <2> QED
    BY <1>1, <2>1, <2>2
<1> QED
  BY <1>5, <1>6, <1>7, <1>11, <1>12, <1>13 DEF IInv

(* The evaluation on top goes on: its list's cursor, its item and what it  *)
(* has change, and it sees the elements up to the cursor if it did before. *)
Goes(e) ==
  /\ stack # <<>> /\ Top.list # NULL
  /\ stack' = [stack EXCEPT ![Depth] = e]
  /\ e.list = Top.list /\ e.nested = Top.nested
  /\ e.fn = Top.fn /\ e.on = Top.on /\ (e.relooked <=> Top.relooked)
  /\ \A l \in Lists : cursor'[l] # cursor[l] => l = Top.list /\ Top.item = 0
  /\ Seen(Top) = UpTo(cursor[Top.list]) => Seen(e) = UpTo(cursor'[Top.list])
  /\ ~ (Top.got = <<>> /\ Top.item = 0 /\ cursor[Top.list] = Size[Top.list])
  /\ UNCHANGED <<instance, torn>>

LEMMA GoesOn ==
  ASSUME IInv, NEW e \in Evaluation, Goes(e),
         cursor' \in [Lists -> Nat], \A l \in Lists : cursor'[l] <= Size[l]
  PROVE  IInv'
<1>1. /\ Depth \in Nat
      /\ \A d \in 1 .. Depth : stack[d] \in Evaluation
      /\ stack \in Seq(Evaluation) /\ Depth = Len(stack)
  BY Activations DEF IInv, TypeOK, Depth
<1>2. Depth \in 1 .. Depth
  BY <1>1, EmptySeq DEF Goes
<1>3. /\ stack' \in Seq(Evaluation) /\ Depth' = Depth
      /\ \A d \in 1 .. Depth : d # Depth => stack'[d] = stack[d]
      /\ \A d \in 1 .. Depth : d = Depth => stack'[d] = e /\ stack[d] = Top
  <2>1. stack' = [stack EXCEPT ![Depth] = e]
    BY DEF Goes
  <2> QED
    BY <1>1, <1>2, <2>1, ExceptSeq DEF Depth, Top
<1>4. /\ e.list = Top.list /\ e.nested = Top.nested /\ e.fn = Top.fn /\ e.on = Top.on
      /\ torn' = torn /\ instance' = instance
      /\ \A l \in Lists : cursor'[l] # cursor[l] => l = Top.list
      /\ Top.list \in Lists
  BY <1>1, <1>2 DEF Goes, Evaluation, Top
<1>5. \A d \in 1 .. Depth : /\ stack'[d].list = stack[d].list
                            /\ stack'[d].nested = stack[d].nested
                            /\ stack'[d].fn = stack[d].fn /\ stack'[d].on = stack[d].on
  BY <1>3, <1>4
<1>6. TypeOK'
  BY <1>3, <1>4 DEF IInv, TypeOK
<1>7. NestedCounted'
  BY <1>3, <1>5 DEF IInv, NestedCounted
<1>8. ListsAtRest'
  <2> SUFFICES ASSUME NEW l \in Lists \ torn, \A d \in 1 .. Depth : (stack'[d]).list # l
               PROVE  cursor'[l] = 0 \/ (l \in Literals /\ cursor'[l] = Size[l])
    BY <1>3, <1>4 DEF ListsAtRest
  <2>1. \A d \in 1 .. Depth : stack[d].list # l
    BY <1>5
  <2>2. cursor'[l] = cursor[l]
    BY <1>2, <1>4, <2>1 DEF Top
  <2> QED
    BY <2>1, <2>2 DEF IInv, ListsAtRest
<1>9. ASSUME NEW d \in 1 .. Depth, Undisturbed(d)'
      PROVE  Undisturbed(d)
  <2>1. \A k \in 1 .. d - 1 : stack'[k].list = stack[k].list
    BY <1>1, <1>5
  <2> QED
    BY <1>4, <1>5, <1>9, <2>1 DEF Undisturbed
(* Of the evaluations below, those of the same list are disturbed. *)
<1>10. ASSUME NEW d \in 1 .. Depth, d # Depth, stack'[d].list \in Lists, Undisturbed(d)'
       PROVE  cursor'[stack[d].list] = cursor[stack[d].list]
  <2>1. stack[d].list \in Lists /\ ~ (stack[d].nested > 0) /\ d < Depth
    BY <1>1, <1>5, <1>9, <1>10 DEF Undisturbed
  <2>2. stack[d].list # Top.list
    BY <1>2, <2>1, ArgumentsAssumption DEF IInv, NestedCounted, Top
  <2> QED
    BY <1>4, <2>1, <2>2
<1>11. ASSUME NEW d \in 1 .. Depth, d # Depth, stack'[d].list \in Lists, Undisturbed(d)'
       PROVE  FromFirst(d)' <=> FromFirst(d)
  BY <1>3, <1>10, <1>11 DEF FromFirst
<1>12. ASSUME FromFirst(Depth), NEW d, d = Depth
       PROVE  FromFirst(d)'
  <2>1. Seen(Top) = UpTo(cursor[Top.list])
    BY <1>12 DEF FromFirst, Seen, UpTo, Top
  <2>2. Seen(e) = UpTo(cursor'[e.list])
    BY <2>1, <1>4 DEF Goes
  <2>3. stack'[d] = e
    BY <1>2, <1>3, <1>12
  <2> QED
    BY <2>2, <2>3 DEF FromFirst, Seen, UpTo
<1>13. ArgumentsInOrder'
  <2> SUFFICES ASSUME NEW d \in 1 .. Depth, stack'[d].list \in Calls, Undisturbed(d)'
               PROVE  FromFirst(d)'
    BY <1>3 DEF ArgumentsInOrder
  <2>1. FromFirst(d)
    BY <1>5, <1>9 DEF IInv, ArgumentsInOrder
  <2>2. CASE d = Depth
    BY <1>12, <2>1, <2>2
  <2>3. CASE d # Depth
    BY <1>11, <2>1, <2>3 DEF Lists
  <2> QED
    BY <2>2, <2>3
<1>14. LiteralsAllOrNothing'
  <2> SUFFICES ASSUME NEW d \in 1 .. Depth, stack'[d].list \in Literals, Undisturbed(d)'
               PROVE  \/ FromFirst(d)'
                      \/ /\ stack'[d].got = <<>> /\ stack'[d].item = 0
                         /\ cursor'[stack'[d].list] = Size[stack'[d].list]
    BY <1>3 DEF LiteralsAllOrNothing
  <2>1. \/ FromFirst(d)
        \/ /\ stack[d].got = <<>> /\ stack[d].item = 0
           /\ cursor[stack[d].list] = Size[stack[d].list]
    BY <1>5, <1>9 DEF IInv, LiteralsAllOrNothing
  <2>2. CASE d = Depth
    <3>1. FromFirst(d)
      BY <1>3, <2>1, <2>2 DEF Goes
    <3> QED
      BY <1>12, <2>2, <3>1
  <2>3. CASE d # Depth
    BY <1>3, <1>10, <1>11, <2>1, <2>3 DEF Lists
  <2> QED
    BY <2>2, <2>3
<1>15. MethodsKeepInstance'
  <2> SUFFICES ASSUME NEW d \in 1 .. Depth, stack'[d].list # NULL,
                      stack'[d].fn # NULL, ~ stack'[d].relooked
               PROVE  instance[stack'[d].fn] = stack'[d].on
    BY <1>3, <1>4 DEF MethodsKeepInstance
  <2>1. ~ stack[d].relooked
    BY <1>3 DEF Goes
  <2> QED
    BY <1>5, <2>1 DEF IInv, MethodsKeepInstance
<1> QED
  BY <1>6, <1>7, <1>8, <1>13, <1>14, <1>15 DEF IInv

(* Neither the stack nor the lists change when a method is looked up. *)
LEMMA LooksUp ==
  ASSUME IInv, NEW m \in Methods, NEW o \in Objects, LookUp(m, o)
  PROVE  IInv'
<1>1. /\ Depth \in Nat
      /\ \A d \in 1 .. Depth : stack[d] \in Evaluation
  BY Activations DEF IInv
<1>2. m # NULL
  BY ArgumentsAssumption
<1>3. /\ stack' \in Seq(Evaluation) /\ Depth' = Depth
      /\ \A d \in 1 .. Depth :
           /\ stack'[d].list = stack[d].list /\ stack'[d].item = stack[d].item
           /\ stack'[d].got = stack[d].got /\ stack'[d].fn = stack[d].fn
           /\ stack'[d].on = stack[d].on /\ stack'[d].nested = stack[d].nested
  BY NotedStack DEF LookUp, IInv, Depth
<1>4. \A d \in 1 .. Depth : stack'[d].relooked <=> stack[d].relooked \/ stack[d].fn = m
  BY <1>2, NotedStack DEF LookUp, IInv, Depth
<1>5. UNCHANGED <<cursor, torn>> /\ instance' = Found(m, o)
  BY DEF LookUp
<1>6. TypeOK'
  BY <1>3, <1>5 DEF IInv, TypeOK, Found
<1>7. NestedCounted'
  BY <1>3 DEF IInv, NestedCounted
<1>8. ListsAtRest'
  BY <1>3, <1>5 DEF IInv, ListsAtRest
<1>9. ASSUME NEW d \in 1 .. Depth
      PROVE  (Undisturbed(d)' => Undisturbed(d)) /\ (FromFirst(d)' <=> FromFirst(d))
  <2>1. \A k \in 1 .. d - 1 : stack'[k].list = stack[k].list
    BY <1>1, <1>3
  <2> QED
    BY <1>3, <1>5, <2>1 DEF Undisturbed, FromFirst
<1>10. ArgumentsInOrder'
  BY <1>3, <1>9 DEF IInv, ArgumentsInOrder
<1>11. LiteralsAllOrNothing'
  BY <1>3, <1>5, <1>9 DEF IInv, LiteralsAllOrNothing
<1>12. MethodsKeepInstance'
  <2> SUFFICES ASSUME NEW d \in 1 .. Depth, stack'[d].list # NULL,
                      stack'[d].fn # NULL, ~ stack'[d].relooked
               PROVE  instance'[stack'[d].fn] = stack'[d].on
    BY <1>3 DEF MethodsKeepInstance
  <2>1. ~ stack[d].relooked /\ stack[d].fn # m
    BY <1>4
  <2>2. instance[stack[d].fn] = stack[d].on
    BY <1>3, <2>1 DEF IInv, MethodsKeepInstance
  <2>3. stack[d].fn \in Methods
    BY <1>1, <1>3 DEF Evaluation
  <2> QED
    BY <1>3, <1>5, <2>1, <2>2, <2>3 DEF IInv, TypeOK, Found
<1> QED
  BY <1>6, <1>7, <1>8, <1>10, <1>11, <1>12 DEF IInv

LEMMA InitHolds == Init => IInv
<1> SUFFICES ASSUME Init PROVE IInv
  OBVIOUS
<1>1. stack = <<>> /\ stack \in Seq(Evaluation) /\ Depth = 0
  BY DEF Init, Depth
<1>2. TypeOK
  BY <1>1, ArgumentsAssumption DEF Init, TypeOK
<1>3. NestedCounted /\ ArgumentsInOrder /\ LiteralsAllOrNothing /\ MethodsKeepInstance
  BY <1>1 DEF NestedCounted, ArgumentsInOrder, LiteralsAllOrNothing, MethodsKeepInstance
<1>4. ListsAtRest
  BY DEF Init, ListsAtRest
<1> QED
  BY <1>2, <1>3, <1>4 DEF IInv

LEMMA StepKeeps ==
  ASSUME IInv, [Next]_vars
  PROVE  IInv'
<1>1. /\ Depth \in Nat
      /\ \A d \in 1 .. Depth : stack[d] \in Evaluation
      /\ \A l \in Lists : cursor[l] \in Nat /\ Size[l] \in Nat \ {0}
  BY Activations DEF IInv
<1>2. /\ cursor \in [Lists -> Nat] /\ \A l \in Lists : cursor[l] <= Size[l]
      /\ torn \subseteq Lists
  BY DEF IInv, TypeOK
<1>3. stack # <<>> => Depth \in 1 .. Depth /\ Top \in Evaluation
  BY <1>1, EmptySeq DEF IInv, TypeOK, Depth, Top
<1>4. ASSUME NEW m \in Methods, NEW o \in Objects, LookUp(m, o)
      PROVE  IInv'
  BY <1>4, LooksUp
<1>5. ASSUME NEW l \in Calls, BeginCall(l)
      PROVE  IInv'
  <2>1. CASE stack' = Append(Noted(NULL, l), Begun(l, NULL, NULL)) /\ UNCHANGED instance
    <3>1. Begin(l, NULL, NULL)
      BY <1>5, <2>1 DEF BeginCall, Begin
    <3> QED
      BY <3>1, Begins DEF Lists
  <2>2. CASE \E m \in Methods, o \in Objects :
               /\ stack' = Append(Noted(m, l), Begun(l, m, o))
               /\ instance' = Found(m, o)
    <3>1. PICK m \in Methods, o \in Objects :
            /\ stack' = Append(Noted(m, l), Begun(l, m, o))
            /\ instance' = Found(m, o)
      BY <2>2
    <3>2. Begin(l, m, o)
      BY <1>5, <3>1, ArgumentsAssumption DEF BeginCall, Begin
    <3> QED
      BY <3>2, Begins DEF Lists
  <2> QED
    BY <1>5, <2>1, <2>2 DEF BeginCall
<1>6. ASSUME NEW l \in Literals, BeginLiteral(l)
      PROVE  IInv'
  <2>1. Begin(l, NULL, NULL)
    BY <1>6 DEF BeginLiteral, Begin
  <2> QED
    BY <2>1, Begins DEF Lists
<1>7. CASE PopElement
  <2>1. /\ stack # <<>> /\ Top.list # NULL /\ Top.item = 0
        /\ cursor[Top.list] < Size[Top.list]
        /\ cursor' = [cursor EXCEPT ![Top.list] = @ + 1]
        /\ stack' = [stack EXCEPT ![Depth].item = cursor[Top.list] + 1]
        /\ UNCHANGED <<instance, torn>>
    BY <1>7 DEF PopElement, Between
  <2> DEFINE e == [Top EXCEPT !.item = cursor[Top.list] + 1]
  <2>2. Top \in Evaluation /\ Top.list \in Lists /\ cursor[Top.list] \in Nat
    BY <1>1, <1>3, <2>1 DEF Evaluation
  <2>3. /\ e \in Evaluation /\ e.list = Top.list /\ e.nested = Top.nested
        /\ e.fn = Top.fn /\ e.on = Top.on /\ e.relooked = Top.relooked
    BY SMTT(40), <2>2 DEF Evaluation
  <2>4. Seen(Top) = UpTo(cursor[Top.list]) => Seen(e) = UpTo(cursor[Top.list] + 1)
    BY <2>1, <2>2, SeenNext
  <2>5. stack' = [stack EXCEPT ![Depth] = e]
    BY <2>1 DEF Top
  <2> HIDE DEF e
  <2>6. cursor' \in [Lists -> Nat] /\ \A l \in Lists : cursor'[l] <= Size[l]
    <3>1. cursor' \in [Lists -> Nat]
      BY <1>2, <2>1, <2>2
    <3>2. \A l \in Lists : cursor'[l] = IF l = Top.list THEN cursor[l] + 1 ELSE cursor[l]
      BY <1>2, <2>1
    <3>3. cursor[Top.list] + 1 <= Size[Top.list]
      BY <1>1, <2>1, <2>2
    <3> QED
      BY <1>2, <3>1, <3>2, <3>3
  <2>7. cursor'[Top.list] = cursor[Top.list] + 1
    BY <1>2, <2>1, <2>2
  <2>8. \A l \in Lists : cursor'[l] # cursor[l] => l = Top.list
    BY <1>2, <2>1
  <2>9. cursor[Top.list] # Size[Top.list]
    BY <1>1, <2>1, <2>2
  <2>10. Goes(e)
    BY <2>1, <2>3, <2>4, <2>5, <2>7, <2>8, <2>9 DEF Goes
  <2> QED
    BY <2>3, <2>6, <2>10, GoesOn
<1>8. CASE EndElement
  <2>1. /\ stack # <<>> /\ Top.list # NULL /\ Top.item # 0
        /\ stack' = [stack EXCEPT ![Depth].item = 0, ![Depth].got = Append(@, Top.item)]
        /\ cursor' = cursor
        /\ UNCHANGED <<instance, torn>>
    BY <1>8 DEF EndElement
  <2> DEFINE e == [Top EXCEPT !.item = 0, !.got = Append(@, Top.item)]
  <2>2. Top \in Evaluation /\ Top.got \in Seq(Nat) /\ Top.item \in Nat
    BY <1>3, <2>1 DEF Evaluation
  <2>3. Append(Top.got, Top.item) \in Seq(Nat)
    BY <2>2
  <2>4. /\ e \in Evaluation /\ e.list = Top.list /\ e.nested = Top.nested
        /\ e.fn = Top.fn /\ e.on = Top.on /\ e.relooked = Top.relooked
    BY <2>2, <2>3 DEF Evaluation
  <2>5. Seen(e) = Seen(Top)
    BY <2>1, <2>2, SeenKept
  <2>6. stack' = [stack EXCEPT ![Depth] = e]
    <3>1. Depth \in DOMAIN stack
      BY <1>3, <2>1 DEF IInv, TypeOK, Depth
    <3> QED
      BY <2>1, <3>1 DEF Top
  <2> HIDE DEF e
  <2>7. Goes(e)
    BY <2>1, <2>4, <2>5, <2>6 DEF Goes
  <2> QED
    BY <1>2, <2>1, <2>4, <2>7, GoesOn
(* The evaluations below that are of the list that ends have counted it.   *)
<1>9. ASSUME stack # <<>>
      PROVE  /\ Below = SubSeq(stack, 1, Depth - 1) /\ Depth - 1 \in 0 .. Depth
             /\ \A d \in (Depth - 1) + 1 .. Depth : stack[d] = Top
             /\ \A d \in 1 .. Depth - 1 :
                  stack[d].list = Top.list /\ Top.list # NULL => stack[d].nested > 0
  <2>1. Depth \in 1 .. Depth
    BY <1>3, <1>9
  <2> QED
    BY <1>1, <2>1 DEF Below, Top, IInv, NestedCounted
<1>10. CASE EndLiteral
  <2>1. /\ stack # <<>> /\ Top.list # NULL /\ Top.list \in Literals
        /\ cursor[Top.list] = Size[Top.list]
        /\ stack' = Below /\ UNCHANGED <<cursor, instance, torn>>
    BY <1>10 DEF EndLiteral, AllVisited, Between
  <2>2. \A l \in Lists \ torn' :
          \/ /\ l \notin torn /\ cursor'[l] = cursor[l]
             /\ \A d \in (Depth - 1) + 1 .. Depth : stack[d].list # l
          \/ /\ \A d \in 1 .. Depth - 1 : stack[d].list = l => stack[d].nested > 0
             /\ cursor'[l] = 0 \/ (l \in Literals /\ cursor'[l] = Size[l])
    BY <1>9, <2>1
  <2> QED
    BY <1>2, <1>9, <2>1, <2>2, Ends
<1>11. CASE Invoke
  <2>1. /\ stack # <<>> /\ Top.list # NULL /\ Top.list \in Calls
        /\ cursor' = [cursor EXCEPT ![Top.list] = 0] /\ torn' = torn \ {Top.list}
        /\ stack' \in {Below, Append(Below, Body)} /\ UNCHANGED instance
    BY <1>11 DEF Invoke, AllVisited, Between, Rewound
  <2>2. /\ cursor' \in [Lists -> Nat] /\ \A l \in Lists : cursor'[l] <= Size[l]
        /\ torn' \subseteq Lists
    <3>1. cursor' \in [Lists -> Nat] /\ torn' \subseteq Lists
      BY <1>2, <2>1
    <3>2. \A l \in Lists : cursor'[l] = IF l = Top.list THEN 0 ELSE cursor[l]
      BY <1>2, <2>1
    <3>3. \A l \in Lists : 0 <= Size[l]
      BY <1>1
    <3> QED
      BY <1>2, <3>1, <3>2, <3>3
  <2>3. \A l \in Lists \ torn' :
          \/ /\ l \notin torn /\ cursor'[l] = cursor[l]
             /\ \A d \in (Depth - 1) + 1 .. Depth : stack[d].list # l
          \/ /\ \A d \in 1 .. Depth - 1 : stack[d].list = l => stack[d].nested > 0
             /\ cursor'[l] = 0 \/ (l \in Literals /\ cursor'[l] = Size[l])
    BY <1>2, <1>9, <2>1
  <2> QED
    BY <1>9, <2>1, <2>2, <2>3, Ends
<1>12. CASE Return
  <2>1. /\ stack # <<>> /\ Top.list = NULL
        /\ stack' = Below /\ UNCHANGED <<cursor, instance, torn>>
    BY <1>12, BodyType DEF Return
  <2>2. \A l \in Lists \ torn' :
          /\ l \notin torn /\ cursor'[l] = cursor[l]
          /\ \A d \in (Depth - 1) + 1 .. Depth : stack[d].list # l
    BY <1>9, <2>1, ArgumentsAssumption
  <2> QED
    BY <1>2, <1>9, <2>1, <2>2, Ends
<1>13. ASSUME NEW n \in 0 .. Depth - 1, Throw(n)
       PROVE  IInv'
  <2>1. /\ stack' = SubSeq(stack, 1, n) /\ UNCHANGED <<cursor, instance>>
        /\ torn' = torn \cup ({stack[e].list : e \in n + 1 .. Depth} \ {NULL})
    BY <1>13 DEF Throw
  <2>2. n \in 0 .. Depth /\ \A d \in n + 1 .. Depth : d \in 1 .. Depth
    BY <1>1
  <2>3. \A d \in n + 1 .. Depth : stack[d].list \in Lists \cup {NULL}
    BY <1>1, <2>2 DEF Evaluation
  <2>4. torn' \subseteq Lists
    BY <1>2, <2>1, <2>3
  <2>5. \A l \in Lists \ torn' :
          /\ l \notin torn /\ cursor'[l] = cursor[l]
          /\ \A d \in n + 1 .. Depth : stack[d].list # l
    BY <2>1, ArgumentsAssumption
  <2> QED
    BY <1>2, <2>1, <2>2, <2>4, <2>5, Ends
<1>14. CASE UNCHANGED vars
  BY <1>14, ZenonT(40) DEF vars, IInv, TypeOK, NestedCounted, ListsAtRest, ArgumentsInOrder,
       LiteralsAllOrNothing, MethodsKeepInstance, Undisturbed, FromFirst, Depth
<1> QED
  BY <1>4, <1>5, <1>6, <1>7, <1>8, <1>10, <1>11, <1>12, <1>13, <1>14 DEF Next

-----------------------------------------------------------------------------
(* The theorems.                                                           *)

(* The inductive invariant holds of every reachable state. *)
THEOREM Invariant == Spec => []IInv
BY InitHolds, StepKeeps, PTL DEF Spec

(* No cursor passes the end of its list, whatever re-enters it. *)
THEOREM TypeCorrect == Spec => []TypeOK
<1>1. IInv => TypeOK
  BY DEF IInv
<1> QED
  BY <1>1, Invariant, PTL

(* A call evaluates its arguments once each, in order and from the first,  *)
(* unless the same list is evaluated meanwhile or a throw has torn it.     *)
THEOREM CallsInOrder == Spec => []ArgumentsInOrder
<1>1. IInv => ArgumentsInOrder
  BY DEF IInv
<1> QED
  BY <1>1, Invariant, PTL

(* An array literal has all of its elements in order or, evaluated again,  *)
(* none.                                                                   *)
THEOREM LiteralsComplete == Spec => []LiteralsAllOrNothing
<1>1. IInv => LiteralsAllOrNothing
  BY DEF IInv
<1> QED
  BY <1>1, Invariant, PTL

(* A method is called on the object it was looked up on, unless it is      *)
(* looked up again before.                                                 *)
THEOREM MethodsOnObjects == Spec => []MethodsKeepInstance
<1>1. IInv => MethodsKeepInstance
  BY DEF IInv
<1> QED
  BY <1>1, Invariant, PTL
=============================================================================
