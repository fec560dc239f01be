---------------------------- MODULE ScopesProofs ----------------------------
(***************************************************************************)
(* Theorems about scope objects (Scopes.tla), for every program, any       *)
(* number of closures and any depth of calls.                              *)
(***************************************************************************)
EXTENDS Scopes, DataLemmas, TLAPS, SequenceTheorems

FunctionObject == [node : Nodes, scope : ScopeIds \cup {None}]

TypeOK ==
  /\ scopes \in [ScopeIds -> ScopeObject]
  /\ functions \subseteq FunctionObject
  /\ stack \in Seq(Activation)
  /\ Len(stack) <= MaxDepth

(* A call has a variable in its own scope. *)
Owns(ss, c) == ss[c.scope].props[Variable[c.node]] # Unbound

(* Parameters against what else may be stored in their scopes: calls that  *)
(* were given the same scope later, and variables of the same name, which  *)
(* calls store in their own scopes unless the parameter is disclaimed.     *)
ParamsKept(ss, calls) ==
  /\ \A d \in 1 .. Len(calls) :
       calls[d].node \in HasParam /\ ~ calls[d].shared /\ ~ calls[d].overwritten
         => /\ ss[calls[d].scope].props[Param[calls[d].node]] = d
            /\ Param[calls[d].node] # Variable[calls[d].node]
  /\ \A d, e \in 1 .. Len(calls) :
       d < e /\ calls[d].scope = calls[e].scope => calls[d].shared
  /\ \A d, e \in 1 .. Len(calls) :
       d < e /\ Param[calls[d].node] = Variable[calls[e].node]
         => calls[d].overwritten \/ Owns(ss, calls[e])

(* The inductive invariant. *)
IInv ==
  /\ TypeOK
  /\ InnerDeclared
  /\ ParamsKept(scopes, stack)

-----------------------------------------------------------------------------
(* Scope objects.                                                          *)

SameButProps(ss, tt) ==
  /\ tt \in [ScopeIds -> ScopeObject]
  /\ \A s \in ScopeIds : tt[s].declared = ss[s].declared

LEMMA NewScopeType == NewScope \in ScopeObject
<1>1. Unbound \in Stored
  BY ScopesAssumption DEF Unbound, Stored
<1> QED
  BY <1>1 DEF NewScope, ScopeObject

LEMMA VariableNames ==
  /\ \A n \in Nodes : Variable[n] \in Names
  /\ \A n \in HasParam : n \in Nodes /\ Param[n] \in Names
BY DEF Names, HasParam

WalkStep(g, ss, s, having, k) ==
  IF k = 0 THEN s
  ELSE LET p == g[k - 1]
       IN  IF p \in having \/ p = None THEN p ELSE ss[p].parent

WalkFunction(ss, s, having) ==
  LET At[k \in 0 .. Cardinality(ScopeIds)] == WalkStep(At, ss, s, having, k)
  IN  At

LEMMA ReachedIsWalk ==
  ASSUME NEW ss, NEW s, NEW having
  PROVE  Reached(ss, s, having) = WalkFunction(ss, s, having)[Cardinality(ScopeIds)]
BY DEF Reached, WalkFunction, WalkStep

LEMMA WalkRecursion ==
  ASSUME NEW ss \in [ScopeIds -> ScopeObject], NEW s \in ScopeIds, NEW having,
         Cardinality(ScopeIds) \in Nat
  PROVE  \A k \in 0 .. Cardinality(ScopeIds) :
           WalkFunction(ss, s, having)[k] = WalkStep(WalkFunction(ss, s, having), ss, s, having, k)
<1> DEFINE S == 0 .. Cardinality(ScopeIds)
           T == ScopeIds \cup {None}
           rank == [k \in S |-> k]
           step == [y \in S \X [S -> T] |-> WalkStep(y[2], ss, s, having, y[1])]
           f == WalkFunction(ss, s, having)
<1>1. ASSUME NEW k \in S, k # 0 PROVE k - 1 \in S /\ k - 1 < k
  BY <1>1
<1>2. rank \in [S -> Nat] /\ \A k \in S : rank[k] = k
  OBVIOUS
<1> HIDE DEF S, rank
<1>3. ASSUME NEW k \in S, NEW g \in [S -> T] PROVE WalkStep(g, ss, s, having, k) \in T
  <2>1. CASE k = 0
    BY <2>1 DEF WalkStep
  <2>2. CASE k # 0
    <3>1. g[k - 1] \in T
      BY <1>1, <2>2
    <3>2. g[k - 1] # None => ss[g[k - 1]].parent \in T
      BY <3>1 DEF ScopeObject
    <3> QED
      BY <2>2, <3>1, <3>2 DEF WalkStep
  <2> QED
    BY <2>1, <2>2
<1>4. step \in [S \X [S -> T] -> T]
      /\ \A k \in S, g \in [S -> T] : step[<<k, g>>] = WalkStep(g, ss, s, having, k)
  BY <1>3
<1>5. T # {}
  OBVIOUS
<1> HIDE DEF step, T
<1>6. LooksBelow(S, T, rank, step)
  <2> SUFFICES ASSUME NEW k \in S, NEW g \in [S -> T], NEW h \in [S -> T],
                      \A y \in S : rank[y] < rank[k] => g[y] = h[y]
               PROVE  step[<<k, g>>] = step[<<k, h>>]
    BY DEF LooksBelow
  <2>1. k # 0 => g[k - 1] = h[k - 1]
    BY <1>1, <1>2
  <2> QED
    BY <1>4, <2>1 DEF WalkStep
<1>7. IsRecursion(S, T, rank, step)
  BY <1>2, <1>4, <1>5, <1>6 DEF IsRecursion
<1>8. PICK g \in [S -> T] : \A k \in S : g[k] = step[<<k, g>>]
  BY <1>7, Recursion
<1>9. g = [k \in S |-> WalkStep(g, ss, s, having, k)]
  BY <1>4, <1>8
<1>10. f = [k \in S |-> WalkStep(f, ss, s, having, k)]
  <2>1. WalkFunction(ss, s, having) = CHOOSE h : h = [k \in S |-> WalkStep(h, ss, s, having, k)]
    BY DEF WalkFunction, S
  <2> QED
    BY <1>9, <2>1
<1> HIDE DEF f
<1>11. \A k \in S : f[k] = WalkStep(f, ss, s, having, k)
  BY <1>10
<1> QED
  BY <1>11 DEF S, f

(* What SetRec does. *)
Stores(ss, tt, w, x, v) ==
  /\ tt \in [ScopeIds -> ScopeObject]
  /\ \A s \in ScopeIds :
       /\ tt[s].parent = ss[s].parent /\ tt[s].declared = ss[s].declared
       /\ \A y \in Names : tt[s].props[y] = IF s = w /\ y = x THEN v ELSE ss[s].props[y]

LEMMA StoreIn ==
  ASSUME NEW ss \in [ScopeIds -> ScopeObject], NEW w \in ScopeIds, NEW x \in Names, NEW v \in Stored
  PROVE  Stores(ss, [ss EXCEPT ![w].props[x] = v], w, x, v)
<1> DEFINE l == [ss[w].props EXCEPT ![x] = v]
           new == [ss[w] EXCEPT !.props = l]
           tt == [ss EXCEPT ![w] = new]
<1>1. ss[w] \in ScopeObject /\ ss[w].props \in [Names -> Stored]
  BY DEF ScopeObject
<1>2. l \in [Names -> Stored] /\ \A y \in Names : l[y] = IF y = x THEN v ELSE ss[w].props[y]
  BY <1>1
<1>3. [ss EXCEPT ![w].props[x] = v] = tt
  OBVIOUS
<1> HIDE DEF l
<1>4. new \in ScopeObject /\ new.parent = ss[w].parent /\ new.declared = ss[w].declared /\ new.props = l
  BY <1>1, <1>2 DEF ScopeObject
<1> HIDE DEF new
<1>5. tt \in [ScopeIds -> ScopeObject] /\ \A s \in ScopeIds : tt[s] = IF s = w THEN new ELSE ss[s]
  BY <1>4
<1> HIDE DEF tt
<1>6. Stores(ss, tt, w, x, v)
  <2> SUFFICES ASSUME NEW s \in ScopeIds
               PROVE  /\ tt[s].parent = ss[s].parent /\ tt[s].declared = ss[s].declared
                      /\ \A y \in Names :
                           tt[s].props[y] = IF s = w /\ y = x THEN v ELSE ss[s].props[y]
    BY <1>5 DEF Stores
  <2>1. CASE s = w
    BY <1>2, <1>4, <1>5, <2>1
  <2>2. CASE s # w
    BY <1>5, <2>2
  <2> QED
    BY <2>1, <2>2
<1> QED
  BY <1>3, <1>6

(* A lookup from a scope that has the name stops there. *)
LEMMA OwnReached ==
  ASSUME NEW ss \in [ScopeIds -> ScopeObject], NEW s \in ScopeIds, NEW having, s \in having
  PROVE  Reached(ss, s, having) = s
<1> DEFINE C == Cardinality(ScopeIds)
           f == WalkFunction(ss, s, having)
           Bad == {k \in 0 .. C : f[k] # s}
<1>1. C \in Nat
  BY ScopesAssumption, FS_CardinalityType
<1>2. \A k \in 0 .. C : f[k] = WalkStep(f, ss, s, having, k)
  BY <1>1, WalkRecursion
<1>3. Reached(ss, s, having) = f[C]
  BY ReachedIsWalk
<1> HIDE DEF f, C
<1>4. ASSUME Bad # {} PROVE FALSE
  <2>1. Bad \in SUBSET Nat
    BY <1>1
  <2>2. PICK k \in Bad : \A j \in Bad : k <= j
    <3> HIDE DEF Bad
    <3> QED
      BY <1>4, <2>1, Least
  <2>3. k # 0 /\ k \in 0 .. C
    BY <1>2, <2>2 DEF WalkStep
  <2>4. k - 1 \in 0 .. C /\ k - 1 \notin Bad
    BY <1>1, <2>2, <2>3
  <2>5. f[k - 1] = s
    BY <2>4
  <2>6. f[k] = s
    BY <1>2, <2>3, <2>5 DEF WalkStep
  <2> QED
    BY <2>2, <2>6
<1>5. f[C] = s
  BY <1>1, <1>4
<1> QED
  BY <1>3, <1>5

(* fh_set_rec stores in one scope, that where the search begins if it has  *)
(* the name.                                                               *)
LEMMA SetRecStores ==
  ASSUME NEW ss \in [ScopeIds -> ScopeObject], NEW s \in ScopeIds, NEW x \in Names, NEW v \in Stored
  PROVE  \E w : /\ Stores(ss, SetRec(ss, s, x, v), w, x, v)
                /\ ss[s].props[x] # Unbound => w = s
<1> DEFINE found == Reached(ss, s, Having(ss, x))
           w == IF found = None THEN s ELSE found
<1>1. SetRec(ss, s, x, v) = [ss EXCEPT ![w].props[x] = v]
  BY DEF SetRec
<1>2. ss[s].props[x] # Unbound => w = s
  <2> SUFFICES ASSUME ss[s].props[x] # Unbound PROVE w = s
    OBVIOUS
  <2>1. s \in Having(ss, x)
    BY DEF Having
  <2>2. found = s
    <3> DEFINE having == Having(ss, x)
    <3>1. s \in having
      BY <2>1
    <3> HIDE DEF having
    <3>2. Reached(ss, s, having) = s
      BY <3>1, OwnReached
    <3> QED
      BY <3>2 DEF having
  <2> QED
    BY <2>2
<1> HIDE DEF w
<1>3. Stores(ss, SetRec(ss, s, x, v), w, x, v)
  <2>1. CASE w \in ScopeIds
    <3>1. Stores(ss, [ss EXCEPT ![w].props[x] = v], w, x, v)
      BY <2>1, StoreIn
    <3> QED
      BY <1>1, <3>1
  <2>2. CASE w \notin ScopeIds
    <3>1. SetRec(ss, s, x, v) = ss
      BY <1>1, <2>2
    <3> QED
      BY <2>2, <3>1 DEF Stores
  <2> QED
    BY <2>1, <2>2
<1> QED
  BY <1>2, <1>3

(* What var_dec_scan does: it stores in that name only, in the scope        *)
(* itself unless the search begins there and does not find it; then, or    *)
(* else before, the scope has the name.                                    *)
Scans(ss, tt, s, n) ==
  /\ tt \in [ScopeIds -> ScopeObject]
  /\ \A t \in ScopeIds :
       /\ tt[t].declared = ss[t].declared
       /\ \A y \in Names :
            /\ tt[t].props[y] # ss[t].props[y] => y = Variable[n] /\ (t = s \/ Outside(ss, s, n))
            /\ ss[t].props[y] # Unbound => tt[t].props[y] # Unbound
  /\ ~ Outside(ss, s, n) => tt[s].props[Variable[n]] # Unbound

LEMMA StoresScan ==
  ASSUME NEW ss \in [ScopeIds -> ScopeObject], NEW s \in ScopeIds, NEW n \in Nodes,
         NEW tt, NEW w, NEW v, v # Unbound, Stores(ss, tt, w, Variable[n], v),
         ~ Outside(ss, s, n) => w = s
  PROVE  Scans(ss, tt, s, n)
<1>1. Variable[n] \in Names
  BY VariableNames
<1> QED
  BY <1>1 DEF Scans, Stores

LEMMA VarScanScans ==
  ASSUME NEW ss \in [ScopeIds -> ScopeObject], NEW s \in ScopeIds, NEW n \in Nodes,
         Depth \in Nat, Depth < MaxDepth
  PROVE  Scans(ss, VarScan(ss, s, n), s, n)
<1> DEFINE tt == VarScan(ss, s, n)
           x == Variable[n]
<1>1. x \in Names
  BY VariableNames
<1>2. Other \in Stored /\ Depth + 1 \in Stored /\ Other # Unbound /\ Depth + 1 # Unbound
  BY ScopesAssumption DEF Other, Stored, Unbound
<1>3. CASE n \notin hoisted
  <2>1. tt = [ss EXCEPT ![s].props[x] = Other]
    BY <1>3 DEF VarScan
  <2>2. Stores(ss, [ss EXCEPT ![s].props[x] = Other], s, x, Other)
    <3> HIDE DEF x
    <3> QED
      BY <1>1, <1>2, StoreIn
  <2> HIDE DEF tt
  <2>3. Stores(ss, tt, s, x, Other)
    BY <2>1, <2>2
  <2>4. Scans(ss, tt, s, n)
    BY <1>2, <2>3, StoresScan
  <2> QED
    BY <2>4 DEF tt
<1>4. CASE n \in hoisted /\ n \in Initialised
  <2>1. tt = SetRec(ss, s, x, Depth + 1)
    BY <1>4 DEF VarScan
  <2> HIDE DEF tt
  <2>2. PICK w : /\ Stores(ss, SetRec(ss, s, x, Depth + 1), w, x, Depth + 1)
                 /\ ss[s].props[x] # Unbound => w = s
    <3> HIDE DEF x
    <3> QED
      BY <1>1, <1>2, SetRecStores
  <2>3. Stores(ss, tt, w, x, Depth + 1)
    BY <2>1, <2>2
  <2>4. ~ Outside(ss, s, n) => w = s
    BY <1>4, <2>2 DEF Outside
  <2>5. Scans(ss, tt, s, n)
    BY <1>2, <2>3, <2>4, StoresScan
  <2> QED
    BY <2>5 DEF tt
<1>5. CASE n \in hoisted /\ n \notin Initialised
  <2>1. VarScan(ss, s, n) = ss
    BY <1>5 DEF VarScan
  <2>2. ~ Outside(ss, s, n) => ss[s].props[Variable[n]] # Unbound
    BY <1>5 DEF Outside
  <2> QED
    BY <2>1, <2>2 DEF Scans
<1> QED
  BY <1>3, <1>4, <1>5

(* setup_call_env changes the parent and a parameter of one scope. *)
LEMMA CallEnvScopes ==
  ASSUME TypeOK, NEW f \in FunctionObject, NEW s \in ScopeIds,
         Depth \in Nat, Depth < MaxDepth, Ctx \in ScopeIds
  PROVE  /\ CallEnv(f, s) \in [ScopeIds -> ScopeObject]
         /\ \A t \in ScopeIds \ {s} : CallEnv(f, s)[t] = scopes[t]
         /\ CallEnv(f, s)[s].parent = Ctx /\ CallEnv(f, s)[s].declared = scopes[s].declared
         /\ CallEnv(f, s)[s].props = WithParam(scopes[s].props, f.node)
<1>1. scopes \in [ScopeIds -> ScopeObject] /\ f.node \in Nodes /\ scopes[s] \in ScopeObject
  BY DEF TypeOK, FunctionObject
<1>2. Depth + 1 \in Stored
  BY ScopesAssumption DEF Stored
<1> DEFINE p == WithParam(scopes[s].props, f.node)
           new == [scopes[s] EXCEPT !.parent = Ctx, !.props = p]
<1>3. p \in [Names -> Stored]
  BY <1>1, <1>2, VariableNames DEF ScopeObject, WithParam
<1>4. CallEnv(f, s) = [scopes EXCEPT ![s] = new]
  BY <1>1 DEF CallEnv
<1> HIDE DEF p
<1>5. new \in ScopeObject /\ new.props = p /\ new.declared = scopes[s].declared /\ new.parent = Ctx
  BY <1>1, <1>3 DEF ScopeObject
<1> HIDE DEF new
<1> QED
  BY <1>1, <1>4, <1>5 DEF p

(* What WithParam sets and keeps. *)
LEMMA ParamSet ==
  ASSUME NEW p \in [Names -> Stored], NEW n \in Nodes, Depth \in Nat
  PROVE  /\ \A x \in Names : WithParam(p, n)[x] = Unbound => p[x] = Unbound
         /\ \A x \in Names : p[x] # Unbound => WithParam(p, n)[x] # Unbound
         /\ n \in HasParam => WithParam(p, n)[Param[n]] = Depth + 1
<1>1. Depth + 1 # Unbound
  BY DEF Unbound
<1> QED
  BY <1>1, VariableNames DEF WithParam
-----------------------------------------------------------------------------
(* The calls.                                                              *)

LEMMA Calls ==
  ASSUME TypeOK
  PROVE  /\ Depth \in Nat /\ Depth <= MaxDepth
         /\ \A d \in 1 .. Depth : stack[d] \in Activation
         /\ stack # <<>> => Depth \in 1 .. Depth /\ Top \in Activation
         /\ Ctx \in ScopeIds
<1>1. stack \in Seq(Activation) /\ Depth \in Nat /\ Depth <= MaxDepth
  BY LenProperties DEF TypeOK, Depth
<1>2. \A d \in 1 .. Depth : stack[d] \in Activation
  BY <1>1, ElementOfSeq DEF Depth
<1>3. stack # <<>> => Depth \in 1 .. Depth
  BY <1>1, EmptySeq DEF Depth
<1>4. Ctx \in ScopeIds
  BY <1>2, <1>3, ScopesAssumption DEF Ctx, Top, Activation
<1> QED
  BY <1>1, <1>2, <1>3, <1>4 DEF Top

(* The scope of a new call becomes a shared one of the calls that use it;  *)
(* if it stores outside they disclaim what has the name of its variable.   *)
LEMMA DisturbedStack ==
  ASSUME TypeOK, NEW ss, NEW s, NEW n
  PROVE  /\ Disturbed(ss, s, n) \in Seq(Activation)
         /\ Len(Disturbed(ss, s, n)) = Depth
         /\ \A d \in 1 .. Depth :
              /\ Disturbed(ss, s, n)[d].node = stack[d].node
              /\ Disturbed(ss, s, n)[d].scope = stack[d].scope
              /\ Disturbed(ss, s, n)[d].shared <=> stack[d].shared \/ stack[d].scope = s
              /\ Disturbed(ss, s, n)[d].stored =>
                   stack[d].stored /\ ~ (Outside(ss, s, n) /\ Variable[stack[d].node] = Variable[n])
              /\ Disturbed(ss, s, n)[d].overwritten <=>
                   stack[d].overwritten \/ (Outside(ss, s, n) /\ Param[stack[d].node] = Variable[n])
<1>1. /\ Depth \in Nat /\ DOMAIN stack = 1 .. Depth
      /\ \A d \in 1 .. Depth : stack[d] \in Activation
  BY Calls, LenProperties DEF TypeOK, Depth
<1> DEFINE sh(d) == stack[d].shared \/ stack[d].scope = s
           st(d) == stack[d].stored /\ ~ (Outside(ss, s, n) /\ Variable[stack[d].node] = Variable[n])
           ov(d) == stack[d].overwritten \/ (Outside(ss, s, n) /\ Param[stack[d].node] = Variable[n])
           D(d) == [stack[d] EXCEPT !.shared = sh(d), !.stored = st(d), !.overwritten = ov(d)]
<1>2. Disturbed(ss, s, n) = [d \in 1 .. Depth |-> D(d)]
  BY <1>1 DEF Disturbed
<1>3. ASSUME NEW d \in 1 .. Depth PROVE sh(d) \in BOOLEAN /\ st(d) \in BOOLEAN /\ ov(d) \in BOOLEAN
  OBVIOUS
<1> HIDE DEF sh, st, ov
<1>4. ASSUME NEW d \in 1 .. Depth
      PROVE  /\ D(d) \in Activation /\ D(d).node = stack[d].node /\ D(d).scope = stack[d].scope
             /\ D(d).shared = sh(d) /\ D(d).stored = st(d) /\ D(d).overwritten = ov(d)
  <2>1. stack[d] \in Activation
    BY <1>1
  <2> QED
    BY <1>3, <2>1 DEF Activation
<1> HIDE DEF D
<1>5. Disturbed(ss, s, n) \in [1 .. Depth -> Activation]
  BY <1>2, <1>4
<1>6. Disturbed(ss, s, n) \in Seq(Activation) /\ Len(Disturbed(ss, s, n)) = Depth
  BY <1>1, <1>5, FunctionIsSeq
<1>7. \A d \in 1 .. Depth : Disturbed(ss, s, n)[d] = D(d)
  BY <1>2
<1> QED
  BY <1>4, <1>6, <1>7 DEF sh, st, ov

(* Two stacks of calls of the same functions, in the same scopes. *)
SameCalls(calls, more, d) ==
  \A j \in 1 .. d : more[j].scope = calls[j].scope /\ more[j].node = calls[j].node

Assigns(n) == n \in hoisted /\ n \in Initialised

NewActivation(f, s) ==
  [node |-> f.node, scope |-> s, shared |-> FALSE, stored |-> Assigns(f.node),
   overwritten |-> Param[f.node] = Variable[f.node]]

NewCalls(f, s) == Append(Disturbed(CallEnv(f, s), s, f.node), NewActivation(f, s))

LEMMA NewCallsAre ==
  ASSUME TypeOK, NEW f \in FunctionObject, NEW s \in ScopeIds
  PROVE  /\ NewCalls(f, s) \in Seq(Activation)
         /\ Len(NewCalls(f, s)) = Depth + 1
         /\ SameCalls(stack, NewCalls(f, s), Depth)
         /\ \A d \in 1 .. Depth : NewCalls(f, s)[d] = Disturbed(CallEnv(f, s), s, f.node)[d]
         /\ NewCalls(f, s)[Depth + 1].node = f.node
         /\ NewCalls(f, s)[Depth + 1].scope = s
         /\ NewCalls(f, s)[Depth + 1].stored = Assigns(f.node)
         /\ NewCalls(f, s)[Depth + 1].overwritten <=> Param[f.node] = Variable[f.node]
<1> DEFINE D == Disturbed(CallEnv(f, s), s, f.node)
           a == NewActivation(f, s)
           same == Param[f.node] = Variable[f.node]
<1>1. Assigns(f.node) \in BOOLEAN /\ same \in BOOLEAN
  BY DEF Assigns
<1>2. NewActivation(f, s) = [node |-> f.node, scope |-> s, shared |-> FALSE, stored |-> Assigns(f.node),
                             overwritten |-> same]
  BY DEF NewActivation
<1> HIDE DEF same
<1>3. /\ a \in Activation /\ a.node = f.node /\ a.scope = s /\ a.stored = Assigns(f.node)
      /\ a.overwritten = same
  BY <1>1, <1>2 DEF Activation, FunctionObject
<1>4. /\ D \in Seq(Activation) /\ Len(D) = Depth
      /\ \A d \in 1 .. Depth : D[d].node = stack[d].node /\ D[d].scope = stack[d].scope
  BY DisturbedStack
<1> HIDE DEF D, a
<1>5. /\ Append(D, a) \in Seq(Activation) /\ Len(Append(D, a)) = Depth + 1
      /\ \A d \in 1 .. Depth : Append(D, a)[d] = D[d]
      /\ Append(D, a)[Depth + 1] = a
  BY <1>3, <1>4, AppendProperties
<1>6. NewCalls(f, s) = Append(D, a)
  BY DEF NewCalls, D, a
<1>7. NewCalls(f, s)[Depth + 1].overwritten <=> Param[f.node] = Variable[f.node]
  <2>1. NewCalls(f, s)[Depth + 1].overwritten = same
    BY <1>3, <1>5, <1>6
  <2> QED
    BY <2>1 DEF same
<1>8. \A d \in 1 .. Depth : NewCalls(f, s)[d] = Disturbed(CallEnv(f, s), s, f.node)[d]
  BY <1>5, <1>6 DEF D
<1> QED
  BY <1>3, <1>4, <1>5, <1>6, <1>7, <1>8 DEF SameCalls

(* The scope of a call, before the scan for its variable. *)
Declares(tt, f, s) ==
  /\ tt \in [ScopeIds -> ScopeObject]
  /\ \A t \in ScopeIds :
       /\ tt[t].props = IF t = s THEN WithParam(scopes[s].props, f.node) ELSE scopes[t].props
       /\ tt[t].parent = IF t = s THEN Ctx ELSE scopes[t].parent
       /\ scopes[t].declared \subseteq tt[t].declared

Declared(f, s) ==
  IF Scanned(f.node) THEN [CallEnv(f, s) EXCEPT ![s].declared = @ \cup {Inner[f.node]}]
  ELSE CallEnv(f, s)

LEMMA EnvDeclares ==
  ASSUME TypeOK, NEW f \in FunctionObject, NEW s \in ScopeIds, Depth < MaxDepth
  PROVE  /\ Declares(CallEnv(f, s), f, s) /\ Declares(Declared(f, s), f, s)
         /\ Scanned(f.node) => Inner[f.node] \in Declared(f, s)[s].declared
<1>1. /\ Depth \in Nat /\ Ctx \in ScopeIds /\ scopes \in [ScopeIds -> ScopeObject]
      /\ f.node \in Nodes
  BY Calls DEF TypeOK, FunctionObject
<1> DEFINE env == CallEnv(f, s)
<1>2. /\ env \in [ScopeIds -> ScopeObject]
      /\ \A t \in ScopeIds \ {s} : env[t] = scopes[t]
      /\ env[s].parent = Ctx /\ env[s].declared = scopes[s].declared
      /\ env[s].props = WithParam(scopes[s].props, f.node)
  BY <1>1, CallEnvScopes
<1>3. Declared(f, s) = IF Scanned(f.node) THEN [env EXCEPT ![s].declared = @ \cup {Inner[f.node]}] ELSE env
  BY DEF Declared
<1> HIDE DEF env
<1>4. Declares(env, f, s)
  BY <1>2 DEF Declares
<1>5. Declares(Declared(f, s), f, s) /\ (Scanned(f.node) => Inner[f.node] \in Declared(f, s)[s].declared)
  <2>1. CASE Scanned(f.node)
    <3> DEFINE o == [env[s] EXCEPT !.declared = @ \cup {Inner[f.node]}]
    <3>1. Inner[f.node] \in Nodes
      BY <1>1, <2>1, ScopesAssumption DEF Scanned
    <3>2. /\ o \in ScopeObject /\ o.parent = env[s].parent /\ o.props = env[s].props
          /\ o.declared = env[s].declared \cup {Inner[f.node]}
      BY <1>2, <3>1 DEF ScopeObject
    <3>3. Declared(f, s) = [env EXCEPT ![s] = o]
      BY <1>3, <2>1
    <3> HIDE DEF o
    <3> QED
      BY <1>2, <1>4, <3>2, <3>3 DEF Declares
  <2>2. CASE ~ Scanned(f.node)
    BY <1>3, <1>4, <2>2
  <2> QED
    BY <2>1, <2>2
<1> QED
  BY <1>4, <1>5 DEF env

(* What the call finds in its scope before the scan. *)
LEMMA SameOutside ==
  ASSUME TypeOK, NEW f \in FunctionObject, NEW s \in ScopeIds, Depth < MaxDepth,
         NEW tt, Declares(tt, f, s)
  PROVE  Outside(tt, s, f.node) <=> Outside(CallEnv(f, s), s, f.node)
<1>1. Declares(CallEnv(f, s), f, s)
  BY EnvDeclares
<1>2. tt[s].props = CallEnv(f, s)[s].props
  BY <1>1 DEF Declares
<1> QED
  BY <1>2 DEF Outside

-----------------------------------------------------------------------------
(* Parameters.                                                             *)

(* The innermost call sets its variable. *)
LEMMA StoreParams ==
  ASSUME NEW ss \in [ScopeIds -> ScopeObject], NEW calls \in Seq(Activation),
         NEW n, n = Len(calls), n # 0, ParamsKept(ss, calls),
         NEW tt, NEW w, NEW v, v # Unbound, Stores(ss, tt, w, Variable[calls[n].node], v),
         Owns(ss, calls[n]) => w = calls[n].scope
  PROVE  ParamsKept(tt, calls)
<1> DEFINE x == Variable[calls[n].node]
<1>1. /\ n \in Nat /\ n \in 1 .. n
      /\ \A d \in 1 .. n : /\ calls[d] \in Activation
                           /\ calls[d].scope \in ScopeIds /\ Variable[calls[d].node] \in Names
  <2>1. n \in Nat /\ n \in 1 .. n
    BY LenProperties
  <2>2. \A d \in 1 .. n : calls[d] \in Activation
    BY <2>1, ElementOfSeq
  <2> QED
    BY <2>1, <2>2, VariableNames DEF Activation
<1>2. ASSUME NEW d \in 1 .. n, calls[d].node \in HasParam, ~ calls[d].shared, ~ calls[d].overwritten
      PROVE  /\ tt[calls[d].scope].props[Param[calls[d].node]] = d
             /\ Param[calls[d].node] # Variable[calls[d].node]
  <2> DEFINE y == Param[calls[d].node]
  <2>1. y \in Names /\ ss[calls[d].scope].props[y] = d /\ y # Variable[calls[d].node]
    BY <1>2, VariableNames DEF ParamsKept
  <2>2. CASE y = x /\ calls[d].scope = w
    <3>1. d # n /\ d < n
      BY <1>1, <2>1, <2>2
    <3>2. Owns(ss, calls[n])
      BY <1>1, <1>2, <2>2, <3>1 DEF ParamsKept
    <3>3. calls[d].scope = calls[n].scope
      BY <2>2, <3>2
    <3>4. calls[d].shared
      BY <1>1, <3>1, <3>3 DEF ParamsKept
    <3> QED
      BY <1>2, <3>4
  <2>3. CASE ~ (y = x /\ calls[d].scope = w)
    BY <1>1, <2>1, <2>3 DEF Stores
  <2> QED
    BY <2>1, <2>2, <2>3
<1>3. ASSUME NEW e \in 1 .. n, Owns(ss, calls[e]) PROVE Owns(tt, calls[e])
  BY <1>1, <1>3 DEF Owns, Stores
<1> QED
  BY <1>2, <1>3 DEF ParamsKept

(* A call sets the parameter of the new call's scope and its variable, in  *)
(* its own scope or outside.                                               *)
LEMMA CallParams ==
  ASSUME TypeOK, ParamsKept(scopes, stack),
         NEW f \in FunctionObject, NEW s \in ScopeIds, Depth < MaxDepth,
         NEW tt, Declares(tt, f, s), NEW uu, Scans(tt, uu, s, f.node)
  PROVE  ParamsKept(uu, NewCalls(f, s))
<1> DEFINE n == f.node
           calls == NewCalls(f, s)
           m == Depth + 1
           Out == Outside(tt, s, n)
<1>1. /\ Depth \in Nat /\ Len(stack) = Depth /\ n \in Nodes /\ Variable[n] \in Names
      /\ scopes \in [ScopeIds -> ScopeObject]
      /\ \A d \in 1 .. Depth : /\ stack[d] \in Activation
                               /\ stack[d].scope \in ScopeIds /\ Variable[stack[d].node] \in Names
  <2>1. Depth \in Nat /\ \A d \in 1 .. Depth : stack[d] \in Activation
    BY Calls
  <2> QED
    BY <2>1, VariableNames DEF TypeOK, FunctionObject, Activation, Depth
<1>2. /\ Len(calls) = m /\ calls[m].node = n /\ calls[m].scope = s
      /\ calls[m].overwritten <=> Param[n] = Variable[n]
  BY NewCallsAre
<1>3. \A d \in 1 .. Depth :
        /\ calls[d].node = stack[d].node /\ calls[d].scope = stack[d].scope
        /\ calls[d].shared <=> stack[d].shared \/ stack[d].scope = s
        /\ calls[d].overwritten <=> stack[d].overwritten \/ (Out /\ Param[stack[d].node] = Variable[n])
  <2>1. Out <=> Outside(CallEnv(f, s), s, n)
    BY SameOutside
  <2>2. \A d \in 1 .. Depth : calls[d] = Disturbed(CallEnv(f, s), s, n)[d]
    BY NewCallsAre
  <2>3. \A d \in 1 .. Depth :
        /\ Disturbed(CallEnv(f, s), s, n)[d].node = stack[d].node
        /\ Disturbed(CallEnv(f, s), s, n)[d].scope = stack[d].scope
        /\ Disturbed(CallEnv(f, s), s, n)[d].shared <=> stack[d].shared \/ stack[d].scope = s
        /\ Disturbed(CallEnv(f, s), s, n)[d].overwritten <=>
             stack[d].overwritten \/ (Outside(CallEnv(f, s), s, n) /\ Param[stack[d].node] = Variable[n])
    BY DisturbedStack
  <2> HIDE DEF calls, Out, n
  <2> QED
    BY <2>1, <2>2, <2>3
<1>4. /\ \A x \in Names : scopes[s].props[x] # Unbound => tt[s].props[x] # Unbound
      /\ n \in HasParam => tt[s].props[Param[n]] = m
      /\ \A t \in ScopeIds \ {s} : tt[t].props = scopes[t].props
  <2> DEFINE p == scopes[s].props
  <2>1. p \in [Names -> Stored]
    BY <1>1 DEF ScopeObject
  <2>2. tt[s].props = WithParam(p, n) /\ \A t \in ScopeIds \ {s} : tt[t].props = scopes[t].props
    BY DEF Declares
  <2> HIDE DEF p
  <2>3. /\ \A x \in Names : p[x] # Unbound => WithParam(p, n)[x] # Unbound
        /\ n \in HasParam => WithParam(p, n)[Param[n]] = Depth + 1
    BY <1>1, <2>1, ParamSet
  <2> QED
    BY <2>2, <2>3 DEF p
<1>5. /\ \A t \in ScopeIds : \A y \in Names :
           /\ uu[t].props[y] # tt[t].props[y] => y = Variable[n] /\ (t = s \/ Out)
           /\ tt[t].props[y] # Unbound => uu[t].props[y] # Unbound
      /\ ~ Out => uu[s].props[Variable[n]] # Unbound
  BY DEF Scans
<1> HIDE DEF calls, n, Out
<1>6. ASSUME NEW d \in 1 .. m, calls[d].node \in HasParam, ~ calls[d].shared, ~ calls[d].overwritten
      PROVE  /\ uu[calls[d].scope].props[Param[calls[d].node]] = d
             /\ Param[calls[d].node] # Variable[calls[d].node]
  <2> DEFINE y == Param[calls[d].node]
  <2>1. y \in Names
    BY <1>6, VariableNames
  <2>2. CASE d = m
    <3>1. y = Param[n] /\ y # Variable[n] /\ calls[d].scope = s /\ calls[d].node = n /\ n \in HasParam
      BY <1>2, <1>6, <2>2
    <3> QED
      BY <1>4, <1>5, <2>1, <2>2, <3>1
  <2>3. CASE d # m
    <3>1. d \in 1 .. Depth
      BY <1>1, <2>3
    <3>2. /\ ~ stack[d].shared /\ stack[d].scope \in ScopeIds \ {s} /\ ~ stack[d].overwritten
          /\ ~ (Out /\ y = Variable[n]) /\ stack[d].node = calls[d].node /\ stack[d].scope = calls[d].scope
      BY <1>1, <1>3, <1>6, <3>1
    <3>3. scopes[stack[d].scope].props[y] = d /\ y # Variable[stack[d].node]
      BY <1>1, <1>6, <3>1, <3>2 DEF ParamsKept
    <3>4. tt[stack[d].scope].props[y] = d
      BY <1>4, <3>2, <3>3
    <3>5. uu[stack[d].scope].props[y] = d
      BY <1>5, <2>1, <3>2, <3>4
    <3> QED
      BY <3>2, <3>3, <3>5
  <2> QED
    BY <2>2, <2>3
<1>7. ASSUME NEW d \in 1 .. m, NEW e \in 1 .. m, d < e
      PROVE  d \in 1 .. Depth /\ (e = m \/ e \in 1 .. Depth)
  BY <1>1, <1>7
<1>8. ASSUME NEW d \in 1 .. m, NEW e \in 1 .. m, d < e, calls[d].scope = calls[e].scope
      PROVE  calls[d].shared
  <2>1. CASE e = m
    BY <1>2, <1>3, <1>7, <1>8, <2>1
  <2>2. CASE e \in 1 .. Depth
    <3>1. stack[d].shared
      BY <1>1, <1>3, <1>7, <1>8, <2>2 DEF ParamsKept
    <3> QED
      BY <1>3, <1>7, <1>8, <3>1
  <2> QED
    BY <1>7, <1>8, <2>1, <2>2
<1>9. ASSUME NEW d \in 1 .. m, NEW e \in 1 .. m, d < e, Param[calls[d].node] = Variable[calls[e].node]
      PROVE  calls[d].overwritten \/ Owns(uu, calls[e])
  <2>1. CASE e = m
    <3>1. CASE Out
      BY <1>2, <1>3, <1>7, <1>9, <2>1, <3>1
    <3>2. CASE ~ Out
      BY <1>2, <1>5, <2>1, <3>2 DEF Owns
    <3> QED
      BY <3>1, <3>2
  <2>2. CASE e \in 1 .. Depth
    <3>1. stack[d].overwritten \/ Owns(scopes, stack[e])
      BY <1>1, <1>3, <1>7, <1>9, <2>2 DEF ParamsKept
    <3>2. ASSUME Owns(scopes, stack[e]) PROVE Owns(uu, calls[e])
      <4>1. /\ stack[e].scope \in ScopeIds /\ Variable[stack[e].node] \in Names
            /\ scopes[stack[e].scope].props[Variable[stack[e].node]] # Unbound
        BY <1>1, <2>2, <3>2 DEF Owns
      <4>2. tt[stack[e].scope].props[Variable[stack[e].node]] # Unbound
        BY <1>4, <4>1
      <4> QED
        BY <1>3, <1>5, <2>2, <4>1, <4>2 DEF Owns
    <3>3. stack[d].overwritten => calls[d].overwritten
      BY <1>3, <1>7, <1>9
    <3> QED
      BY <3>1, <3>2, <3>3
  <2> QED
    BY <1>7, <1>9, <2>1, <2>2
<1>10. ParamsKept(uu, calls)
  <2> HIDE DEF m
  <2> QED
    BY <1>2, <1>6, <1>8, <1>9 DEF ParamsKept
<1> QED
  BY <1>10 DEF calls

-----------------------------------------------------------------------------
(* The steps.                                                              *)

LEMMA InitHolds == Init => IInv
<1> SUFFICES ASSUME Init PROVE IInv
  OBVIOUS
<1>1. stack = <<>> /\ Depth = 0 /\ Len(stack) = 0
  BY DEF Init, Depth
<1>2. [NewScope EXCEPT !.declared = Main] \in ScopeObject
  BY NewScopeType, ScopesAssumption DEF ScopeObject
<1>3. scopes \in [ScopeIds -> ScopeObject]
  BY <1>2, NewScopeType DEF Init
<1>4. functions \subseteq FunctionObject
  BY ScopesAssumption DEF Init, NewFunction, FunctionObject
<1>5. TypeOK
  BY <1>1, <1>3, <1>4, ScopesAssumption DEF TypeOK
<1>6. ParamsKept(scopes, stack)
  BY <1>1 DEF ParamsKept
<1> QED
  BY <1>1, <1>5, <1>6 DEF IInv, InnerDeclared

(* Nothing but properties and the histories of stores changes. *)
LEMMA PropsChange ==
  ASSUME IInv, stack' \in Seq(Activation), Depth' = Depth, functions' \subseteq FunctionObject,
         \A d \in 1 .. Depth : /\ stack'[d].node = stack[d].node
                               /\ stack'[d].scope = stack[d].scope
                               /\ stack'[d].shared <=> stack[d].shared
                               /\ stack'[d].overwritten <=> stack[d].overwritten,
         SameButProps(scopes, scopes'), ParamsKept(scopes', stack)
  PROVE  IInv'
<1>1. \A d \in 1 .. Depth : stack[d].scope \in ScopeIds
  BY Calls DEF IInv, Activation
<1>2. TypeOK'
  BY DEF IInv, TypeOK, SameButProps, Depth
<1>3. \A d \in 1 .. Depth :
        scopes'[stack'[d].scope].declared = scopes[stack[d].scope].declared
  BY <1>1 DEF SameButProps
<1>4. ParamsKept(scopes', stack')
  BY DEF ParamsKept, Owns, Depth
<1>5. InnerDeclared'
  BY <1>3 DEF IInv, InnerDeclared
<1> QED
  BY <1>2, <1>4, <1>5 DEF IInv

LEMMA NothingChanges ==
  ASSUME IInv, UNCHANGED <<scopes, functions, stack>>
  PROVE  IInv'
BY DEF IInv, TypeOK, InnerDeclared, Depth

(* The function is declared in the new call's scope since the call has     *)
(* rewound the list.                                                       *)
LEMMA CallKeeps ==
  ASSUME IInv, NEW f \in functions, NEW s \in ScopesFor(f), Call(f, s)
  PROVE  IInv'
<1> DEFINE n == f.node
           env == CallEnv(f, s)
           tt == Declared(f, s)
           uu == VarScan(tt, s, n)
           calls == NewCalls(f, s)
           hangs == Assigns(n) /\ ~ Ends(env, s, Having(env, Variable[n]))
<1>1. /\ TypeOK /\ f \in FunctionObject /\ n \in Nodes
      /\ functions \subseteq FunctionObject
      /\ scopes \in [ScopeIds -> ScopeObject]
  BY DEF IInv, TypeOK, FunctionObject
<1>2. s \in ScopeIds
  BY <1>1 DEF ScopesFor, FunctionObject
<1>3. /\ Depth \in Nat /\ Depth < MaxDepth /\ Depth + 1 <= MaxDepth
      /\ \A d \in 1 .. Depth : stack[d] \in Activation
  BY <1>1, Calls, ScopesAssumption DEF Call
<1>4. CASE hangs
  <2>1. UNCHANGED <<scopes, functions, stack>>
    BY <1>4 DEF Call, Hang, Assigns
  <2> QED
    BY <2>1, NothingChanges
<1>5. CASE ~ hangs
  <2>1. /\ scopes' = uu /\ stack' = calls
        /\ functions' = IF Scanned(n) THEN functions \cup {NewFunction(Inner[n])} ELSE functions
    BY <1>5 DEF Call, Assigns, Declared, NewCalls, NewActivation
  <2>2. /\ Declares(tt, f, s)
        /\ Scanned(n) => Inner[n] \in tt[s].declared
    BY <1>1, <1>2, <1>3, EnvDeclares
  <2>3. Scanned(n) => Inner[n] \in Nodes
    BY <1>1, ScopesAssumption DEF Scanned
  <2>4. n \in HasParam /\ Inner[n] # NoNode => Scanned(n)
    BY DEF Scanned, Rewound
  <2> HIDE DEF tt
  <2>5. Scans(tt, uu, s, n)
    <3>1. tt \in [ScopeIds -> ScopeObject]
      BY <2>2 DEF Declares
    <3> QED
      BY <1>1, <1>2, <1>3, <3>1, VarScanScans
  <2> HIDE DEF uu
  <2>6. ParamsKept(uu, calls)
    BY <1>1, <1>2, <1>3, <2>2, <2>5, CallParams DEF IInv
  <2>7. /\ calls \in Seq(Activation) /\ Len(calls) = Depth + 1
        /\ SameCalls(stack, calls, Depth)
        /\ calls[Depth + 1].node = n /\ calls[Depth + 1].scope = s
    BY <1>1, <1>2, NewCallsAre
  <2>8. /\ uu \in [ScopeIds -> ScopeObject]
        /\ \A t \in ScopeIds : scopes[t].declared \subseteq uu[t].declared
        /\ Scanned(n) => Inner[n] \in uu[s].declared
    BY <1>2, <2>2, <2>5 DEF Scans, Declares
  <2> HIDE DEF n, calls
  <2>9. TypeOK'
    <3>1. functions' \subseteq FunctionObject
      BY <1>1, <2>1, <2>3 DEF NewFunction, FunctionObject
    <3> QED
      BY <1>3, <2>1, <2>7, <2>8, <3>1 DEF TypeOK
  <2>10. InnerDeclared'
    <3> SUFFICES ASSUME NEW d \in 1 .. Depth + 1, calls[d].node \in HasParam,
                        Inner[calls[d].node] # NoNode
                 PROVE  Inner[calls[d].node] \in uu[calls[d].scope].declared
      BY <2>1, <2>7 DEF InnerDeclared, Depth
    <3>1. CASE d \in 1 .. Depth
      <4>1. calls[d].node = stack[d].node /\ calls[d].scope = stack[d].scope
        BY <2>7, <3>1 DEF SameCalls
      <4>2. Inner[stack[d].node] \in scopes[stack[d].scope].declared
        BY <3>1, <4>1 DEF IInv, InnerDeclared
      <4>3. stack[d].scope \in ScopeIds
        BY <1>3, <3>1 DEF Activation
      <4> QED
        BY <2>8, <4>1, <4>2, <4>3
    <3>2. CASE d = Depth + 1
      BY <2>4, <2>7, <2>8, <3>2
    <3> QED
      BY <1>3, <3>1, <3>2
  <2> QED
    BY <2>1, <2>6, <2>9, <2>10 DEF IInv
<1> QED
  BY <1>4, <1>5

(* The scopes of the calls that stay are held, and their values are older  *)
(* than the call that ends.                                                *)
Older(v) == IF v = Depth THEN Other ELSE v

Aged(s) == [scopes[s] EXCEPT !.props = [x \in Names |-> Older(@[x])]]

LEMMA AgedScope ==
  ASSUME TypeOK, NEW s \in ScopeIds
  PROVE  /\ Aged(s) \in ScopeObject
         /\ Aged(s).declared = scopes[s].declared /\ Aged(s).parent = scopes[s].parent
         /\ \A x \in Names : Aged(s).props[x] = Older(scopes[s].props[x])
<1> DEFINE q == [x \in Names |-> Older(scopes[s].props[x])]
<1>1. scopes[s] \in ScopeObject
  BY DEF TypeOK
<1>2. Other \in Stored
  BY ScopesAssumption DEF Other, Stored
<1>3. q \in [Names -> Stored] /\ \A x \in Names : q[x] = Older(scopes[s].props[x])
  BY <1>1, <1>2 DEF ScopeObject, Older
<1>4. Aged(s) = [scopes[s] EXCEPT !.props = q]
  BY <1>1 DEF Aged, ScopeObject
<1> HIDE DEF q
<1> QED
  BY <1>1, <1>3, <1>4 DEF ScopeObject

LEMMA PoppedCalls ==
  ASSUME TypeOK, NEW fs, Pop(fs)
  PROVE  /\ Depth \in Nat /\ Depth \in 1 .. Depth /\ Depth <= MaxDepth
         /\ functions' = fs /\ scopes' \in [ScopeIds -> ScopeObject]
         /\ stack' \in Seq(Activation) /\ Len(stack') = Depth - 1
         /\ Global \in ScopeIds /\ scopes'[Global] = Aged(Global)
         /\ \A d \in 1 .. Depth - 1 : /\ stack'[d] = stack[d] /\ d \in 1 .. Depth /\ d # Depth
                                      /\ stack[d] \in Activation /\ stack[d].scope \in ScopeIds
                                      /\ scopes'[stack[d].scope] = Aged(stack[d].scope)
<1> DEFINE calls == SubSeq(stack, 1, Depth - 1)
           held == Held(scopes, fs, calls)
<1>1. /\ functions' = fs /\ stack' = calls
      /\ scopes' = [s \in DOMAIN scopes |-> IF s \in held THEN Aged(s) ELSE NewScope]
      /\ stack # <<>>
  BY DEF Pop, Aged, Older
<1>2. /\ Depth \in Nat /\ Depth <= MaxDepth /\ Depth \in 1 .. Depth
      /\ \A d \in 1 .. Depth : stack[d] \in Activation
  BY <1>1, Calls
<1>3. scopes \in [ScopeIds -> ScopeObject] /\ stack \in Seq(Activation)
  BY DEF TypeOK
<1>4. /\ calls \in Seq(Activation) /\ Len(calls) = Depth - 1
      /\ \A d \in 1 .. Depth - 1 : calls[d] = stack[d]
      /\ DOMAIN calls = 1 .. Depth - 1
  <2>1. Depth - 1 \in 0 .. Len(stack)
    BY <1>2 DEF Depth
  <2>2. /\ calls \in Seq(Activation) /\ Len(calls) = Depth - 1
        /\ \A d \in 1 .. Depth - 1 : calls[d] = stack[d]
    BY <1>3, <2>1, Prefix
  <2> QED
    BY <2>2, LenProperties
<1>5. ASSUME NEW d \in 1 .. Depth - 1
      PROVE  /\ d \in 1 .. Depth /\ d # Depth
             /\ stack[d] \in Activation /\ stack[d].scope \in ScopeIds /\ stack[d].scope \in held
  <2>1. d \in 1 .. Depth /\ d # Depth
    BY <1>2
  <2>2. stack[d] \in Activation /\ stack[d].scope \in ScopeIds
    BY <1>2, <2>1 DEF Activation
  <2>3. stack[d].scope \in {calls[e].scope : e \in DOMAIN calls}
    BY <1>4, <1>5
  <2> QED
    BY <1>3, <2>1, <2>2, <2>3 DEF Held
<1>6. Global \in held /\ Global \in ScopeIds
  BY <1>3, ScopesAssumption DEF Held
<1> HIDE DEF calls, held
<1>7. \A s \in ScopeIds : Aged(s) \in ScopeObject
  BY AgedScope
<1>8. scopes' \in [ScopeIds -> ScopeObject] /\ \A s \in ScopeIds : s \in held => scopes'[s] = Aged(s)
  BY <1>1, <1>3, <1>7, NewScopeType
<1> QED
  BY <1>1, <1>2, <1>4, <1>5, <1>6, <1>8

LEMMA PopKeeps ==
  ASSUME IInv, NEW fs \in SUBSET FunctionObject, Pop(fs)
  PROVE  IInv'
<1>1. TypeOK
  BY DEF IInv
<1>2. /\ Depth \in Nat /\ Depth \in 1 .. Depth /\ Depth <= MaxDepth
      /\ functions' = fs /\ scopes' \in [ScopeIds -> ScopeObject]
      /\ stack' \in Seq(Activation) /\ Len(stack') = Depth - 1
      /\ \A d \in 1 .. Depth - 1 : /\ stack'[d] = stack[d] /\ d \in 1 .. Depth /\ d # Depth
                                   /\ stack[d] \in Activation /\ stack[d].scope \in ScopeIds
                                   /\ scopes'[stack[d].scope] = Aged(stack[d].scope)
  BY <1>1, PoppedCalls
<1>3. TypeOK'
  <2>1. Depth - 1 <= MaxDepth
    BY <1>2, ScopesAssumption
  <2> QED
    BY <1>2, <2>1 DEF TypeOK
<1>4. ASSUME NEW d \in 1 .. Depth - 1
      PROVE  /\ scopes'[stack[d].scope].declared = scopes[stack[d].scope].declared
             /\ \A x \in Names : scopes'[stack[d].scope].props[x] = Older(scopes[stack[d].scope].props[x])
             /\ Variable[stack[d].node] \in Names
             /\ Owns(scopes, stack[d]) => Owns(scopes', stack[d])
  <2>1. stack[d].node \in Nodes /\ stack[d].scope \in ScopeIds /\ Variable[stack[d].node] \in Names
    BY <1>2, VariableNames DEF Activation
  <2>2. /\ scopes'[stack[d].scope].declared = scopes[stack[d].scope].declared
        /\ \A x \in Names : scopes'[stack[d].scope].props[x] = Older(scopes[stack[d].scope].props[x])
    BY <1>1, <1>2, <2>1, AgedScope
  <2>3. \A v : v # Unbound => Older(v) # Unbound
    BY DEF Older, Other, Unbound
  <2> QED
    BY <2>1, <2>2, <2>3 DEF Owns
<1>5. ParamsKept(scopes', stack')
  <2>1. ASSUME NEW d \in 1 .. Depth - 1, stack[d].node \in HasParam,
               ~ stack[d].shared, ~ stack[d].overwritten
        PROVE  /\ scopes'[stack[d].scope].props[Param[stack[d].node]] = d
               /\ Param[stack[d].node] # Variable[stack[d].node]
    <3>1. /\ scopes[stack[d].scope].props[Param[stack[d].node]] = d
          /\ Param[stack[d].node] # Variable[stack[d].node]
      BY <1>2, <2>1 DEF IInv, ParamsKept, Depth
    <3>2. Param[stack[d].node] \in Names
      BY <2>1, VariableNames
    <3> QED
      BY <1>2, <1>4, <3>1, <3>2 DEF Older
  <2>2. \A d, e \in 1 .. Depth - 1 :
          d < e /\ stack[d].scope = stack[e].scope => stack[d].shared
    BY <1>2 DEF IInv, ParamsKept, Depth
  <2>3. \A d, e \in 1 .. Depth - 1 :
          d < e /\ Param[stack[d].node] = Variable[stack[e].node]
            => stack[d].overwritten \/ Owns(scopes, stack[e])
    BY <1>2 DEF IInv, ParamsKept, Depth
  <2> QED
    BY <1>2, <1>4, <2>1, <2>2, <2>3 DEF ParamsKept
<1>6. InnerDeclared'
  <2> SUFFICES ASSUME NEW d \in 1 .. Depth - 1, stack[d].node \in HasParam,
                      Inner[stack[d].node] # NoNode
               PROVE  Inner[stack[d].node] \in scopes'[stack[d].scope].declared
    BY <1>2 DEF InnerDeclared, Depth
  <2>1. Inner[stack[d].node] \in scopes[stack[d].scope].declared
    BY <1>2 DEF IInv, InnerDeclared
  <2> QED
    BY <1>4, <2>1
<1> QED
  BY <1>3, <1>5, <1>6 DEF IInv

LEMMA AssignKeeps ==
  ASSUME IInv, Assign
  PROVE  IInv'
<1>1. /\ scopes \in [ScopeIds -> ScopeObject] /\ functions \subseteq FunctionObject
      /\ stack \in Seq(Activation)
      /\ Depth \in 1 .. Depth /\ Depth \in Nat /\ Depth <= MaxDepth /\ Top \in Activation
      /\ Top = stack[Depth] /\ Ctx = Top.scope
      /\ \A d \in 1 .. Depth : stack[d] \in Activation
  BY Calls DEF Assign, IInv, TypeOK, Ctx, Top
<1>2. CASE Ends(scopes, Ctx, Having(scopes, Variable[Top.node]))
  <2>1. /\ scopes' = SetRec(scopes, Ctx, Variable[Top.node], Depth)
        /\ stack' = [stack EXCEPT ![Depth].stored = TRUE]
        /\ functions' = functions
    BY <1>2 DEF Assign
  <2> DEFINE e == [Top EXCEPT !.stored = TRUE]
             x == Variable[Top.node]
  <2>2. /\ e \in Activation /\ e.node = Top.node /\ e.scope = Top.scope
        /\ e.shared = Top.shared /\ e.overwritten = Top.overwritten
    BY <1>1 DEF Activation
  <2>3. stack' = [stack EXCEPT ![Depth] = e]
    BY <2>1 DEF Top
  <2> HIDE DEF e
  <2>4. /\ stack' \in Seq(Activation) /\ Depth' = Depth
        /\ \A d \in 1 .. Depth : stack'[d] = IF d = Depth THEN e ELSE stack[d]
    BY <1>1, <2>2, <2>3, ExceptSeq DEF Depth
  <2>5. \A d \in 1 .. Depth : /\ stack'[d].node = stack[d].node
                              /\ stack'[d].scope = stack[d].scope
                              /\ stack'[d].shared = stack[d].shared
                              /\ stack'[d].overwritten = stack[d].overwritten
    BY <1>1, <2>2, <2>4
  <2>6. Depth \in Stored /\ Depth # Unbound /\ Depth # 0 /\ x \in Names /\ Ctx \in ScopeIds
    BY <1>1, VariableNames, ScopesAssumption DEF Stored, Activation, Unbound
  <2> HIDE DEF x
  <2>7. PICK w : /\ Stores(scopes, SetRec(scopes, Ctx, x, Depth), w, x, Depth)
                 /\ scopes[Ctx].props[x] # Unbound => w = Ctx
    <3> DEFINE c == Ctx
               v == Depth
               ss == scopes
    <3>1. c \in ScopeIds /\ v \in Stored /\ x \in Names /\ ss \in [ScopeIds -> ScopeObject]
      BY <1>1, <2>6
    <3> HIDE DEF c, v, ss
    <3>2. \E w : /\ Stores(ss, SetRec(ss, c, x, v), w, x, v)
                 /\ ss[c].props[x] # Unbound => w = c
      BY <3>1, SetRecStores
    <3> QED
      BY <3>2 DEF c, v, ss
  <2> DEFINE tt == scopes'
  <2>8. /\ Stores(scopes, tt, w, Variable[stack[Depth].node], Depth)
        /\ Owns(scopes, stack[Depth]) => w = stack[Depth].scope
    BY <1>1, <2>1, <2>7 DEF x, Owns
  <2> HIDE DEF tt
  <2>9. ParamsKept(tt, stack)
    <3>1. ParamsKept(scopes, stack) /\ Depth = Len(stack)
      BY DEF IInv, Depth
    <3> QED
      BY <1>1, <2>6, <2>8, <3>1, StoreParams
  <2>10. SameButProps(scopes, tt)
    BY <2>8 DEF Stores, SameButProps
  <2> QED
    BY <1>1, <2>1, <2>4, <2>5, <2>9, <2>10, PropsChange DEF tt
<1>3. CASE ~ Ends(scopes, Ctx, Having(scopes, Variable[Top.node]))
  <2>1. UNCHANGED <<scopes, functions, stack>>
    BY <1>3 DEF Assign, Hang
  <2> QED
    BY <2>1, NothingChanges
<1> QED
  BY <1>2, <1>3

LEMMA StepKeeps ==
  ASSUME IInv, [Next]_vars
  PROVE  IInv'
<1>1. ASSUME NEW f \in functions, NEW s \in ScopesFor(f), Call(f, s)
      PROVE  IInv'
  BY <1>1, CallKeeps
<1>2. CASE Assign
  BY <1>2, AssignKeeps
<1>3. functions \subseteq FunctionObject /\ Ctx \in ScopeIds
  BY Calls DEF IInv, TypeOK
<1>4. CASE Return
  BY <1>3, <1>4, PopKeeps DEF Return
<1>5. ASSUME NEW f \in functions, ReturnFunction(f)
      PROVE  IInv'
  <2> DEFINE fs == (functions \ {f}) \cup {[f EXCEPT !.scope = Ctx]}
  <2>1. fs \in SUBSET FunctionObject
    BY <1>3 DEF FunctionObject
  <2> QED
    BY <1>5, <2>1, PopKeeps DEF ReturnFunction
<1>6. CASE PassInner \/ LookupHangs \/ UNCHANGED vars
  <2>1. UNCHANGED <<scopes, functions, stack>>
    BY <1>6 DEF PassInner, LookupHangs, Hang, vars
  <2> QED
    BY <2>1, NothingChanges
<1> QED
  BY <1>1, <1>2, <1>4, <1>5, <1>6 DEF Next

-----------------------------------------------------------------------------
(* Lookups.                                                                *)

(* A lookup from the scope of an open call follows the calls outwards,     *)
(* from the call number d to number 0, the global object, and to NULL.     *)
Link(calls, d) == IF d = -1 THEN None ELSE IF d = 0 THEN Global ELSE calls[d].scope

Chain(ss, calls) ==
  /\ ss \in [ScopeIds -> ScopeObject]
  /\ calls \in Seq(Activation)
  /\ \A d \in 0 .. Len(calls) : ss[Link(calls, d)].parent = Link(calls, d - 1)
  /\ \A d, e \in 0 .. Len(calls) : Link(calls, d) = Link(calls, e) => d = e

(* It stops at the first of them that has the name, e. *)
Stops(calls, having, d, e) ==
  /\ e \in -1 .. d
  /\ e # -1 => Link(calls, e) \in having
  /\ \A j \in 0 .. d : j > e => Link(calls, j) \notin having

LEMMA Links ==
  ASSUME NEW calls \in Seq(Activation)
  PROVE  /\ Len(calls) \in Nat
         /\ \A d \in 0 .. Len(calls) : Link(calls, d) \in ScopeIds /\ Link(calls, d) # None
         /\ \A d \in 1 .. Len(calls) : Link(calls, d) = calls[d].scope /\ calls[d] \in Activation
<1>1. Len(calls) \in Nat
  BY LenProperties
<1>2. \A d \in 1 .. Len(calls) : calls[d] \in Activation
  BY <1>1, ElementOfSeq
<1>3. \A d \in 1 .. Len(calls) : calls[d].scope \in ScopeIds /\ Link(calls, d) = calls[d].scope
  BY <1>1, <1>2 DEF Activation, Link
<1>4. Link(calls, 0) = Global
  BY DEF Link
<1>5. \A d \in 0 .. Len(calls) : Link(calls, d) \in ScopeIds
  BY <1>1, <1>3, <1>4, ScopesAssumption
<1> QED
  BY <1>1, <1>2, <1>3, <1>5, ScopesAssumption

(* As no two of them are the same there are as many scopes. *)
LEMMA ChainFits ==
  ASSUME NEW ss, NEW calls, Chain(ss, calls)
  PROVE  Cardinality(ScopeIds) \in Nat /\ Len(calls) + 1 <= Cardinality(ScopeIds)
<1> DEFINE n == Len(calls)
           f == [d \in 0 .. n |-> Link(calls, d)]
<1>1. n \in Nat /\ \A d \in 0 .. n : Link(calls, d) \in ScopeIds
  BY Links DEF Chain
<1> HIDE DEF n
<1>2. f \in Injection(0 .. n, ScopeIds)
  <2>1. f \in [0 .. n -> ScopeIds]
    BY <1>1
  <2>2. \A d, e \in 0 .. n : f[d] = f[e] => d = e
    BY DEF Chain, n
  <2> HIDE DEF f
  <2> QED
    BY <2>1, <2>2 DEF Injection, IsInjective
<1>3. IsFiniteSet(ScopeIds)
  BY ScopesAssumption
<1>4. Cardinality(0 .. n) <= Cardinality(ScopeIds)
  <2> HIDE DEF f
  <2> QED
    BY <1>2, <1>3, FS_Injection
<1>5. Cardinality(0 .. n) = n + 1
  BY <1>1, FS_Interval
<1>6. Cardinality(ScopeIds) \in Nat
  BY <1>3, FS_CardinalityType
<1> QED
  BY <1>4, <1>5, <1>6 DEF n

(* Where a lookup from an open call ends up, by induction on the number of *)
(* parents that it has followed.                                           *)
LEMMA Walk ==
  ASSUME NEW ss, NEW calls, Chain(ss, calls), NEW having,
         NEW d \in 0 .. Len(calls), NEW e, Stops(calls, having, d, e)
  PROVE  Reached(ss, Link(calls, d), having) = Link(calls, e)
<1> DEFINE C == Cardinality(ScopeIds)
           s == Link(calls, d)
           f == WalkFunction(ss, s, having)
           Right(k) == f[k] = Link(calls, IF k < d - e THEN d - k ELSE e)
           Bad == {k \in 0 .. C : ~ Right(k)}
<1>1. /\ C \in Nat /\ Len(calls) \in Nat /\ Len(calls) + 1 <= C
      /\ \A j \in 0 .. Len(calls) : Link(calls, j) \in ScopeIds /\ Link(calls, j) # None
  BY ChainFits, Links DEF Chain
<1>2. \A k \in 0 .. C : f[k] = WalkStep(f, ss, s, having, k)
  <2>1. ss \in [ScopeIds -> ScopeObject] /\ s \in ScopeIds
    BY <1>1 DEF Chain
  <2> HIDE DEF s
  <2> QED
    BY <1>1, <2>1, WalkRecursion
<1>3. e \in -1 .. d /\ d \in Nat
  BY <1>1 DEF Stops
<1> HIDE DEF f, C
<1>4. Right(0)
  <2>1. f[0] = s
    BY <1>1, <1>2 DEF WalkStep
  <2>2. (IF 0 < d - e THEN d - 0 ELSE e) = d
    BY <1>3
  <2> QED
    BY <2>1, <2>2
<1>5. ASSUME NEW k \in 0 .. C, k # 0, Right(k - 1) PROVE Right(k)
  <2>1. f[k] = IF f[k - 1] \in having \/ f[k - 1] = None THEN f[k - 1] ELSE ss[f[k - 1]].parent
    BY <1>2, <1>5 DEF WalkStep
  <2>2. CASE k - 1 < d - e
    <3> DEFINE j == d - (k - 1)
    <3>1. j \in 0 .. d /\ j > e /\ j \in 0 .. Len(calls) /\ j - 1 = d - k
      BY <1>1, <1>3, <1>5, <2>2
    <3>2. f[k - 1] = Link(calls, j)
      BY <1>5, <2>2
    <3> HIDE DEF j
    <3>3. Link(calls, j) \notin having /\ Link(calls, j) # None
      BY <1>1, <3>1 DEF Stops
    <3>4. f[k] = Link(calls, d - k)
      BY <2>1, <3>1, <3>2, <3>3 DEF Chain
    <3>5. (IF k < d - e THEN d - k ELSE e) = d - k
      BY <1>1, <1>3, <1>5, <2>2
    <3> QED
      BY <3>4, <3>5
  <2>3. CASE ~ (k - 1 < d - e)
    <3>1. f[k - 1] = Link(calls, e)
      BY <1>5, <2>3
    <3>2. Link(calls, e) \in having \/ Link(calls, e) = None
      BY DEF Stops, Link
    <3>3. (IF k < d - e THEN d - k ELSE e) = e
      BY <1>1, <1>3, <1>5, <2>3
    <3> QED
      BY <2>1, <3>1, <3>2, <3>3
  <2> QED
    BY <2>2, <2>3
<1> HIDE DEF Right
<1>6. Bad = {}
  <2> SUFFICES ASSUME Bad # {} PROVE FALSE
    OBVIOUS
  <2>1. Bad \in SUBSET Nat
    BY <1>1
  <2>2. PICK k \in Bad : \A j \in Bad : k <= j
    <3> HIDE DEF Bad
    <3> QED
      BY <2>1, Least
  <2>3. k # 0 /\ k \in 0 .. C
    BY <1>4, <2>2
  <2>4. k - 1 \in 0 .. C /\ k - 1 \notin Bad
    BY <1>1, <2>2, <2>3
  <2> QED
    BY <1>5, <2>2, <2>3, <2>4
<1>7. Right(C)
  BY <1>1, <1>6
<1>8. (IF C < d - e THEN d - C ELSE e) = e
  BY <1>1, <1>3
<1>9. Reached(ss, s, having) = f[C]
  BY ReachedIsWalk DEF f, C
<1> QED
  BY <1>7, <1>8, <1>9 DEF Right

(* So every lookup from an open call ends. *)
LEMMA WalkStops ==
  ASSUME NEW calls \in Seq(Activation), NEW d \in 0 .. Len(calls), NEW having
  PROVE  \E e : Stops(calls, having, d, e)
<1> DEFINE S == {j \in 0 .. d : Link(calls, j) \in having}
<1>1. d \in Nat
  BY Links
<1>2. CASE S = {}
  <2>1. Stops(calls, having, d, -1)
    BY <1>1, <1>2 DEF Stops
  <2> QED
    BY <2>1
<1>3. CASE S # {}
  <2>1. PICK e \in S : \A j \in S : j <= e
    <3>1. S \in SUBSET (0 .. d)
      OBVIOUS
    <3> HIDE DEF S
    <3> QED
      BY <1>1, <1>3, <3>1, Greatest
  <2>2. Stops(calls, having, d, e)
    BY <1>1, <2>1 DEF Stops
  <2> QED
    BY <2>2
<1> QED
  BY <1>2, <1>3

LEMMA ChainEnds ==
  ASSUME NEW ss, NEW calls, Chain(ss, calls), NEW d \in 0 .. Len(calls), NEW having
  PROVE  Ends(ss, Link(calls, d), having)
<1>1. PICK e : Stops(calls, having, d, e)
  BY WalkStops DEF Chain
<1>2. Reached(ss, Link(calls, d), having) = Link(calls, e)
  BY <1>1, Walk
<1>3. Link(calls, e) \in having \cup {None}
  BY <1>1 DEF Stops, Link
<1> QED
  BY <1>2, <1>3 DEF Ends

-----------------------------------------------------------------------------
(* Variables.                                                              *)

(* A lookup from call d of that call's variable finds the value of call d. *)
KeptAt(ss, calls, d) ==
  \E e \in 0 .. d :
    /\ Stops(calls, Having(ss, Variable[calls[d].node]), d, e)
    /\ ss[Link(calls, e)].props[Variable[calls[d].node]] = d

(* The calls that it has made of functions with a variable of that name    *)
(* have a variable of their own.                                           *)
BoundAbove(ss, calls, d) ==
  \A e \in 1 .. Len(calls) :
    e > d /\ Variable[calls[e].node] = Variable[calls[d].node]
      => ss[calls[e].scope].props[Variable[calls[d].node]] # Unbound

(* What has happened to variable x of scope object s: a value may have     *)
(* become another, but not the value of call d.                            *)
Keeps(ss, tt, s, x, d) ==
  /\ tt[s].props[x] = Unbound <=> ss[s].props[x] = Unbound
  /\ ss[s].props[x] = d => tt[s].props[x] = d

LEMMA SameLinks ==
  ASSUME NEW calls, NEW more, NEW n \in Nat, SameCalls(calls, more, n)
  PROVE  \A d \in -1 .. n : Link(more, d) = Link(calls, d)
<1> SUFFICES ASSUME NEW d \in -1 .. n PROVE Link(more, d) = Link(calls, d)
  OBVIOUS
<1>1. CASE d \in {-1, 0}
  BY <1>1 DEF Link
<1>2. CASE d \in 1 .. n
  BY <1>2 DEF SameCalls, Link
<1> QED
  BY <1>1, <1>2

(* The chain is the parents, and the scopes of the calls. *)
LEMMA ChainSame ==
  ASSUME NEW ss, NEW calls, Chain(ss, calls),
         NEW tt \in [ScopeIds -> ScopeObject], NEW more \in Seq(Activation),
         Len(more) <= Len(calls), SameCalls(calls, more, Len(more)),
         \A d \in 0 .. Len(more) : tt[Link(calls, d)].parent = ss[Link(calls, d)].parent
  PROVE  Chain(tt, more)
<1>1. Len(more) \in Nat /\ Len(calls) \in Nat
  BY Links DEF Chain
<1>2. \A d \in -1 .. Len(more) : Link(more, d) = Link(calls, d)
  BY <1>1, SameLinks
<1>3. ASSUME NEW d \in 0 .. Len(more)
      PROVE  tt[Link(more, d)].parent = Link(more, d - 1)
  <2>1. d \in 0 .. Len(calls) /\ d - 1 \in -1 .. Len(more) /\ d \in -1 .. Len(more)
    BY <1>1
  <2> QED
    BY <1>2, <2>1 DEF Chain
<1>4. ASSUME NEW d \in 0 .. Len(more), NEW e \in 0 .. Len(more),
             Link(more, d) = Link(more, e)
      PROVE  d = e
  <2>1. d \in 0 .. Len(calls) /\ e \in 0 .. Len(calls) /\ d \in -1 .. Len(more) /\ e \in -1 .. Len(more)
    BY <1>1
  <2> QED
    BY <1>2, <1>4, <2>1 DEF Chain
<1> QED
  BY <1>3, <1>4 DEF Chain

LEMMA KeptSame ==
  ASSUME NEW ss, NEW calls, Chain(ss, calls), NEW tt, NEW more, Chain(tt, more),
         NEW d \in 1 .. Len(more), d <= Len(calls), SameCalls(calls, more, d),
         KeptAt(ss, calls, d),
         \A j \in 0 .. d : Keeps(ss, tt, Link(calls, j), Variable[calls[d].node], d)
  PROVE  KeptAt(tt, more, d)
<1> DEFINE x == Variable[calls[d].node]
<1>1. /\ Len(calls) \in Nat /\ Len(more) \in Nat /\ d \in Nat
      /\ \A j \in 0 .. d : Link(calls, j) \in ScopeIds
      /\ \A j \in -1 .. d : Link(more, j) = Link(calls, j)
      /\ more[d].node = calls[d].node
  <2>1. Len(calls) \in Nat /\ Len(more) \in Nat /\ d \in Nat
    BY Links DEF Chain
  <2>2. \A j \in 0 .. d : Link(calls, j) \in ScopeIds
    BY <2>1, Links DEF Chain
  <2>3. \A j \in -1 .. d : Link(more, j) = Link(calls, j)
    BY <2>1, SameLinks
  <2>4. more[d].node = calls[d].node
    BY <2>1 DEF SameCalls
  <2> QED
    BY <2>1, <2>2, <2>3, <2>4
<1>2. PICK e \in 0 .. d : Stops(calls, Having(ss, x), d, e) /\ ss[Link(calls, e)].props[x] = d
  BY DEF KeptAt
<1>3. DOMAIN ss = ScopeIds /\ DOMAIN tt = ScopeIds
  BY DEF Chain
<1>4. \A j \in 0 .. d : Link(calls, j) \in Having(tt, x) <=> Link(calls, j) \in Having(ss, x)
  BY <1>1, <1>3 DEF Having, Keeps
<1>5. Stops(more, Having(tt, x), d, e)
  BY <1>1, <1>2, <1>4 DEF Stops
<1>6. tt[Link(more, e)].props[x] = d
  BY <1>1, <1>2 DEF Keeps
<1> QED
  BY <1>1, <1>5, <1>6 DEF KeptAt

(* The innermost call sets its variable: where the lookup stops, else in   *)
(* its own scope.  Its own variable has the value then, and no call below  *)
(* loses its value, provided that the innermost call has a variable of its *)
(* own whenever one below has stored a value in one of that name.          *)
ValuesKept(ss, calls) ==
  \A d \in 1 .. Len(calls) : calls[d].stored => KeptAt(ss, calls, d) /\ BoundAbove(ss, calls, d)

BelowKept(ss, calls) ==
  \A d \in 1 .. Len(calls) :
    d < Len(calls) /\ calls[d].stored => KeptAt(ss, calls, d) /\ BoundAbove(ss, calls, d)

LEMMA StoreKeeps ==
  ASSUME NEW ss, NEW calls, Chain(ss, calls), BelowKept(ss, calls),
         NEW n, n = Len(calls), n # 0, n <= MaxDepth,
         NEW tt, tt = SetRec(ss, calls[n].scope, Variable[calls[n].node], n)
  PROVE  Chain(tt, calls) /\ ValuesKept(tt, calls)
<1> DEFINE x == Variable[calls[n].node]
<1>1. /\ ss \in [ScopeIds -> ScopeObject] /\ calls \in Seq(Activation)
      /\ n \in Nat /\ n \in 1 .. n
      /\ \A d \in 0 .. n : Link(calls, d) \in ScopeIds /\ Link(calls, d) # None
      /\ \A d \in 1 .. n : Link(calls, d) = calls[d].scope /\ calls[d] \in Activation
      /\ \A d \in 1 .. n : Variable[calls[d].node] \in Names
  <2>1. /\ n \in Nat
        /\ \A d \in 0 .. n : Link(calls, d) \in ScopeIds /\ Link(calls, d) # None
        /\ \A d \in 1 .. n : Link(calls, d) = calls[d].scope /\ calls[d] \in Activation
    BY Links DEF Chain
  <2>2. \A d \in 1 .. n : Variable[calls[d].node] \in Names
    BY <2>1, VariableNames DEF Activation
  <2> QED
    BY <2>1, <2>2 DEF Chain
<1>2. x \in Names /\ n \in Stored /\ n # Unbound
  BY <1>1, ScopesAssumption DEF Stored, Unbound
<1>3. PICK e : Stops(calls, Having(ss, x), n, e)
  <2>1. calls \in Seq(Activation) /\ n \in 0 .. Len(calls)
    BY <1>1
  <2> HIDE DEF x
  <2> QED
    BY <2>1, WalkStops
<1> DEFINE w == IF e = -1 THEN n ELSE e
<1>4. e \in -1 .. n /\ w \in 0 .. n
  BY <1>1, <1>3 DEF Stops
<1>5. tt = [ss EXCEPT ![Link(calls, w)].props[x] = n]
  <2>1. n \in 0 .. Len(calls) /\ Link(calls, n) = calls[n].scope
    BY <1>1
  <2> DEFINE found == Reached(ss, calls[n].scope, Having(ss, x))
  <2>2. found = Link(calls, e)
    BY <1>3, <2>1, Walk
  <2>3. tt = [ss EXCEPT ![IF found = None THEN calls[n].scope ELSE found].props[x] = n]
    BY DEF SetRec
  <2> HIDE DEF found, x
  <2>4. (IF found = None THEN calls[n].scope ELSE found) = Link(calls, w)
    <3>1. CASE e = -1
      BY <2>1, <2>2, <3>1 DEF Link
    <3>2. CASE e # -1
      <4>1. e \in 0 .. n
        BY <1>1, <1>4, <3>2
      <4> QED
        BY <1>1, <2>2, <3>2, <4>1
    <3> QED
      BY <3>1, <3>2
  <2> QED
    BY <2>3, <2>4
<1> HIDE DEF x
<1>6. Stores(ss, tt, Link(calls, w), x, n)
  <2> DEFINE l == Link(calls, w)
  <2>1. l \in ScopeIds
    BY <1>1, <1>4
  <2> HIDE DEF l
  <2>2. Stores(ss, [ss EXCEPT ![l].props[x] = n], l, x, n)
    BY <1>1, <1>2, <2>1, StoreIn
  <2> QED
    BY <1>5, <2>2 DEF l
<1>7. Chain(tt, calls)
  <2>1. SameCalls(calls, calls, n)
    BY DEF SameCalls
  <2>2. \A d \in 0 .. n : tt[Link(calls, d)].parent = ss[Link(calls, d)].parent
    BY <1>1, <1>6 DEF Stores
  <2>3. tt \in [ScopeIds -> ScopeObject] /\ n <= n
    BY <1>1, <1>6 DEF Stores
  <2> QED
    BY <1>1, <2>1, <2>2, <2>3, ChainSame
<1>8. Link(calls, w) \in Having(ss, x) \/ (w = n /\ e = -1)
  BY <1>3 DEF Stops
<1>9. KeptAt(tt, calls, n)
  <2>1. tt[Link(calls, w)].props[x] = n
    BY <1>1, <1>2, <1>4, <1>6 DEF Stores
  <2>2. Link(calls, w) \in Having(tt, x)
    BY <1>1, <1>2, <1>4, <1>6, <2>1 DEF Having, Stores
  <2>3. ASSUME NEW j \in 0 .. n, j > w PROVE Link(calls, j) \notin Having(tt, x)
    <3>1. j > e /\ e # -1
      BY <1>1, <1>4, <2>3
    <3>2. Link(calls, j) \notin Having(ss, x)
      BY <1>3, <3>1 DEF Stops
    <3>3. Link(calls, j) # Link(calls, w)
      BY <1>1, <1>4, <2>3 DEF Chain
    <3>4. tt[Link(calls, j)].props[x] = ss[Link(calls, j)].props[x]
      BY <1>1, <1>2, <1>6, <3>3 DEF Stores
    <3> QED
      BY <1>1, <3>2, <3>4 DEF Having
  <2>4. Stops(calls, Having(tt, x), n, w)
    <3> HIDE DEF w
    <3>1. w \in -1 .. n
      BY <1>1, <1>4
    <3> QED
      BY <2>2, <2>3, <3>1 DEF Stops
  <2> HIDE DEF w
  <2> QED
    BY <1>4, <2>1, <2>4 DEF KeptAt, x
<1>10. BoundAbove(tt, calls, n)
  BY SMTT(40), <1>1 DEF BoundAbove
<1>11. ASSUME NEW d \in 1 .. n, d < n, calls[d].stored
       PROVE  KeptAt(tt, calls, d) /\ BoundAbove(tt, calls, d)
  <2> DEFINE y == Variable[calls[d].node]
  <2>1. KeptAt(ss, calls, d) /\ BoundAbove(ss, calls, d)
    BY <1>11 DEF BelowKept
  <2>2. y \in Names
    BY <1>1
  <2>3. ASSUME NEW j \in 0 .. d PROVE tt[Link(calls, j)].props[y] = ss[Link(calls, j)].props[y]
    <3>1. CASE y # x
      <4>1. j \in 0 .. n
        BY <1>1, <1>11
      <4>2. Link(calls, j) \in ScopeIds
        BY <1>1, <4>1
      <4> HIDE DEF y
      <4> QED
        BY <1>6, <2>2, <3>1, <4>2 DEF Stores
    <3>2. CASE y = x
      <4>1. ss[calls[n].scope].props[x] # Unbound
        BY <1>1, <1>11, <2>1, <3>2 DEF BoundAbove, x
      <4>2. Link(calls, n) \in Having(ss, x)
        BY <1>1, <4>1 DEF Having
      <4>3. e = n
        BY <1>1, <1>3, <1>4, <4>2 DEF Stops
      <4>4. w = n
        BY <4>3
      <4> HIDE DEF w
      <4>5. Link(calls, j) # Link(calls, n)
        <5>1. j \in 0 .. n /\ n \in 0 .. n /\ j # n
          BY <1>1, <1>11
        <5> QED
          BY <5>1 DEF Chain
      <4>6. Link(calls, j) \in ScopeIds
        BY <1>1, <1>11
      <4> QED
        BY <1>6, <2>2, <4>4, <4>5, <4>6 DEF Stores
    <3> QED
      BY <3>1, <3>2
  <2>4. KeptAt(tt, calls, d)
    <3>1. \A j \in 0 .. d : Keeps(ss, tt, Link(calls, j), y, d)
      BY <2>3 DEF Keeps
    <3>2. SameCalls(calls, calls, d) /\ d \in 1 .. Len(calls) /\ d <= Len(calls)
      BY <1>1 DEF SameCalls
    <3> QED
      BY <1>7, <2>1, <3>1, <3>2, KeptSame
  <2>5. BoundAbove(tt, calls, d)
    <3> SUFFICES ASSUME NEW j \in 1 .. n, j > d, Variable[calls[j].node] = y
                 PROVE  tt[calls[j].scope].props[y] # Unbound
      BY DEF BoundAbove
    <3>1. calls[j] \in Activation
      BY <1>1
    <3>2. calls[j].scope \in ScopeIds
      BY <3>1 DEF Activation
    <3>3. ss[calls[j].scope].props[y] # Unbound
      BY <2>1 DEF BoundAbove
    <3> HIDE DEF y
    <3> QED
      BY <1>2, <1>6, <2>2, <3>2, <3>3 DEF Stores
  <2> QED
    BY <2>4, <2>5
<1>12. \A d \in 1 .. n : d < n \/ d = n
  BY <1>1
<1>13. ValuesKept(tt, calls)
  BY <1>9, <1>10, <1>11, <1>12 DEF ValuesKept
<1> QED
  BY <1>7, <1>13

-----------------------------------------------------------------------------
(* Lookups end and variables keep their values: every step.  No closure is *)
(* made of the global object's scope, and until a call is given a scope    *)
(* that an open call uses the open calls' scopes are a chain.              *)

ScopesApart ==
  /\ \A f \in functions : f.scope # Global
  /\ \A d \in 1 .. Depth : stack[d].scope # Global

ChainInv ==
  /\ IInv
  /\ ScopesApart
  /\ LookupsEnd
  /\ ~ reentered => Chain(scopes, stack) /\ ValuesKept(scopes, stack)

(* Nothing of what lookups see has changed, or only who waits for whom. *)
LEMMA ChainInvSame ==
  ASSUME ChainInv, IInv', UNCHANGED <<scopes, stack, functions>>,
         reentered' = reentered, status' = "hangs" => reentered
  PROVE  ChainInv'
<1>1. scopes' = scopes /\ stack' = stack /\ functions' = functions
  OBVIOUS
<1>2. ScopesApart' /\ LookupsEnd'
  BY <1>1 DEF ChainInv, ScopesApart, LookupsEnd, Depth
<1>3. ~ reentered' => Chain(scopes, stack)' /\ ValuesKept(scopes, stack)'
  <2>1. Chain(scopes', stack') = Chain(scopes, stack) /\ ValuesKept(scopes', stack') = ValuesKept(scopes, stack)
    BY <1>1
  <2> QED
    BY <2>1 DEF ChainInv
<1> QED
  BY <1>2, <1>3 DEF ChainInv

LEMMA InnermostLink ==
  ASSUME stack \in Seq(Activation)
  PROVE  Ctx = Link(stack, Depth) /\ Depth \in 0 .. Depth
<1>1. Depth \in Nat /\ (stack = <<>> <=> Depth = 0)
  BY EmptySeq, LenProperties DEF Depth
<1>2. Depth # -1
  BY <1>1
<1> QED
  BY <1>1, <1>2 DEF Ctx, Top, Link

(* The new call's scope is one more link, unless an open call uses it. *)
LEMMA ChainGrows ==
  ASSUME TypeOK, NEW f \in FunctionObject, NEW s \in ScopeIds, s # Global,
         Chain(scopes, stack), \A d \in 1 .. Depth : stack[d].scope # s,
         NEW tt, Declares(tt, f, s)
  PROVE  Chain(tt, NewCalls(f, s))
<1> DEFINE calls == NewCalls(f, s)
<1>1. /\ Depth \in Nat /\ stack \in Seq(Activation) /\ Len(stack) = Depth
      /\ Ctx = Link(stack, Depth)
  BY Calls, InnermostLink DEF TypeOK, Depth
<1>2. /\ calls \in Seq(Activation) /\ Len(calls) = Depth + 1
      /\ \A d \in -1 .. Depth : Link(calls, d) = Link(stack, d)
      /\ Link(calls, Depth + 1) = s
  <2>1. /\ calls \in Seq(Activation) /\ Len(calls) = Depth + 1
        /\ SameCalls(stack, calls, Depth) /\ calls[Depth + 1].scope = s
    BY NewCallsAre
  <2> HIDE DEF calls
  <2>2. \A d \in -1 .. Depth : Link(calls, d) = Link(stack, d)
    BY <1>1, <2>1, SameLinks
  <2>3. Link(calls, Depth + 1) = s
    BY <1>1, <2>1 DEF Link
  <2> QED
    BY <2>1, <2>2, <2>3
<1> HIDE DEF calls
<1>3. \A d \in 0 .. Depth : Link(stack, d) \in ScopeIds /\ Link(stack, d) # s
  <2> SUFFICES ASSUME NEW d \in 0 .. Depth PROVE Link(stack, d) \in ScopeIds /\ Link(stack, d) # s
    OBVIOUS
  <2>1. Link(stack, d) \in ScopeIds
    BY <1>1, Links
  <2>2. CASE d = 0
    BY <2>1, <2>2 DEF Link
  <2>3. CASE d # 0
    <3>1. d \in 1 .. Depth /\ d # -1
      BY <1>1, <2>3
    <3> QED
      BY <2>1, <2>3, <3>1 DEF Link
  <2> QED
    BY <2>2, <2>3
<1>4. ASSUME NEW d \in 0 .. Depth + 1 PROVE tt[Link(calls, d)].parent = Link(calls, d - 1)
  <2>1. CASE d = Depth + 1
    <3>1. Depth \in -1 .. Depth /\ d - 1 = Depth
      BY <1>1, <2>1
    <3> QED
      BY <1>1, <1>2, <2>1, <3>1 DEF Declares
  <2>2. CASE d # Depth + 1
    <3>1. d \in 0 .. Depth /\ d \in -1 .. Depth /\ d - 1 \in -1 .. Depth
      BY <1>1, <2>2
    <3>2. tt[Link(stack, d)].parent = scopes[Link(stack, d)].parent
      BY <1>3, <3>1 DEF Declares
    <3>3. scopes[Link(stack, d)].parent = Link(stack, d - 1)
      BY <1>1, <3>1 DEF Chain
    <3> QED
      BY <1>2, <3>1, <3>2, <3>3
  <2> QED
    BY <2>1, <2>2
<1>5. ASSUME NEW d \in 0 .. Depth + 1, NEW e \in 0 .. Depth + 1, Link(calls, d) = Link(calls, e)
      PROVE  d = e
  <2>1. \A j \in 0 .. Depth + 1 : j = Depth + 1 \/ (j \in 0 .. Depth /\ j \in -1 .. Depth)
    BY <1>1
  <2>2. CASE d = Depth + 1 \/ e = Depth + 1
    BY <1>2, <1>3, <1>5, <2>1, <2>2
  <2>3. CASE d # Depth + 1 /\ e # Depth + 1
    <3>1. Link(stack, d) = Link(stack, e) /\ d \in 0 .. Len(stack) /\ e \in 0 .. Len(stack)
      BY <1>1, <1>2, <1>5, <2>1, <2>3
    <3> QED
      BY <3>1 DEF Chain
  <2> QED
    BY <2>2, <2>3
<1>6. tt \in [ScopeIds -> ScopeObject]
  BY DEF Declares
<1> QED
  BY <1>2, <1>4, <1>5, <1>6 DEF Chain, calls

(* var_dec_scan: the new call has a variable of its own, or no open call   *)
(* has stored in one of that name.                                         *)
LEMMA ScanKeeps ==
  ASSUME TypeOK, NEW f \in FunctionObject, NEW s \in ScopeIds, s # Global,
         Chain(scopes, stack), ValuesKept(scopes, stack),
         \A d \in 1 .. Depth : stack[d].scope # s,
         Depth < MaxDepth, NEW tt, Declares(tt, f, s)
  PROVE  /\ Chain(VarScan(tt, s, f.node), NewCalls(f, s))
         /\ ValuesKept(VarScan(tt, s, f.node), NewCalls(f, s))
<1> DEFINE calls == NewCalls(f, s)
           n == f.node
           m == Depth + 1
<1>1. /\ Depth \in Nat /\ stack \in Seq(Activation) /\ Len(stack) = Depth
      /\ n \in Nodes /\ Variable[n] \in Names
      /\ scopes \in [ScopeIds -> ScopeObject] /\ tt \in [ScopeIds -> ScopeObject]
  BY Calls, VariableNames DEF TypeOK, FunctionObject, Depth, Declares
<1>2. /\ calls \in Seq(Activation) /\ Len(calls) = m /\ SameCalls(stack, calls, Depth)
      /\ \A d \in 1 .. Depth : calls[d].stored =>
           stack[d].stored /\ ~ (Outside(tt, s, n) /\ Variable[stack[d].node] = Variable[n])
      /\ calls[m].node = n /\ calls[m].scope = s /\ calls[m].stored = Assigns(n)
  <2>1. Outside(tt, s, n) <=> Outside(CallEnv(f, s), s, n)
    BY SameOutside
  <2>2. /\ calls \in Seq(Activation) /\ Len(calls) = m /\ SameCalls(stack, calls, Depth)
        /\ \A d \in 1 .. Depth : calls[d] = Disturbed(CallEnv(f, s), s, n)[d]
        /\ calls[m].node = n /\ calls[m].scope = s /\ calls[m].stored = Assigns(n)
    BY NewCallsAre
  <2>3. \A d \in 1 .. Depth : Disturbed(CallEnv(f, s), s, n)[d].stored =>
          /\ stack[d].stored
          /\ ~ (Outside(CallEnv(f, s), s, n) /\ Variable[stack[d].node] = Variable[n])
    BY DisturbedStack
  <2> HIDE DEF calls, n, m
  <2> QED
    BY <2>1, <2>2, <2>3
<1>3. Chain(tt, calls)
  BY ChainGrows
<1> HIDE DEF calls, n, m
<1>4. m = Depth + 1 /\ m \in Nat /\ m # 0 /\ m <= MaxDepth /\ m \in 1 .. m
  BY <1>1, ScopesAssumption DEF m
<1>5. \A d \in 1 .. Depth : /\ d \in 1 .. m /\ d < m
                            /\ calls[d].node = stack[d].node /\ calls[d].scope = stack[d].scope
                            /\ stack[d] \in Activation /\ Variable[stack[d].node] \in Names
                            /\ stack[d].scope \in ScopeIds
  <2>1. \A d \in 1 .. Depth : stack[d] \in Activation
    BY <1>1, ElementOfSeq
  <2> QED
    BY <1>1, <1>2, <1>4, <2>1, VariableNames DEF SameCalls, Activation
<1>6. ASSUME NEW uu, Chain(uu, calls), NEW d \in 1 .. Depth, calls[d].stored,
             \A t \in ScopeIds \ {s} : uu[t].props = scopes[t].props
      PROVE  KeptAt(uu, calls, d)
  <2>1. KeptAt(scopes, stack, d)
    BY <1>1, <1>2, <1>6 DEF ValuesKept
  <2>2. \A j \in 0 .. d : Link(stack, j) \in ScopeIds \ {s}
    <3> SUFFICES ASSUME NEW j \in 0 .. d PROVE Link(stack, j) \in ScopeIds \ {s}
      OBVIOUS
    <3>1. CASE j = 0
      BY <3>1, ScopesAssumption DEF Link
    <3>2. CASE j # 0
      <4>1. j \in 1 .. Depth /\ j # -1
        BY <1>1, <3>2
      <4> QED
        BY <1>5, <3>2, <4>1 DEF Link
    <3> QED
      BY <3>1, <3>2
  <2>3. \A j \in 0 .. d : Keeps(scopes, uu, Link(stack, j), Variable[stack[d].node], d)
    BY <1>6, <2>2 DEF Keeps
  <2>4. d \in 1 .. Len(calls) /\ d <= Len(stack) /\ SameCalls(stack, calls, d)
    BY <1>1, <1>2, <1>5 DEF SameCalls
  <2> QED
    BY <1>6, <2>1, <2>3, <2>4, KeptSame
<1>7. ASSUME NEW uu, Chain(uu, calls), NEW d \in 1 .. Depth, calls[d].stored,
             \A t \in ScopeIds \ {s} : uu[t].props = scopes[t].props,
             Outside(tt, s, n) \/ uu[s].props[Variable[n]] # Unbound
      PROVE  BoundAbove(uu, calls, d)
  <2> SUFFICES ASSUME NEW e \in 1 .. m, e > d, Variable[calls[e].node] = Variable[calls[d].node]
               PROVE  uu[calls[e].scope].props[Variable[calls[d].node]] # Unbound
    BY <1>2 DEF BoundAbove
  <2>1. CASE e = m
    BY <1>2, <1>5, <1>7, <2>1
  <2>2. CASE e # m
    <3>1. e \in 1 .. Depth
      BY <1>1, <1>4, <2>2
    <3>2. BoundAbove(scopes, stack, d)
      BY <1>1, <1>2, <1>7 DEF ValuesKept
    <3>3. scopes[stack[e].scope].props[Variable[stack[d].node]] # Unbound
      BY <1>1, <1>5, <3>1, <3>2 DEF BoundAbove
    <3> QED
      BY <1>5, <1>7, <3>1, <3>3
  <2> QED
    BY <2>1, <2>2
<1>8. /\ \A t \in ScopeIds \ {s} : tt[t].props = scopes[t].props
      /\ n \in hoisted => Outside(tt, s, n) \/ tt[s].props[Variable[n]] # Unbound
  BY DEF Declares, Outside
<1>9. \A d \in 1 .. m : d = m \/ d \in 1 .. Depth
  BY <1>1, <1>4
<1>10. CASE n \notin hoisted
  <2> DEFINE uu == VarScan(tt, s, n)
  <2>1. uu = [tt EXCEPT ![s].props[Variable[n]] = Other]
    BY <1>10 DEF VarScan
  <2>2. Stores(tt, uu, s, Variable[n], Other)
    <3>1. Other \in Stored
      BY ScopesAssumption DEF Other, Stored
    <3> HIDE DEF uu
    <3> QED
      BY <1>1, <2>1, <3>1, StoreIn
  <2> HIDE DEF uu
  <2>3. uu \in [ScopeIds -> ScopeObject] /\ uu[s].props[Variable[n]] # Unbound
    BY <1>1, <2>2 DEF Stores, Other, Unbound
  <2>4. \A t \in ScopeIds \ {s} : uu[t].props = scopes[t].props
    BY <1>1, <1>8, <2>1
  <2>5. Chain(uu, calls)
    <3>1. \A d \in 0 .. m : uu[Link(calls, d)].parent = tt[Link(calls, d)].parent
      <4>1. \A d \in 0 .. m : Link(calls, d) \in ScopeIds
        BY <1>2, Links
      <4> QED
        BY <2>2, <4>1 DEF Stores
    <3>2. SameCalls(calls, calls, m) /\ m <= m
      BY <1>4 DEF SameCalls
    <3> QED
      BY <1>2, <1>3, <2>3, <3>1, <3>2, ChainSame
  <2>6. ~ calls[m].stored
    BY <1>2, <1>10 DEF Assigns
  <2>7. ValuesKept(uu, calls)
    BY <1>2, <1>6, <1>7, <1>9, <2>3, <2>4, <2>5, <2>6 DEF ValuesKept
  <2> QED
    BY <2>5, <2>7 DEF uu, calls, n
<1>11. CASE n \in hoisted /\ n \notin Initialised
  <2>1. VarScan(tt, s, n) = tt
    BY <1>11 DEF VarScan
  <2>2. ~ calls[m].stored
    BY <1>2, <1>11 DEF Assigns
  <2>3. ValuesKept(tt, calls)
    BY <1>2, <1>3, <1>6, <1>7, <1>8, <1>9, <1>11, <2>2 DEF ValuesKept
  <2> QED
    BY <1>3, <2>1, <2>3 DEF calls, n
<1>12. CASE n \in hoisted /\ n \in Initialised
  <2>1. VarScan(tt, s, n) = SetRec(tt, s, Variable[n], m)
    BY <1>12 DEF VarScan, m
  <2>2. BelowKept(tt, calls)
    <3> SUFFICES ASSUME NEW d \in 1 .. m, d < m, calls[d].stored
                 PROVE  KeptAt(tt, calls, d) /\ BoundAbove(tt, calls, d)
      BY <1>2 DEF BelowKept
    <3>1. d \in 1 .. Depth
      BY <1>1, <1>4
    <3> QED
      BY <1>3, <1>6, <1>7, <1>8, <1>12, <3>1
  <2> DEFINE uu == VarScan(tt, s, n)
  <2>3. uu = SetRec(tt, calls[m].scope, Variable[calls[m].node], m)
    BY <1>2, <2>1
  <2> HIDE DEF uu
  <2>4. Chain(uu, calls) /\ ValuesKept(uu, calls)
    BY <1>2, <1>3, <1>4, <2>2, <2>3, StoreKeeps
  <2> QED
    BY <2>4 DEF uu, calls, n
<1> QED
  BY <1>10, <1>11, <1>12

LEMMA CallKeepsChain ==
  ASSUME ChainInv, IInv', NEW f \in functions, NEW s \in ScopesFor(f), Call(f, s)
  PROVE  ChainInv'
<1>1. /\ TypeOK /\ f \in FunctionObject /\ s \in ScopeIds /\ s # Global
      /\ Depth < MaxDepth /\ Depth \in Nat
  <2>1. TypeOK /\ f \in FunctionObject
    BY DEF ChainInv, IInv, TypeOK
  <2>2. s \in ScopeIds
    BY <2>1 DEF ScopesFor, FunctionObject
  <2>3. s # Global
    <3>1. CASE f.scope = None
      <4>1. Global \in Held(scopes, functions, stack)
        BY <2>1, ScopesAssumption DEF Held, TypeOK
      <4> QED
        BY <3>1, <4>1 DEF ScopesFor
    <3>2. CASE f.scope # None
      BY <3>2 DEF ScopesFor, ChainInv, ScopesApart
    <3> QED
      BY <3>1, <3>2
  <2> QED
    BY <2>1, <2>2, <2>3, Calls DEF Call
<1> DEFINE n == f.node
           hangs == Assigns(n) /\ ~ Ends(CallEnv(f, s), s, Having(CallEnv(f, s), Variable[n]))
<1>2. reentered' = (reentered \/ \E d \in DOMAIN stack : stack[d].scope = s)
  BY DEF Call
<1>3. ~ reentered' => /\ ~ reentered /\ Chain(scopes, stack) /\ ValuesKept(scopes, stack)
                      /\ \A d \in 1 .. Depth : stack[d].scope # s
  <2>1. DOMAIN stack = 1 .. Depth
    BY <1>1, LenProperties DEF TypeOK, Depth
  <2> QED
    BY <1>2, <2>1 DEF ChainInv
<1>4. CASE hangs
  <2>1. UNCHANGED <<scopes, functions, stack>>
    BY <1>4 DEF Call, Hang, Assigns
  <2>2. ASSUME ~ reentered' PROVE FALSE
    <3> DEFINE env == CallEnv(f, s)
               calls == NewCalls(f, s)
    <3>1. Declares(env, f, s)
      BY <1>1, EnvDeclares
    <3>2. Chain(env, calls)
      BY <1>1, <1>3, <2>2, <3>1, ChainGrows
    <3>3. Len(calls) = Depth + 1 /\ calls[Depth + 1].scope = s
      BY <1>1, NewCallsAre
    <3> HIDE DEF env, calls
    <3>4. Link(calls, Depth + 1) = s /\ Depth + 1 \in 0 .. Len(calls)
      BY <1>1, <3>3 DEF Link
    <3>5. Ends(env, s, Having(env, Variable[n]))
      BY <3>2, <3>4, ChainEnds
    <3> QED
      BY <1>4, <3>5 DEF env
  <2>3. ScopesApart'
    BY <2>1 DEF ChainInv, ScopesApart, Depth
  <2> QED
    BY <2>2, <2>3 DEF ChainInv, LookupsEnd
<1>5. CASE ~ hangs
  <2>1. /\ scopes' = VarScan(Declared(f, s), s, n)
        /\ functions' = IF Scanned(n) THEN functions \cup {NewFunction(Inner[n])} ELSE functions
        /\ stack' = NewCalls(f, s)
        /\ status' = status /\ status = "running"
    BY <1>5 DEF Call, Assigns, Declared, NewCalls, NewActivation
  <2>2. Declares(Declared(f, s), f, s)
    BY <1>1, EnvDeclares
  <2>3. ScopesApart'
    <3>1. \A g \in functions' : g.scope # Global
      BY <2>1, ScopesAssumption DEF ChainInv, ScopesApart, NewFunction
    <3>2. /\ Len(NewCalls(f, s)) = Depth + 1
          /\ SameCalls(stack, NewCalls(f, s), Depth) /\ NewCalls(f, s)[Depth + 1].scope = s
      BY <1>1, NewCallsAre
    <3>3. \A d \in 1 .. Depth + 1 : d = Depth + 1 \/ d \in 1 .. Depth
      BY <1>1
    <3>4. \A d \in 1 .. Depth + 1 : NewCalls(f, s)[d].scope # Global
      BY <1>1, <3>2, <3>3 DEF SameCalls, ChainInv, ScopesApart
    <3> QED
      BY <2>1, <3>1, <3>2, <3>4 DEF ScopesApart, Depth
  <2>4. LookupsEnd'
    BY <2>1 DEF LookupsEnd
  <2>5. ASSUME ~ reentered' PROVE Chain(scopes', stack') /\ ValuesKept(scopes', stack')
    BY <1>1, <1>3, <2>1, <2>2, <2>5, ScanKeeps
  <2> QED
    BY <2>3, <2>4, <2>5 DEF ChainInv
<1> QED
  BY <1>4, <1>5

LEMMA AssignKeepsChain ==
  ASSUME ChainInv, IInv', Assign
  PROVE  ChainInv'
<1>1. /\ stack \in Seq(Activation) /\ stack # <<>>
      /\ Depth \in 1 .. Depth /\ Depth \in Nat /\ Depth # 0 /\ Depth <= MaxDepth
      /\ Depth \in 0 .. Len(stack) /\ Len(stack) = Depth
      /\ Top = stack[Depth] /\ Top \in Activation /\ Ctx = Top.scope /\ Ctx = Link(stack, Depth)
  <2>1. stack \in Seq(Activation) /\ stack # <<>>
    BY DEF Assign, ChainInv, IInv, TypeOK
  <2>2. Depth \in 1 .. Depth /\ Depth \in Nat /\ Depth <= MaxDepth /\ Top \in Activation
    BY <2>1, Calls DEF ChainInv, IInv
  <2>3. Ctx = Link(stack, Depth)
    BY <2>1, InnermostLink
  <2> QED
    BY <2>1, <2>2, <2>3 DEF Top, Ctx, Depth
<1>2. status = "running" /\ reentered' = reentered
  BY DEF Assign
<1>3. CASE Ends(scopes, Ctx, Having(scopes, Variable[Top.node]))
  <2>1. /\ scopes' = SetRec(scopes, Ctx, Variable[Top.node], Depth)
        /\ stack' = [stack EXCEPT ![Depth].stored = TRUE]
        /\ functions' = functions /\ status' = status
    BY <1>3 DEF Assign
  <2> DEFINE a == [Top EXCEPT !.stored = TRUE]
  <2>2. a \in Activation /\ a.node = Top.node /\ a.scope = Top.scope
    BY <1>1 DEF Activation
  <2>3. stack' = [stack EXCEPT ![Depth] = a]
    BY <1>1, <2>1
  <2> HIDE DEF a
  <2>4. /\ stack' \in Seq(Activation) /\ Len(stack') = Depth /\ Depth' = Depth
        /\ \A d \in 1 .. Depth : stack'[d] = IF d = Depth THEN a ELSE stack[d]
    BY <1>1, <2>2, <2>3, ExceptSeq DEF Depth
  <2>5. SameCalls(stack, stack', Depth)
    BY <1>1, <2>2, <2>4 DEF SameCalls
  <2>6. ScopesApart'
    BY <2>1, <2>4, <2>5 DEF ChainInv, ScopesApart, SameCalls
  <2>7. ASSUME ~ reentered' PROVE Chain(scopes', stack') /\ ValuesKept(scopes', stack')
    <3>1. Chain(scopes, stack) /\ ValuesKept(scopes, stack) /\ scopes \in [ScopeIds -> ScopeObject]
      BY <1>2, <2>7 DEF ChainInv, Chain
    <3> DEFINE calls == stack'
    <3>2. /\ calls \in Seq(Activation) /\ Len(calls) = Depth /\ SameCalls(stack, calls, Depth)
          /\ \A d \in 1 .. Depth : d # Depth => calls[d] = stack[d]
      BY <2>4, <2>5
    <3> HIDE DEF calls
    <3>3. Chain(scopes, calls)
      <4>1. Len(calls) <= Len(stack) /\ SameCalls(stack, calls, Len(calls))
        BY <1>1, <3>2
      <4> QED
        BY <3>1, <3>2, <4>1, ChainSame
    <3>4. BelowKept(scopes, calls)
      <4> SUFFICES ASSUME NEW d \in 1 .. Depth, d < Depth, calls[d].stored
                   PROVE  KeptAt(scopes, calls, d) /\ BoundAbove(scopes, calls, d)
        BY <3>2 DEF BelowKept
      <4>1. KeptAt(scopes, stack, d) /\ BoundAbove(scopes, stack, d)
        BY <1>1, <3>1, <3>2 DEF ValuesKept
      <4>2. d \in 1 .. Len(calls) /\ d <= Len(stack) /\ SameCalls(stack, calls, d)
        BY <1>1, <3>2 DEF SameCalls
      <4>3. \A j \in 0 .. d : Keeps(scopes, scopes, Link(stack, j), Variable[stack[d].node], d)
        BY DEF Keeps
      <4>4. KeptAt(scopes, calls, d)
        BY <3>1, <3>3, <4>1, <4>2, <4>3, KeptSame
      <4>5. BoundAbove(scopes, calls, d)
        BY <1>1, <3>2, <4>1 DEF BoundAbove, SameCalls
      <4> QED
        BY <4>4, <4>5
    <3>5. scopes' = SetRec(scopes, calls[Depth].scope, Variable[calls[Depth].node], Depth)
      BY <1>1, <2>1, <3>2 DEF SameCalls
    <3> DEFINE tt == scopes'
               m == Depth
    <3>6. tt = SetRec(scopes, calls[m].scope, Variable[calls[m].node], m)
          /\ m = Len(calls) /\ m # 0 /\ m <= MaxDepth
      BY <1>1, <3>2, <3>5
    <3> HIDE DEF tt, m
    <3>7. Chain(tt, calls) /\ ValuesKept(tt, calls)
      BY <3>3, <3>4, <3>6, StoreKeeps
    <3> QED
      BY <3>7 DEF tt, calls
  <2> QED
    BY <1>2, <2>1, <2>6, <2>7 DEF ChainInv, LookupsEnd
<1>4. CASE ~ Ends(scopes, Ctx, Having(scopes, Variable[Top.node]))
  <2>1. UNCHANGED <<scopes, functions, stack>>
    BY <1>4 DEF Assign, Hang
  <2>2. ASSUME ~ reentered PROVE FALSE
    <3>1. Chain(scopes, stack)
      BY <2>2 DEF ChainInv
    <3> QED
      BY <1>1, <1>4, <3>1, ChainEnds
  <2> QED
    BY <1>2, <2>1, <2>2, ChainInvSame
<1> QED
  BY <1>3, <1>4

LEMMA PopKeepsChain ==
  ASSUME ChainInv, IInv', NEW fs, \A f \in fs : f.scope # Global, Pop(fs)
  PROVE  ChainInv'
<1> DEFINE calls == stack'
<1>1. functions' = fs /\ status = "running" /\ status' = status /\ reentered' = reentered
  BY DEF Pop
<1>2. /\ TypeOK /\ Len(stack) = Depth
      /\ scopes \in [ScopeIds -> ScopeObject] /\ stack \in Seq(Activation)
  BY DEF ChainInv, IInv, TypeOK, Depth
<1>3. /\ Depth \in Nat /\ Depth \in 1 .. Depth /\ scopes' \in [ScopeIds -> ScopeObject]
      /\ calls \in Seq(Activation) /\ Len(calls) = Depth - 1
      /\ Global \in ScopeIds /\ scopes'[Global] = Aged(Global)
      /\ \A d \in 1 .. Depth - 1 : /\ calls[d] = stack[d] /\ d \in 1 .. Depth /\ d # Depth
                                   /\ stack[d] \in Activation /\ stack[d].scope \in ScopeIds
                                   /\ scopes'[stack[d].scope] = Aged(stack[d].scope)
  BY <1>2, PoppedCalls
<1> HIDE DEF calls
<1> DEFINE held == {s \in ScopeIds : scopes'[s] = Aged(s)}
<1>4. Global \in held
  BY <1>3
<1>5. \A d \in 1 .. Depth - 1 : stack[d].scope \in held /\ d \in 1 .. Depth
  BY <1>3
<1>6. \A s \in held : /\ s \in ScopeIds
                      /\ scopes'[s].parent = scopes[s].parent
                      /\ \A x \in Names : scopes'[s].props[x] = Older(scopes[s].props[x])
  BY <1>2, AgedScope
<1> HIDE DEF held
<1>8. Depth' = Depth - 1
  BY <1>3 DEF Depth, calls
<1>9. ScopesApart'
  <2>1. \A d \in 1 .. Depth - 1 : stack'[d] = stack[d] /\ d \in 1 .. Depth
    BY <1>3 DEF calls
  <2> QED
    BY <1>1, <1>8, <2>1 DEF ChainInv, ScopesApart
<1>10. ASSUME ~ reentered' PROVE Chain(scopes', stack') /\ ValuesKept(scopes', stack')
  <2>1. Chain(scopes, stack) /\ ValuesKept(scopes, stack)
    BY <1>1, <1>10 DEF ChainInv
  <2> DEFINE tt == scopes'
             m == Depth - 1
  <2>2. m \in Nat /\ m < Depth /\ Depth # Unbound
    BY <1>3 DEF Unbound
  <2>3. /\ tt \in [ScopeIds -> ScopeObject]
        /\ \A s \in ScopeIds : s \in held =>
             /\ tt[s].parent = scopes[s].parent
             /\ \A x \in Names : tt[s].props[x] = Older(scopes[s].props[x])
    BY <1>3, <1>6
  <2> HIDE DEF tt
  <2>4. \A d \in 0 .. m : Link(stack, d) \in held /\ Link(stack, d) \in ScopeIds
    <3> SUFFICES ASSUME NEW d \in 0 .. m PROVE Link(stack, d) \in held /\ Link(stack, d) \in ScopeIds
      OBVIOUS
    <3>1. d \in 0 .. Len(stack) /\ d # -1
      BY <1>2, <1>3, <2>2
    <3>2. Link(stack, d) \in ScopeIds
      BY <1>2, <3>1, Links
    <3>3. CASE d = 0
      BY <1>4, <3>2, <3>3 DEF Link
    <3>4. CASE d # 0
      <4>1. d \in 1 .. Depth - 1
        BY <2>2, <3>4
      <4> QED
        BY <1>5, <3>1, <3>2, <3>4, <4>1 DEF Link
    <3> QED
      BY <3>3, <3>4
  <2>5. SameCalls(stack, calls, m)
    BY <1>3 DEF SameCalls
  <2>6. Chain(tt, calls)
    <3>1. \A d \in 0 .. Len(calls) : tt[Link(stack, d)].parent = scopes[Link(stack, d)].parent
      BY <1>3, <2>3, <2>4
    <3>2. Len(calls) <= Len(stack) /\ SameCalls(stack, calls, Len(calls))
      BY <1>2, <1>3, <2>5
    <3> QED
      BY <1>3, <2>1, <2>3, <3>1, <3>2, ChainSame
  <2>7. ASSUME NEW d \in 1 .. m, calls[d].stored
        PROVE  KeptAt(tt, calls, d) /\ BoundAbove(tt, calls, d)
    <3>1. /\ d \in 1 .. Depth /\ d \in 1 .. Depth - 1 /\ d # Depth /\ d < Depth /\ calls[d] = stack[d]
          /\ Variable[stack[d].node] \in Names
      <4>1. d \in 1 .. Depth - 1 /\ d < Depth
        BY <1>3
      <4>2. stack[d].node \in Nodes
        BY <1>3, <4>1 DEF Activation
      <4> QED
        BY <1>3, <4>1, <4>2, VariableNames
    <3>2. KeptAt(scopes, stack, d) /\ BoundAbove(scopes, stack, d)
      BY <1>2, <1>3, <2>1, <2>7, <3>1 DEF ValuesKept
    <3>3. \A j \in 0 .. d : Keeps(scopes, tt, Link(stack, j), Variable[stack[d].node], d)
      <4> SUFFICES ASSUME NEW j \in 0 .. d
                   PROVE  Keeps(scopes, tt, Link(stack, j), Variable[stack[d].node], d)
        OBVIOUS
      <4>1. Link(stack, j) \in held /\ Link(stack, j) \in ScopeIds
        BY <2>2, <2>4, <3>1
      <4>2. tt[Link(stack, j)].props[Variable[stack[d].node]]
              = Older(scopes[Link(stack, j)].props[Variable[stack[d].node]])
        BY <2>3, <3>1, <4>1
      <4> QED
        BY <2>2, <3>1, <4>2 DEF Keeps, Older, Other, Unbound
    <3>4. KeptAt(tt, calls, d)
      <4>1. d \in 1 .. Len(calls) /\ d <= Len(stack) /\ SameCalls(stack, calls, d)
        BY <1>2, <1>3, <2>5, <3>1 DEF SameCalls
      <4> QED
        BY <2>1, <2>6, <3>2, <3>3, <4>1, KeptSame
    <3>5. BoundAbove(tt, calls, d)
      <4> SUFFICES ASSUME NEW e \in 1 .. Depth - 1, e > d,
                          Variable[stack[e].node] = Variable[stack[d].node]
                   PROVE  tt[stack[e].scope].props[Variable[stack[d].node]] # Unbound
        BY <1>3, <3>1 DEF BoundAbove
      <4>1. stack[e].scope \in held /\ stack[e].scope \in ScopeIds /\ e \in 1 .. Depth
        BY <1>3, <1>5
      <4>2. scopes[stack[e].scope].props[Variable[stack[d].node]] # Unbound
        BY <1>2, <3>2, <4>1 DEF BoundAbove
      <4>3. tt[stack[e].scope].props[Variable[stack[d].node]]
              = Older(scopes[stack[e].scope].props[Variable[stack[d].node]])
        BY <2>3, <3>1, <4>1
      <4>4. \A v : v # Unbound => Older(v) # Unbound
        BY DEF Older, Other, Unbound
      <4> QED
        BY <4>2, <4>3, <4>4
    <3> QED
      BY <3>4, <3>5
  <2>8. ValuesKept(tt, calls)
    BY <1>3, <2>7 DEF ValuesKept
  <2> QED
    BY <2>6, <2>8 DEF tt, calls
<1> QED
  BY <1>1, <1>9, <1>10 DEF ChainInv, LookupsEnd

LEMMA InitChain == Init => ChainInv
<1> SUFFICES ASSUME Init PROVE ChainInv
  OBVIOUS
<1>1. IInv /\ stack = <<>> /\ Len(stack) = 0 /\ Depth = 0 /\ status = "running"
  BY InitHolds DEF Init, Depth
<1>2. ScopesApart
  BY <1>1, ScopesAssumption DEF Init, NewFunction, ScopesApart
<1>3. scopes[Global].parent = None
  <2>1. scopes[Global] = [NewScope EXCEPT !.declared = Main]
    BY ScopesAssumption DEF Init
  <2> QED
    BY <2>1 DEF NewScope
<1>4. Chain(scopes, stack)
  <2>1. \A d \in 0 .. Len(stack) : d = 0 /\ Link(stack, d) = Global /\ Link(stack, d - 1) = None
    BY <1>1 DEF Link
  <2> QED
    BY <1>1, <1>3, <2>1 DEF Chain, IInv, TypeOK
<1>5. ValuesKept(scopes, stack)
  BY <1>1 DEF ValuesKept
<1> QED
  BY <1>1, <1>2, <1>4, <1>5 DEF ChainInv, LookupsEnd

LEMMA StepKeepsChain ==
  ASSUME ChainInv, [Next]_vars
  PROVE  ChainInv'
<1>1. IInv'
  BY StepKeeps DEF ChainInv
<1>2. ASSUME NEW f \in functions, NEW s \in ScopesFor(f), Call(f, s)
      PROVE  ChainInv'
  BY <1>1, <1>2, CallKeepsChain
<1>3. CASE Assign
  BY <1>1, <1>3, AssignKeepsChain
<1>4. \A f \in functions : f.scope # Global
  BY DEF ChainInv, ScopesApart
<1>5. CASE Return
  BY <1>1, <1>4, <1>5, PopKeepsChain DEF Return
<1>6. ASSUME NEW f \in functions, ReturnFunction(f)
      PROVE  ChainInv'
  <2> DEFINE g == [f EXCEPT !.scope = Ctx]
             fs == (functions \ {f}) \cup {g}
  <2>1. Pop(fs) /\ stack # <<>>
    BY <1>6 DEF ReturnFunction, Pop
  <2>2. Ctx # Global
    <3>1. Depth \in 1 .. Depth
      BY <2>1, Calls DEF ChainInv, IInv
    <3> QED
      BY <2>1, <3>1 DEF Ctx, Top, ChainInv, ScopesApart
  <2>3. f \in FunctionObject
    BY DEF ChainInv, IInv, TypeOK
  <2>4. g.scope # Global
    BY <2>2, <2>3 DEF FunctionObject
  <2> HIDE DEF g
  <2>5. \A h \in fs : h.scope # Global
    BY <1>4, <2>4
  <2> HIDE DEF fs
  <2> QED
    BY <1>1, <2>1, <2>5, PopKeepsChain
<1>7. CASE LookupHangs
  <2>1. /\ UNCHANGED <<scopes, stack, functions>> /\ reentered' = reentered
        /\ ~ Ends(scopes, Ctx, {Global})
    BY <1>7 DEF LookupHangs, Hang
  <2>2. ASSUME ~ reentered PROVE FALSE
    <3>1. Chain(scopes, stack)
      BY <2>2 DEF ChainInv
    <3>2. Ctx = Link(stack, Depth) /\ Depth \in 0 .. Len(stack)
      BY InnermostLink DEF ChainInv, IInv, TypeOK, Depth
    <3> QED
      BY <2>1, <3>1, <3>2, ChainEnds
  <2> QED
    BY <1>1, <2>1, <2>2, ChainInvSame
<1>8. CASE PassInner \/ UNCHANGED vars
  <2>1. UNCHANGED <<scopes, stack, functions>> /\ reentered' = reentered /\ status' = status
    BY <1>8 DEF PassInner, vars
  <2>2. status' = "hangs" => reentered
    BY <2>1 DEF ChainInv, LookupsEnd
  <2> QED
    BY <1>1, <2>1, <2>2, ChainInvSame
<1> QED
  BY <1>2, <1>3, <1>5, <1>6, <1>7, <1>8 DEF Next

-----------------------------------------------------------------------------
(* The theorems.                                                           *)

(* The inductive invariant holds of every reachable state. *)
THEOREM Invariant == Spec => []IInv
BY InitHolds, StepKeeps, PTL DEF Spec

(* A function sees its own argument in its parameter, whatever functions   *)
(* and closures it calls and whatever names their parameters and variables *)
(* have, unless a later call was given its scope, or stored outside its    *)
(* own in a variable of that name, or this is its own variable's name.     *)
THEOREM ParamsCorrect == Spec => []ParamsAreArguments
<1>1. IInv => ParamsAreArguments
  BY DEF IInv, ParamsKept, ParamsAreArguments, Depth
<1> QED
  BY <1>1, Invariant, PTL

(* Every call of a function with a parameter finds its inner function.     *)
THEOREM InnerCorrect == Spec => []InnerDeclared
<1>1. IInv => InnerDeclared
  BY DEF IInv
<1> QED
  BY <1>1, Invariant, PTL

(* Lookups end, however closures are made, returned, stored and called     *)
(* from one another's scopes, unless one was called while a call still     *)
(* used its scope: the scopes of the open calls are a chain of parents     *)
(* that ends in the global object.                                         *)
THEOREM LookupsDoEnd == Spec => []LookupsEnd
<1>1. Spec => []ChainInv
  BY InitChain, StepKeepsChain, PTL DEF Spec
<1>2. ChainInv => LookupsEnd
  BY DEF ChainInv
<1> QED
  BY <1>1, <1>2, PTL

(* A function finds in its variable what it has stored there, wherever     *)
(* that is, unless it has called one with a variable of the same name that *)
(* has been called before and has none in its own scope now.               *)
THEOREM VariablesKept == Spec => []VariablesKeepValues
<1>1. Spec => []ChainInv
  BY InitChain, StepKeepsChain, PTL DEF Spec
<1>2. ChainInv => VariablesKeepValues
  <2> SUFFICES ASSUME ChainInv, NEW d \in 1 .. Depth, stack[d].stored, ~ reentered
               PROVE  Lookup(scopes, stack[d].scope, Variable[stack[d].node]) = d
    BY DEF VariablesKeepValues
  <2> DEFINE x == Variable[stack[d].node]
  <2>1. Chain(scopes, stack) /\ KeptAt(scopes, stack, d)
    BY DEF ChainInv, ValuesKept, Depth
  <2>2. PICK e \in 0 .. d : Stops(stack, Having(scopes, x), d, e) /\ scopes[Link(stack, e)].props[x] = d
    BY <2>1 DEF KeptAt
  <2>3. /\ Depth \in Nat /\ Len(stack) = Depth /\ d \in 0 .. Len(stack) /\ e \in 0 .. Len(stack)
        /\ Link(stack, d) = stack[d].scope /\ Link(stack, e) # None
    <3>1. /\ Len(stack) \in Nat
          /\ \A j \in 0 .. Len(stack) : Link(stack, j) # None
          /\ \A j \in 1 .. Len(stack) : Link(stack, j) = stack[j].scope
      BY <2>1, Links DEF Chain
    <3> QED
      BY <3>1 DEF Depth
  <2> HIDE DEF x
  <2>4. Reached(scopes, stack[d].scope, Having(scopes, x)) = Link(stack, e)
    BY <2>1, <2>2, <2>3, Walk
  <2> QED
    BY <2>2, <2>3, <2>4 DEF Lookup, x
<1> QED
  BY <1>1, <1>2, PTL
=============================================================================
