-------------------------- MODULE StatementsProofs --------------------------
(***************************************************************************)
(* Theorems about statement lists and signals (Statements.tla), for every  *)
(* program of the kinds of statements and any number of calls.             *)
(***************************************************************************)
EXTENDS Statements, DataLemmas, TLAPS, SequenceTheorems

TypeOK ==
  /\ prog \in [Block -> Seq(Kind)]
  /\ prog["main"] \in [1 .. 2 -> MainKinds]
  /\ prog["f"] \in [1 .. 2 -> FKinds]
  /\ prog["block"] \in [1 .. 2 -> BlockKinds]
  /\ prog["default"] = <<"plain">>
  /\ cursor \in [List -> 0 .. 2]
  /\ cstack \in Seq(Activation)
  /\ result \in Value \cup {NULL}
  /\ xflag \in BOOLEAN

-----------------------------------------------------------------------------
(* The stack.                                                              *)

LEMMA TopAndBelow ==
  ASSUME TypeOK, cstack # <<>>
  PROVE  /\ Depth \in Nat \ {0} /\ Top \in Activation
         /\ Below \in Seq(Activation) /\ Len(Below) = Depth - 1
         /\ \A d \in 1 .. Depth - 1 : Below[d] = cstack[d]
<1>1. cstack \in Seq(Activation)
  BY DEF TypeOK
<1>2. Len(cstack) \in Nat \ {0}
  BY <1>1, EmptySeq
<1>3. Len(cstack) - 1 \in 0 .. Len(cstack) /\ Len(cstack) \in 1 .. Len(cstack)
  BY <1>2
<1>4. cstack[Len(cstack)] \in Activation
  BY <1>1, <1>3, ElementOfSeq
<1> QED
  BY <1>1, <1>2, <1>3, <1>4, Prefix DEF Depth, Top, Below

(* The stack with another activation at its top. *)
LEMMA TopReplaced ==
  ASSUME TypeOK, cstack # <<>>, NEW a \in Activation
  PROVE  /\ Append(Below, a) \in Seq(Activation) /\ Len(Append(Below, a)) = Depth
         /\ \A d \in 1 .. Depth - 1 : Append(Below, a)[d] = cstack[d]
         /\ Append(Below, a)[Depth] = a
<1>1. /\ Depth \in Nat \ {0}
      /\ Below \in Seq(Activation) /\ Len(Below) = Depth - 1
      /\ \A d \in 1 .. Depth - 1 : Below[d] = cstack[d]
  BY TopAndBelow
<1> HIDE DEF Below, Depth
<1>2. /\ Append(Below, a) \in Seq(Activation) /\ Len(Append(Below, a)) = Len(Below) + 1
      /\ \A d \in 1 .. Len(Below) : Append(Below, a)[d] = Below[d]
      /\ Append(Below, a)[Len(Below) + 1] = a
  BY <1>1, AppendProperties
<1> QED
  BY <1>1, <1>2

LEMMA Appended ==
  ASSUME NEW s \in Seq(Activation), NEW a \in Activation
  PROVE  /\ Append(s, a) \in Seq(Activation) /\ Len(Append(s, a)) = Len(s) + 1
         /\ \A d \in 1 .. Len(s) : Append(s, a)[d] = s[d]
         /\ Append(s, a)[Len(s) + 1] = a
BY AppendProperties

LEMMA StartedType == \A l \in Block : Started(l) \in Activation
BY DEF Started, Activation, Block, Value

(* A list that begins a statement is a list still. *)
LEMMA ReadyTop ==
  ASSUME TypeOK, NEW k, Ready(k)
  PROVE  /\ result = NULL /\ cstack # <<>>
         /\ Top \in [kind : {"list"}, list : Block, child : 0 .. 2, last : Value]
         /\ cursor[Top.list] \in 0 .. 1
         /\ [Top EXCEPT !.child = cursor[Top.list] + 1]
              \in [kind : {"list"}, list : Block, child : 0 .. 2, last : Value]
         /\ [Top EXCEPT !.child = cursor[Top.list] + 1].list = Top.list
         /\ [Top EXCEPT !.child = cursor[Top.list] + 1].child = cursor[Top.list] + 1
         /\ Marked \in [List -> 0 .. 2]
         /\ k = prog[Top.list][cursor[Top.list] + 1]
<1>1. cstack # <<>> /\ Top.kind = "list" /\ result = NULL
  BY DEF Ready
<1>2. Top \in Activation
  BY <1>1, TopAndBelow
<1> HIDE DEF Top
<1>3. Top \in [kind : {"list"}, list : Block, child : 0 .. 2, last : Value]
  BY <1>1, <1>2 DEF Activation
<1>4. Top.list \in Block /\ Top.list \in List
  BY <1>3 DEF List
<1>5. Length(Top.list) \in 1 .. 2 /\ cursor \in [List -> 0 .. 2] /\ cursor[Top.list] < Length(Top.list)
  BY DEF Length, TypeOK, Ready
<1>6. cursor[Top.list] \in 0 .. 1 /\ cursor[Top.list] + 1 \in 0 .. 2
  BY <1>4, <1>5
<1>7. Marked \in [List -> 0 .. 2]
  BY <1>4, <1>5, <1>6 DEF Marked
<1>8. k = prog[Top.list][cursor[Top.list] + 1]
  BY DEF Ready
<1> QED
  BY <1>1, <1>3, <1>6, <1>7, <1>8

(* What the stack is once the list at its top has begun a statement. *)
LEMMA AtChildStack ==
  ASSUME TypeOK, NEW k, Ready(k)
  PROVE  /\ AtChild \in Seq(Activation) /\ Len(AtChild) = Depth
         /\ \A d \in 1 .. Depth - 1 : AtChild[d] = cstack[d]
         /\ AtChild[Depth] = [Top EXCEPT !.child = cursor[Top.list] + 1]
<1>1. [Top EXCEPT !.child = cursor[Top.list] + 1] \in Activation /\ cstack # <<>>
  BY ReadyTop DEF Activation
<1> DEFINE a == [Top EXCEPT !.child = cursor[Top.list] + 1]
<1> HIDE DEF a
<1>2. /\ Append(Below, a) \in Seq(Activation) /\ Len(Append(Below, a)) = Depth
      /\ \A d \in 1 .. Depth - 1 : Append(Below, a)[d] = cstack[d]
      /\ Append(Below, a)[Depth] = a
  <2>1. a \in Activation
    BY <1>1 DEF a
  <2> QED
    BY <1>1, <2>1, TopReplaced
<1> QED
  BY <1>2 DEF AtChild, a

(* A return looks at the kinds only, which no statement changes. *)
LEMMA BelowKinds ==
  ASSUME TypeOK, cstack # <<>>
  PROVE  /\ Below \in Seq(Activation) /\ Len(Below) <= Depth
         /\ \A d \in 1 .. Len(Below) : Below[d].kind = cstack[d].kind
<1>1. /\ Depth \in Nat \ {0} /\ Below \in Seq(Activation) /\ Len(Below) = Depth - 1
      /\ \A d \in 1 .. Depth - 1 : Below[d] = cstack[d]
  BY TopAndBelow
<1> HIDE DEF Below, Depth
<1> QED
  BY <1>1

LEMMA AtChildKinds ==
  ASSUME TypeOK, NEW k, Ready(k)
  PROVE  /\ AtChild \in Seq(Activation) /\ Len(AtChild) <= Depth
         /\ \A d \in 1 .. Len(AtChild) : AtChild[d].kind = cstack[d].kind
<1>1. /\ AtChild \in Seq(Activation) /\ Len(AtChild) = Depth
      /\ \A d \in 1 .. Depth - 1 : AtChild[d] = cstack[d]
      /\ AtChild[Depth] = [Top EXCEPT !.child = cursor[Top.list] + 1]
  BY AtChildStack
<1>2. AtChild[Depth].kind = cstack[Depth].kind /\ cstack # <<>>
  BY <1>1, ReadyTop DEF Top
<1>3. Depth \in Nat \ {0}
  BY <1>2, TopAndBelow
<1> HIDE DEF AtChild, Depth
<1>4. Depth <= Depth /\ \A d \in 1 .. Depth : d \in 1 .. Depth - 1 \/ d = Depth
  BY <1>3
<1> QED
  BY <1>1, <1>2, <1>4

(* What a return leaves of an activation: a call may be marked, and nothing else changes. *)
SameButReturned(a, b) ==
  /\ a.kind = b.kind
  /\ a.kind # "call" => a = b

Innermost(d) == d \in Calls /\ \A e \in Calls : e <= d

EndedBy(d) ==
  IF \E e \in d + 1 .. Depth : cstack[e].kind \in {"while", "try", "switch"}
    THEN "inside" ELSE "directly"

LEMMA ReturnedStack ==
  ASSUME TypeOK, NEW s \in Seq(Activation), Len(s) <= Depth,
         \A d \in 1 .. Len(s) : s[d].kind = cstack[d].kind
  PROVE  /\ Returned(s) \in Seq(Activation) /\ Len(Returned(s)) = Len(s)
         /\ \A d \in 1 .. Len(s) : SameButReturned(s[d], Returned(s)[d])
         /\ \A d \in 1 .. Len(s) : ~ Innermost(d) => Returned(s)[d] = s[d]
         /\ \A d \in 1 .. Len(s) : Innermost(d) => Returned(s)[d].returned = EndedBy(d)
<1>1. Len(s) \in Nat /\ DOMAIN s = 1 .. Len(s) /\ Len(cstack) \in Nat
  BY LenProperties DEF TypeOK
<1>2. ASSUME NEW d \in 1 .. Len(s)
      PROVE  /\ Returned(s)[d] \in Activation
             /\ SameButReturned(s[d], Returned(s)[d])
             /\ ~ Innermost(d) => Returned(s)[d] = s[d]
             /\ Innermost(d) => Returned(s)[d].returned = EndedBy(d)
  <2>1. s[d] \in Activation
    BY ElementOfSeq
  <2>2. Returned(s)[d] = IF Innermost(d) THEN [s[d] EXCEPT !.returned = EndedBy(d)] ELSE s[d]
    BY <1>1 DEF Returned, Innermost, EndedBy
  <2>3. CASE ~ Innermost(d)
    BY <2>1, <2>2, <2>3 DEF SameButReturned
  <2>4. CASE Innermost(d)
    <3>1. s[d].kind = "call" /\ EndedBy(d) \in {"no", "directly", "inside"}
      BY <2>4 DEF Innermost, Calls, EndedBy
    <3> DEFINE r == EndedBy(d)
    <3> HIDE DEF r
    <3>2. s[d] \in [kind : {"call"}, returned : {"no", "directly", "inside"}]
      BY <2>1, <3>1 DEF Activation
    <3>3. r \in {"no", "directly", "inside"}
      BY <3>1 DEF r
    <3>4. /\ [s[d] EXCEPT !.returned = r] \in [kind : {"call"}, returned : {"no", "directly", "inside"}]
          /\ [s[d] EXCEPT !.returned = r].kind = "call" /\ [s[d] EXCEPT !.returned = r].returned = r
      BY <3>2, <3>3
    <3>5. Returned(s)[d] = [s[d] EXCEPT !.returned = r]
      BY <2>2, <2>4 DEF r
    <3> QED
      BY <2>4, <3>1, <3>4, <3>5 DEF Activation, SameButReturned, r
  <2> QED
    BY <2>3, <2>4
<1>3. Returned(s) \in [1 .. Len(s) -> Activation]
  <2>1. DOMAIN Returned(s) = 1 .. Len(s) /\ Returned(s) = [d \in 1 .. Len(s) |-> Returned(s)[d]]
    BY <1>1 DEF Returned
  <2> QED
    BY <1>2, <2>1
<1> QED
  BY <1>1, <1>2, <1>3, FunctionIsSeq

-----------------------------------------------------------------------------
(* Types.                                                                  *)

LEMMA ReceivingTop ==
  ASSUME TypeOK, cstack # <<>>, Top.kind = "list", NEW v \in Value
  PROVE  /\ Top \in [kind : {"list"}, list : Block, child : 0 .. 2, last : Value]
         /\ [Top EXCEPT !.last = v] \in [kind : {"list"}, list : Block, child : 0 .. 2, last : Value]
         /\ [Top EXCEPT !.last = v].list = Top.list
         /\ [Top EXCEPT !.last = v].child = Top.child
<1>1. Top \in Activation
  BY TopAndBelow
<1> HIDE DEF Top
<1>2. Top \in [kind : {"list"}, list : Block, child : 0 .. 2, last : Value]
  BY <1>1 DEF Activation
<1> QED
  BY <1>2

LEMMA SwitchTop ==
  ASSUME TypeOK, In("switch"), NEW m \in {Top.matched, TRUE}
  PROVE  /\ cstack # <<>> /\ Top.kind = "switch"
         /\ [Top EXCEPT !.matched = m] \in [kind : {"switch"}, matched : BOOLEAN]
<1>1. Top \in Activation /\ cstack # <<>> /\ Top.kind = "switch"
  BY TopAndBelow DEF In
<1> HIDE DEF Top
<1>2. Top \in [kind : {"switch"}, matched : BOOLEAN]
  BY <1>1 DEF Activation
<1> QED
  BY <1>1, <1>2

(* A list is entered: the activation that waits for it comes below it. *)
LEMMA Entered ==
  ASSUME NEW l \in Block, NEW outer \in Seq(Activation),
         NEW visited \in [List -> 0 .. 2], Enter(l, outer, visited)
  PROVE  /\ cstack' \in Seq(Activation) /\ Len(cstack') = Len(outer) + 1
         /\ \A d \in 1 .. Len(outer) : cstack'[d] = outer[d]
         /\ cstack'[Len(outer) + 1] = Started(l)
         /\ cursor' \in [List -> 0 .. 2]
         /\ \A k \in List : cursor'[k] = IF k = l THEN 0 ELSE visited[k]
<1>1. Started(l) \in Activation
  BY StartedType
<1>2. cstack' = Append(outer, Started(l)) /\ cursor' = [visited EXCEPT ![l] = 0]
  BY DEF Enter
<1>3. /\ Append(outer, Started(l)) \in Seq(Activation) /\ Len(Append(outer, Started(l))) = Len(outer) + 1
      /\ \A d \in 1 .. Len(outer) : Append(outer, Started(l))[d] = outer[d]
      /\ Append(outer, Started(l))[Len(outer) + 1] = Started(l)
  BY <1>1, Appended
<1>4. [visited EXCEPT ![l] = 0] \in [List -> 0 .. 2]
  <2>1. 0 \in 0 .. 2
    OBVIOUS
  <2> QED
    BY <2>1
<1>5. \A k \in List : [visited EXCEPT ![l] = 0][k] = IF k = l THEN 0 ELSE visited[k]
  <2>1. DOMAIN visited = List /\ l \in List
    BY DEF List
  <2> QED
    BY <2>1
<1> QED
  BY <1>2, <1>3, <1>4, <1>5

(* The lists of the tree are no state. *)
LEMMA ProgStays == [Next]_vars => UNCHANGED prog
BY DEF Next, vars, Plain, Assign, Read, IfBreak, BindNative, Jump, Return, CallF, EndCall, ReturnCall,
       Bind, Receive, EndList, If, StartWhile, StartTry, StartSwitch, WhileTest, WhileBody, EndTry,
       SwitchTest, SwitchEnd, SwitchBody, Ended, Evaluates

(* What a step may put on the stack, in the cursors and in the result. *)
StateType ==
  /\ cursor \in [List -> 0 .. 2]
  /\ cstack \in Seq(Activation)
  /\ result \in Value \cup {NULL}
  /\ xflag \in BOOLEAN

LEMMA InitType == Init => TypeOK
<1> SUFFICES ASSUME Init PROVE TypeOK
  OBVIOUS
<1>1. PICK m \in [1 .. 2 -> MainKinds], f \in [1 .. 2 -> FKinds], b \in [1 .. 2 -> BlockKinds] :
        prog = [l \in Block |-> CASE l = "main" -> m [] l = "f" -> f
                                  [] l = "block" -> b [] OTHER -> <<"plain">>]
  BY DEF Init
<1>2. /\ prog["main"] = m /\ prog["f"] = f /\ prog["block"] = b /\ prog["default"] = <<"plain">>
  BY <1>1 DEF Block
<1>3. Started("main") \in Activation
  BY StartedType DEF Block
<1>4. <<Started("main")>> \in Seq(Activation)
  BY <1>3
<1>5. cstack \in Seq(Activation)
  BY <1>4 DEF Init
<1>6. cursor \in [List -> 0 .. 2] /\ result \in Value \cup {NULL} /\ xflag \in BOOLEAN
  <2>1. cursor = [l \in List |-> 0] /\ result = NULL /\ xflag = FALSE
    BY DEF Init
  <2>2. [l \in List |-> 0] \in [List -> 0 .. 2]
    OBVIOUS
  <2>3. xflag \in BOOLEAN
    BY <2>1
  <2> QED
    BY <2>1, <2>2, <2>3
<1>7. prog \in [Block -> Seq(Kind)]
  <2>1. m \in Seq(Kind) /\ f \in Seq(Kind) /\ b \in Seq(Kind)
    <3>1. MainKinds \subseteq Kind /\ FKinds \subseteq Kind /\ BlockKinds \subseteq Kind
      BY StatementsAssumption
    <3>2. m \in [1 .. 2 -> Kind] /\ f \in [1 .. 2 -> Kind] /\ b \in [1 .. 2 -> Kind]
      BY <3>1
    <3> QED
      BY <3>2, FunctionIsSeq
  <2>2. <<"plain">> \in Seq(Kind)
    BY DEF Kind
  <2>3. \A l \in Block : prog[l] \in Seq(Kind)
    BY <1>1, <2>1, <2>2
  <2>4. prog = [l \in Block |-> prog[l]]
    BY <1>1
  <2> QED
    BY <2>3, <2>4
<1> QED
  BY <1>2, <1>5, <1>6, <1>7 DEF TypeOK

LEMMA NullIsNoValue == NULL \notin Value
BY StatementsAssumption DEF Value, Kind

LEMMA TypeStep == TypeOK /\ [Next]_vars => TypeOK'
<1> SUFFICES ASSUME TypeOK, [Next]_vars PROVE TypeOK'
  OBVIOUS
<1>types. /\ cursor \in [List -> 0 .. 2] /\ cstack \in Seq(Activation)
          /\ result \in Value \cup {NULL} /\ xflag \in BOOLEAN
  BY DEF TypeOK
<1>values. {"plain", "break", "x"} \subseteq Value
  BY DEF Value
<1> SUFFICES StateType'
  BY ProgStays DEF TypeOK, StateType
<1>evaluates. ASSUME NEW k, Ready(k), NEW v \in Value, Evaluates(v), xflag' \in BOOLEAN
              PROVE  StateType'
  BY <1>evaluates, ReadyTop, AtChildStack DEF Evaluates, StateType
<1>1. CASE Plain
  BY <1>1, <1>types, <1>values, <1>evaluates DEF Plain
<1>2. CASE Assign
  BY <1>2, <1>types, <1>values, <1>evaluates DEF Assign
<1>3. CASE Read
  BY <1>3, <1>types, <1>values, <1>evaluates DEF Read
<1>4. CASE IfBreak
  BY <1>4, <1>types, <1>values, <1>evaluates DEF IfBreak
<1>5. CASE BindNative
  BY <1>5, <1>types, <1>values, <1>evaluates DEF BindNative
<1>6. CASE Jump
  <2>1. PICK k : Ready(k) /\ result' \in Value
    BY <1>6, <1>values DEF Jump
  <2>2. Below \in Seq(Activation) /\ Marked \in [List -> 0 .. 2]
    BY <2>1, ReadyTop, TopAndBelow
  <2> QED
    BY <1>6, <1>types, <2>1, <2>2 DEF Jump, StateType
<1>flag. ASSUME NEW v \in Value, Flag(v) PROVE result' \in Value /\ xflag' \in BOOLEAN
  BY <1>flag, <1>types DEF Flag, Value
<1>7. CASE Return
  <2>1. PICK k \in Kind, v \in Value : Ready(k) /\ Flag(v) /\ cstack' \in {Returned(Below), Returned(AtChild)}
    <3>1. {"return", "tail", "returnX", "ifReturn"} \subseteq Kind
      BY DEF Kind
    <3> QED
      BY <1>7, <1>values, <3>1 DEF Return
  <2>2. Marked \in [List -> 0 .. 2] /\ cstack # <<>>
    BY <2>1, ReadyTop
  <2>3. Returned(Below) \in Seq(Activation)
    BY <2>2, BelowKinds, ReturnedStack
  <2>4. Returned(AtChild) \in Seq(Activation)
    BY <2>1, AtChildKinds, ReturnedStack
  <2> QED
    BY <1>7, <1>flag, <2>1, <2>2, <2>3, <2>4 DEF Return, StateType
<1>8. CASE CallF
  <2> DEFINE call == [kind |-> "call", returned |-> "no"]
  <2>1. PICK k : Ready(k)
    BY <1>8 DEF CallF
  <2>2. AtChild \in Seq(Activation) /\ Marked \in [List -> 0 .. 2] /\ call \in Activation
    BY <2>1, ReadyTop, AtChildStack DEF Activation
  <2> HIDE DEF call
  <2>3. Append(AtChild, call) \in Seq(Activation)
    BY <2>2, Appended
  <2>4. Enter("f", Append(AtChild, call), Marked)
    BY <1>8 DEF CallF, call
  <2>5. cstack' \in Seq(Activation) /\ cursor' \in [List -> 0 .. 2]
    BY <2>2, <2>3, <2>4, Entered DEF Block
  <2> QED
    BY <1>8, <1>types, <2>5 DEF CallF, StateType
<1>9. CASE EndCall
  BY <1>9, <1>types, TopAndBelow DEF EndCall, StateType
<1>10. CASE ReturnCall
  <2>1. result \in Value /\ cstack # <<>>
    BY <1>10, <1>types DEF ReturnCall, Receives
  <2>2. Returned(Below) \in Seq(Activation)
    BY <2>1, BelowKinds, ReturnedStack
  <2> QED
    BY <1>10, <1>types, <1>flag, <2>1, <2>2 DEF ReturnCall, StateType
<1>goesOn. ASSUME cstack # <<>>, Top.kind = "list", NEW v \in Value, GoOn(v), UNCHANGED cursor, xflag' \in BOOLEAN
           PROVE  StateType'
  <2>1. [Top EXCEPT !.last = v] \in Activation
    BY <1>goesOn, ReceivingTop DEF Activation
  <2> DEFINE a == [Top EXCEPT !.last = v]
  <2> HIDE DEF a
  <2>2. Append(Below, a) \in Seq(Activation)
    BY <1>goesOn, <2>1, TopReplaced DEF a
  <2> QED
    BY <1>goesOn, <1>types, <2>2 DEF GoOn, StateType, a
<1>flagged. Flagged(result) \in BOOLEAN
  BY <1>types DEF Flagged
<1>11. CASE Bind
  BY <1>11, <1>types, <1>values, <1>goesOn, <1>flagged DEF Bind, Receives
<1>12. CASE Receive
  <2>1. result \in Value /\ cstack # <<>> /\ Top.kind = "list"
    BY <1>12, <1>types DEF Receive, Receives
  <2>2. CASE Flagged(result)
    BY <1>12, <1>types, <2>1, <2>2, TopAndBelow DEF Receive, StateType
  <2>3. CASE ~ Flagged(result)
    BY <1>12, <1>types, <1>goesOn, <2>1, <2>3 DEF Receive
  <2> QED
    BY <2>2, <2>3
<1>13. CASE EndList
  <2>1. cstack # <<>> /\ Top.kind = "list" /\ Top.last \in Value
    BY <1>13, <1>values, ReceivingTop DEF EndList
  <2> QED
    BY <1>13, <1>types, <2>1, TopAndBelow DEF EndList, StateType
<1>14. CASE If
  <2>1. AtChild \in Seq(Activation) /\ Marked \in [List -> 0 .. 2] /\ Enter("block", AtChild, Marked)
    BY <1>14, ReadyTop, AtChildStack DEF If
  <2>2. cstack' \in Seq(Activation) /\ cursor' \in [List -> 0 .. 2]
    BY <2>1, Entered DEF Block
  <2> QED
    BY <1>14, <1>types, <2>2 DEF If, StateType
<1>15. CASE StartWhile
  <2> DEFINE a == [kind |-> "while"]
  <2>1. AtChild \in Seq(Activation) /\ Marked \in [List -> 0 .. 2] /\ a \in Activation
    BY <1>15, ReadyTop, AtChildStack DEF StartWhile, Activation
  <2> HIDE DEF a
  <2>2. Append(AtChild, a) \in Seq(Activation)
    BY <2>1, Appended
  <2> QED
    BY <1>15, <1>types, <2>1, <2>2 DEF StartWhile, StateType, a
<1>16. CASE StartTry
  <2> DEFINE a == [kind |-> "try"]
  <2>1. AtChild \in Seq(Activation) /\ Marked \in [List -> 0 .. 2] /\ a \in Activation
    BY <1>16, ReadyTop, AtChildStack DEF StartTry, Activation
  <2> HIDE DEF a
  <2>2. Append(AtChild, a) \in Seq(Activation)
    BY <2>1, Appended
  <2>3. Enter("block", Append(AtChild, a), Marked)
    BY <1>16 DEF StartTry, a
  <2>4. cstack' \in Seq(Activation) /\ cursor' \in [List -> 0 .. 2]
    BY <2>1, <2>2, <2>3, Entered DEF Block
  <2> QED
    BY <1>16, <1>types, <2>4 DEF StartTry, StateType
<1>17. CASE StartSwitch
  <2> DEFINE a == [kind |-> "switch", matched |-> FALSE]
  <2>1. AtChild \in Seq(Activation) /\ Marked \in [List -> 0 .. 2] /\ a \in Activation
    BY <1>17, ReadyTop, AtChildStack DEF StartSwitch, Activation
  <2> HIDE DEF a
  <2>2. Append(AtChild, a) \in Seq(Activation)
    BY <2>1, Appended
  <2> QED
    BY <1>17, <1>types, <2>1, <2>2 DEF StartSwitch, StateType, a
<1>below. cstack # <<>> => Below \in Seq(Activation)
  BY TopAndBelow
<1>18. CASE WhileTest
  <2>1. CASE Enter("block", cstack, cursor) /\ UNCHANGED result
    BY <1>18, <1>types, <2>1, Entered DEF WhileTest, StateType, Block
  <2>2. CASE result' = "plain" /\ cstack' = Below /\ UNCHANGED cursor
    BY <1>18, <1>types, <1>values, <1>below, <2>2 DEF WhileTest, StateType, In
  <2> QED
    BY <1>18, <2>1, <2>2 DEF WhileTest
<1>19. CASE WhileBody
  BY <1>19, <1>types, <1>values, <1>below DEF WhileBody, StateType, In
<1>20. CASE EndTry
  BY <1>20, <1>types, <1>values, <1>below DEF EndTry, StateType, In
<1>21. CASE SwitchTest
  <2>1. PICK m \in {Top.matched, TRUE} :
          LET now == Append(Below, [Top EXCEPT !.matched = m])
              visited == [cursor EXCEPT !["clauses"] = @ + 1]
          IN  IF m /\ cursor["clauses"] = 0
                THEN Enter("block", now, visited)
                ELSE cstack' = now /\ cursor' = visited
    BY <1>21 DEF SwitchTest
  <2> DEFINE a == [Top EXCEPT !.matched = m]
             visited == [cursor EXCEPT !["clauses"] = @ + 1]
  <2>2. cstack # <<>> /\ a \in Activation
    BY <1>21, SwitchTop DEF SwitchTest, Activation
  <2>3. visited \in [List -> 0 .. 2]
    <3>1. cursor["clauses"] + 1 \in 0 .. 2
      BY <1>21, <1>types DEF SwitchTest, NumClauses, List
    <3> QED
      BY <1>types, <3>1 DEF List
  <2> HIDE DEF a, visited
  <2>4. Append(Below, a) \in Seq(Activation)
    BY <2>2, TopReplaced
  <2>5. \/ Enter("block", Append(Below, a), visited)
        \/ cstack' = Append(Below, a) /\ cursor' = visited
    BY <2>1 DEF a, visited
  <2>6. cstack' \in Seq(Activation) /\ cursor' \in [List -> 0 .. 2]
    BY <2>3, <2>4, <2>5, Entered DEF Block
  <2> QED
    BY <1>21, <1>types, <2>6 DEF SwitchTest, StateType
<1>22. CASE SwitchEnd
  <2>1. CASE result' = "plain" /\ cstack' = Below /\ UNCHANGED cursor
    BY <1>22, <1>types, <1>values, <1>below, <2>1 DEF SwitchEnd, StateType, In
  <2>2. CASE Enter("default", Below, cursor) /\ UNCHANGED result
    <3>1. cstack' \in Seq(Activation) /\ cursor' \in [List -> 0 .. 2]
      BY <1>22, <1>types, <1>below, <2>2, Entered DEF SwitchEnd, In, Block
    <3> QED
      BY <1>22, <1>types, <2>2, <3>1 DEF SwitchEnd, StateType
  <2> QED
    BY <1>22, <2>1, <2>2 DEF SwitchEnd
<1>23. CASE SwitchBody
  <2>1. result \in Value /\ Below \in Seq(Activation)
    BY <1>23, <1>types, <1>below DEF SwitchBody, In
  <2>2. (xflag /\ result # "x") \in BOOLEAN
    BY <1>types
  <2> QED
    BY <1>23, <1>types, <1>values, <2>1, <2>2 DEF SwitchBody, StateType
<1>24. CASE UNCHANGED vars
  BY <1>24, <1>types DEF vars, StateType
<1> QED
  BY <1>1, <1>2, <1>3, <1>4, <1>5, <1>6, <1>7, <1>8, <1>9, <1>10, <1>11, <1>12, <1>13, <1>14, <1>15, <1>16,
     <1>17, <1>18, <1>19, <1>20, <1>21, <1>22, <1>23, <1>24 DEF Next, Ended

(* Every state is of the types above: no statement is looked for beyond    *)
(* the end of its list.                                                    *)
THEOREM TypeCorrect == Spec => []TypeOK
<1> QED
  BY InitType, TypeStep, PTL DEF Spec

-----------------------------------------------------------------------------
(* What lies above what on the stack.                                      *)

ChildIn(p, a) == p[a.list][a.child]

IsList(a, l) == a.kind = "list" /\ a.list = l

AwaitsIn(p, k, a) == a.kind = "list" /\ a.child \in 1 .. Length(a.list) /\ ChildIn(p, a) = k

(* b is what the statement of a, or the call or loop a, is evaluated by.   *)
(* The default clause comes in the place of its switch.                    *)
Above(p, a, b) ==
  \/ (\E k \in {"call", "bind", "tail"} : AwaitsIn(p, k, a)) /\ b.kind = "call"
  \/ AwaitsIn(p, "if", a) /\ IsList(b, "block")
  \/ (\E k \in {"while", "try", "switch"} : AwaitsIn(p, k, a) /\ b.kind = k)
  \/ AwaitsIn(p, "switch", a) /\ IsList(b, "default")
  \/ a.kind = "call" /\ IsList(b, "f")
  \/ a.kind \in {"while", "try", "switch"} /\ IsList(b, "block")

Nested(p, s) == \A d \in 1 .. Len(s) - 1 : Above(p, s[d], s[d + 1])

-----------------------------------------------------------------------------
(* The cursors.                                                            *)

(* RecursInReturns, of any program. *)
Recurs(p) ==
  /\ \A l \in {"f", "block"}, i \in 1 .. 2 : p[l][i] \notin {"call", "bind"}
  /\ (\E i \in 1 .. 2 : p["block"][i] = "tail")
       => \A i \in 1 .. 2 : p["f"][i] \notin {"while", "try", "switch"}

(* Leaving, of any stack; flagged if the value being returned is.          *)
LeavingIn(p, s, flagged, d) ==
  \/ AwaitsIn(p, "tail", s[d])
  \/ AwaitsIn(p, "if", s[d]) /\ IF d = Len(s) THEN flagged ELSE AwaitsIn(p, "tail", s[d + 1])

InPlace(c, a) == a.kind = "list" => c[a.list] = a.child

Ordered(p, c, s, flagged) ==
  /\ Nested(p, s)
  /\ Recurs(p) => \A d \in 1 .. Len(s) : LeavingIn(p, s, flagged, d) \/ InPlace(c, s[d])

IsFlagged == result # NULL /\ Flagged(result)

(* A list whose return f() has its value is left at once.                  *)
OrderInv ==
  /\ Ordered(prog, cursor, cstack, IsFlagged)
  /\ cstack # <<>> /\ AwaitsIn(prog, "tail", Top) => result # NULL

(* Where the kinds of statements can be: compound ones in f only.          *)
Shape(p) ==
  /\ \A l \in {"main", "block"}, i \in 1 .. 2 : p[l][i] \notin Compound
  /\ p["default"][1] = "plain"

LEMMA ProgShape == TypeOK => Shape(prog)
<1> SUFFICES ASSUME TypeOK PROVE Shape(prog)
  OBVIOUS
<1>1. ASSUME NEW i \in 1 .. 2 PROVE prog["main"][i] \notin Compound /\ prog["block"][i] \notin Compound
  BY <1>1, StatementsAssumption DEF TypeOK
<1> QED
  BY <1>1 DEF Shape, TypeOK

(* Nothing is above a default clause, and only calls above a block.        *)
LEMMA AboveLists ==
  ASSUME NEW p, Shape(p), NEW a, NEW b, Above(p, a, b)
  PROVE  /\ ~ IsList(a, "default") /\ ~ IsList(b, "main")
         /\ IsList(a, "block") => \E k \in {"call", "bind", "tail"} : AwaitsIn(p, k, a)
<1>1. ~ IsList(b, "main")
  BY DEF Above, IsList
<1>2. ASSUME a.kind = "list"
      PROVE  /\ a.child \in 1 .. Length(a.list)
             /\ ChildIn(p, a) \in {"call", "bind", "tail"} \cup Compound
  BY <1>2 DEF Above, AwaitsIn, Compound
<1>3. ~ IsList(a, "default")
  <2> SUFFICES ASSUME IsList(a, "default") PROVE FALSE
    OBVIOUS
  <2>1. a.child = 1 /\ a.kind = "list" /\ a.list = "default"
    BY <1>2 DEF IsList, Length
  <2>2. ChildIn(p, a) = "plain"
    BY <2>1 DEF ChildIn, Shape
  <2> QED
    BY <1>2, <2>1, <2>2 DEF Compound
<1>4. ASSUME IsList(a, "block") PROVE \E k \in {"call", "bind", "tail"} : AwaitsIn(p, k, a)
  <2>1. a.child \in 1 .. 2 /\ a.kind = "list" /\ a.list = "block"
    BY <1>2, <1>4 DEF IsList, Length
  <2>2. ChildIn(p, a) \notin Compound
    BY <2>1 DEF ChildIn, Shape
  <2> QED
    BY <1>2, <2>1, <2>2 DEF AwaitsIn
<1> QED
  BY <1>1, <1>3, <1>4

(* Of two activations of a list the lower one is leaving. *)
LEMMA LowerLeaves ==
  ASSUME NEW p, Shape(p), Recurs(p), NEW s \in Seq(Activation), Nested(p, s), NEW flagged,
         NEW d \in 1 .. Len(s), NEW e \in 1 .. Len(s), d < e,
         NEW l \in Block, IsList(s[d], l), IsList(s[e], l)
  PROVE  LeavingIn(p, s, flagged, d)
<1>1. Len(s) \in Nat /\ d \in 1 .. Len(s) - 1 /\ e - 1 \in 1 .. Len(s) - 1 /\ d # Len(s)
      /\ d + 1 \in 1 .. Len(s) /\ e - 1 + 1 = e
  BY LenProperties
<1>2. Above(p, s[d], s[d + 1])
  BY <1>1 DEF Nested
<1>block. ASSUME NEW n \in 1 .. Len(s) - 1, IsList(s[n], "block")
          PROVE  AwaitsIn(p, "tail", s[n]) /\ s[n].child \in 1 .. 2 /\ p["block"][s[n].child] = "tail"
  <2>1. Above(p, s[n], s[n + 1])
    BY <1>1 DEF Nested
  <2>2. PICK k \in {"call", "bind", "tail"} : AwaitsIn(p, k, s[n])
    BY <1>block, <2>1, AboveLists
  <2>3. s[n].list = "block" /\ s[n].child \in 1 .. 2 /\ p["block"][s[n].child] = k
    BY <1>block, <2>2 DEF IsList, AwaitsIn, ChildIn, Length
  <2>4. k = "tail"
    BY <2>3 DEF Recurs
  <2> QED
    BY <2>2, <2>3, <2>4
<1>3. CASE l = "main"
  <2>1. Above(p, s[e - 1], s[e])
    BY <1>1 DEF Nested
  <2> QED
    BY <1>3, <2>1, AboveLists
<1>4. CASE l = "default"
  BY <1>2, <1>4, AboveLists
<1>5. CASE l = "block"
  BY <1>1, <1>5, <1>block DEF LeavingIn
<1>6. CASE l = "f"
  <2>1. s[d].kind = "list" /\ s[d].list = "f"
    BY <1>6 DEF IsList
  <2>2. /\ s[d].child \in 1 .. 2
        /\ \/ ChildIn(p, s[d]) \in {"call", "bind", "tail"}
           \/ ChildIn(p, s[d]) = "if" /\ IsList(s[d + 1], "block")
           \/ ChildIn(p, s[d]) \in {"while", "try", "switch"}
                /\ (s[d + 1].kind \in {"while", "try", "switch"} \/ IsList(s[d + 1], "default"))
    BY <1>2, <2>1 DEF Above, AwaitsIn, Length
  <2>3. ChildIn(p, s[d]) = p["f"][s[d].child]
    BY <2>1 DEF ChildIn
  <2>4. AwaitsIn(p, ChildIn(p, s[d]), s[d])
    BY <2>1, <2>2 DEF AwaitsIn, Length
  <2>5. CASE ChildIn(p, s[d]) \in {"call", "bind", "tail"}
    <3>1. ChildIn(p, s[d]) = "tail"
      BY <2>2, <2>3, <2>5 DEF Recurs
    <3> QED
      BY <2>4, <3>1 DEF LeavingIn
  <2>6. CASE ChildIn(p, s[d]) = "if" /\ IsList(s[d + 1], "block")
    <3>1. e # d + 1
      BY <1>6, <2>6 DEF IsList
    <3>2. d + 1 \in 1 .. Len(s) - 1
      BY <1>1, <3>1
    <3>3. AwaitsIn(p, "tail", s[d + 1])
      BY <1>block, <2>6, <3>2
    <3> QED
      BY <1>1, <2>4, <2>6, <3>3 DEF LeavingIn
  <2>7. CASE /\ ChildIn(p, s[d]) \in {"while", "try", "switch"}
             /\ s[d + 1].kind \in {"while", "try", "switch"} \/ IsList(s[d + 1], "default")
    <3>1. e # d + 1
      BY <1>6, <2>7 DEF IsList
    <3>2. d + 1 \in 1 .. Len(s) - 1 /\ d + 1 + 1 \in 1 .. Len(s)
      BY <1>1, <3>1
    <3>3. Above(p, s[d + 1], s[d + 1 + 1])
      BY <3>2 DEF Nested
    <3>4. s[d + 1].kind \in {"while", "try", "switch"}
      BY <2>7, <3>3, AboveLists
    <3>5. IsList(s[d + 1 + 1], "block")
      BY <3>3, <3>4 DEF Above, AwaitsIn
    <3>6. e # d + 1 + 1
      BY <1>6, <3>5 DEF IsList
    <3>7. d + 1 + 1 \in 1 .. Len(s) - 1
      BY <1>1, <3>1, <3>2, <3>6
    <3>8. PICK i \in 1 .. 2 : p["block"][i] = "tail"
      BY <1>block, <3>5, <3>7
    <3>9. p["f"][s[d].child] \notin {"while", "try", "switch"}
      BY <2>2, <3>8 DEF Recurs
    <3> QED
      BY <2>3, <2>7, <3>9
  <2> QED
    BY <2>2, <2>5, <2>6, <2>7
<1> QED
  BY <1>3, <1>4, <1>5, <1>6 DEF Block

(* A list begins at the top, or goes to its next statement: where the      *)
(* other activations of the list stand no longer matters.                  *)
LEMMA TopTaken ==
  ASSUME NEW p, Shape(p), NEW c, NEW c2, NEW t \in Seq(Activation), Nested(p, t), Len(t) # 0,
         NEW flagged,
         InPlace(c2, t[Len(t)]),
         \A l \in Block : ~ IsList(t[Len(t)], l) => c2[l] = c[l],
         Recurs(p) => \A d \in 1 .. Len(t) - 1 : LeavingIn(p, t, FALSE, d) \/ InPlace(c, t[d])
  PROVE  Ordered(p, c2, t, flagged)
<1>1. Len(t) \in Nat /\ Len(t) \in 1 .. Len(t)
  <2>1. Len(t) \in Nat
    BY LenProperties
  <2> QED
    BY <2>1
<1> SUFFICES ASSUME Recurs(p), NEW d \in 1 .. Len(t), ~ LeavingIn(p, t, flagged, d)
             PROVE  InPlace(c2, t[d])
  BY DEF Ordered
<1>2. CASE d = Len(t)
  BY <1>2
<1>3. CASE d # Len(t)
  <2>1. d \in 1 .. Len(t) - 1 /\ d < Len(t)
    BY <1>1, <1>3
  <2>2. ~ LeavingIn(p, t, FALSE, d)
    BY <1>3 DEF LeavingIn
  <2>3. InPlace(c, t[d])
    BY <2>1, <2>2
  <2> SUFFICES ASSUME t[d].kind = "list" PROVE c2[t[d].list] = t[d].child
    BY DEF InPlace
  <2>4. t[d] \in Activation
    BY ElementOfSeq
  <2>5. t[d].list \in Block
    BY <2>4 DEF Activation
  <2>6. ~ IsList(t[Len(t)], t[d].list)
    <3> SUFFICES ASSUME IsList(t[Len(t)], t[d].list) PROVE FALSE
      OBVIOUS
    <3>1. IsList(t[d], t[d].list)
      BY DEF IsList
    <3>2. LeavingIn(p, t, flagged, d)
      BY <1>1, <2>1, <2>5, <3>1, LowerLeaves
    <3> QED
      BY <3>2
  <2> QED
    BY <2>3, <2>5, <2>6 DEF InPlace
<1> QED
  BY <1>2, <1>3

(* What the order depends on of an activation. *)
Like(a, b) ==
  /\ b.kind = a.kind
  /\ a.kind = "list" => b.list = a.list /\ b.child = a.child

LEMMA LikeAwaits ==
  ASSUME NEW p, NEW a, NEW b, Like(a, b)
  PROVE  /\ \A k : AwaitsIn(p, k, b) <=> AwaitsIn(p, k, a)
         /\ \A l : IsList(b, l) <=> IsList(a, l)
BY DEF Like, AwaitsIn, ChildIn, IsList

(* A stack of the same lists at the same statements is in order as well.   *)
LEMMA OrderLike ==
  ASSUME NEW p, NEW c, NEW c2, NEW flagged, NEW flagged2,
         NEW s \in Seq(Activation), NEW t \in Seq(Activation), Ordered(p, c, s, flagged),
         Len(t) = Len(s), \A d \in 1 .. Len(s) : Like(s[d], t[d]),
         \A l \in Block : c2[l] = c[l],
         Len(s) # 0 /\ AwaitsIn(p, "if", s[Len(s)]) /\ flagged => flagged2
  PROVE  Ordered(p, c2, t, flagged2)
<1>1. Len(s) \in Nat
  BY LenProperties
<1>2. \A d \in 1 .. Len(s) : /\ \A k : AwaitsIn(p, k, t[d]) <=> AwaitsIn(p, k, s[d])
                             /\ \A l : IsList(t[d], l) <=> IsList(s[d], l)
                             /\ t[d].kind = s[d].kind
  BY LikeAwaits DEF Like
<1>3. Nested(p, t)
  <2> SUFFICES ASSUME NEW d \in 1 .. Len(t) - 1 PROVE Above(p, t[d], t[d + 1])
    BY DEF Nested
  <2>1. d \in 1 .. Len(s) - 1 /\ d \in 1 .. Len(s) /\ d + 1 \in 1 .. Len(s)
    BY <1>1
  <2>2. Above(p, s[d], s[d + 1])
    BY <2>1 DEF Ordered, Nested
  <2> QED
    BY <1>2, <2>1, <2>2 DEF Above
<1> SUFFICES ASSUME Recurs(p), NEW d \in 1 .. Len(s), ~ LeavingIn(p, t, flagged2, d)
             PROVE  InPlace(c2, t[d])
  BY <1>3 DEF Ordered
<1>4. ~ LeavingIn(p, s, flagged, d)
  <2>1. CASE d = Len(s)
    <3>1. Len(s) # 0
      BY <1>1
    <3> QED
      BY <1>2, <2>1, <3>1 DEF LeavingIn
  <2>2. CASE d # Len(s)
    <3>1. d + 1 \in 1 .. Len(s)
      BY <1>1, <2>2
    <3> QED
      BY <1>2, <2>2, <3>1 DEF LeavingIn
  <2> QED
    BY <2>1, <2>2
<1>5. InPlace(c, s[d])
  BY <1>4 DEF Ordered
<1>6. s[d] \in Activation
  BY ElementOfSeq
<1>7. s[d].kind = "list" => s[d].list \in Block
  BY <1>6 DEF Activation
<1> QED
  BY <1>5, <1>7 DEF InPlace, Like

(* The activation at the top is left; below one whose return f() has its   *)
(* value, that value is flagged.                                           *)
LEMMA OrderPopped ==
  ASSUME NEW p, NEW c, NEW flagged, NEW flagged2,
         NEW s \in Seq(Activation), NEW t \in Seq(Activation), Ordered(p, c, s, flagged),
         Len(t) = Len(s) - 1, \A d \in 1 .. Len(s) - 1 : t[d] = s[d],
         AwaitsIn(p, "tail", s[Len(s)]) => flagged2
  PROVE  Ordered(p, c, t, flagged2)
<1>1. Len(s) \in Nat /\ Len(t) \in Nat
  BY LenProperties
<1>2. Nested(p, t)
  <2> SUFFICES ASSUME NEW d \in 1 .. Len(t) - 1 PROVE Above(p, t[d], t[d + 1])
    BY DEF Nested
  <2>1. d \in 1 .. Len(s) - 1 /\ d + 1 \in 1 .. Len(s) - 1
    BY <1>1
  <2>2. Above(p, s[d], s[d + 1])
    BY <2>1 DEF Ordered, Nested
  <2> QED
    BY <2>1, <2>2
<1> SUFFICES ASSUME Recurs(p), NEW d \in 1 .. Len(t), ~ LeavingIn(p, t, flagged2, d)
             PROVE  InPlace(c, t[d])
  BY <1>2 DEF Ordered
<1>3. d \in 1 .. Len(s) /\ d \in 1 .. Len(s) - 1 /\ d # Len(s) /\ t[d] = s[d]
  BY <1>1
<1>4. ~ LeavingIn(p, s, flagged, d)
  <2>1. CASE d = Len(t)
    <3>1. d + 1 = Len(s)
      BY <1>1, <2>1
    <3> QED
      BY <1>3, <2>1, <3>1 DEF LeavingIn
  <2>2. CASE d # Len(t)
    <3>1. t[d + 1] = s[d + 1]
      BY <1>1, <2>2
    <3> QED
      BY <1>3, <2>2, <3>1 DEF LeavingIn
  <2> QED
    BY <2>1, <2>2
<1> QED
  BY <1>3, <1>4 DEF Ordered

(* The list at the top, which no value comes back to, goes to a statement. *)
LEMMA OrderMoved ==
  ASSUME NEW p, Shape(p), NEW c, NEW c2, NEW flagged,
         NEW s \in Seq(Activation), NEW t \in Seq(Activation), Ordered(p, c, s, FALSE),
         Len(s) # 0, Len(t) = Len(s), \A d \in 1 .. Len(s) - 1 : t[d] = s[d],
         ~ AwaitsIn(p, "tail", s[Len(s)]),
         NEW l \in Block, IsList(s[Len(s)], l), IsList(t[Len(s)], l),
         c2[l] = t[Len(s)].child, \A k \in Block : k # l => c2[k] = c[k]
  PROVE  Ordered(p, c2, t, flagged)
<1>1. Len(s) \in Nat
  BY LenProperties
<1>2. Nested(p, t)
  <2> SUFFICES ASSUME NEW d \in 1 .. Len(t) - 1 PROVE Above(p, t[d], t[d + 1])
    BY DEF Nested
  <2>1. d \in 1 .. Len(s) - 1 /\ d + 1 \in 1 .. Len(s)
    BY <1>1
  <2>2. Above(p, s[d], s[d + 1])
    BY <2>1 DEF Ordered, Nested
  <2>3. \A k : t[d + 1].kind = s[d + 1].kind /\ (IsList(t[d + 1], k) <=> IsList(s[d + 1], k))
    <3>1. CASE d + 1 = Len(s)
      BY <3>1 DEF IsList
    <3>2. CASE d + 1 # Len(s)
      <4>1. t[d + 1] = s[d + 1]
        BY <1>1, <2>1, <3>2
      <4> QED
        BY <4>1
    <3> QED
      BY <3>1, <3>2
  <2> QED
    BY <2>1, <2>2, <2>3 DEF Above
<1>3. InPlace(c2, t[Len(t)])
  BY DEF InPlace, IsList
<1>4. \A k \in Block : ~ IsList(t[Len(t)], k) => c2[k] = c[k]
  BY DEF IsList
<1>5. ASSUME Recurs(p), NEW d \in 1 .. Len(t) - 1 PROVE LeavingIn(p, t, FALSE, d) \/ InPlace(c, t[d])
  <2>1. d \in 1 .. Len(s) /\ d \in 1 .. Len(s) - 1 /\ d # Len(s) /\ t[d] = s[d]
    BY <1>1
  <2>2. LeavingIn(p, s, FALSE, d) \/ InPlace(c, s[d])
    BY <1>5, <2>1 DEF Ordered
  <2>3. LeavingIn(p, s, FALSE, d) => LeavingIn(p, t, FALSE, d)
    <3>1. CASE d + 1 = Len(s)
      BY <2>1, <3>1 DEF LeavingIn
    <3>2. CASE d + 1 # Len(s)
      <4>1. t[d + 1] = s[d + 1]
        BY <1>1, <2>1, <3>2
      <4> QED
        BY <2>1, <4>1 DEF LeavingIn
    <3> QED
      BY <3>1, <3>2
  <2> QED
    BY <2>1, <2>2, <2>3
<1> QED
  BY <1>2, <1>3, <1>4, <1>5, TopTaken

(* An activation comes on top; a list starts at its first statement.       *)
LEMMA OrderPushed ==
  ASSUME NEW p, Shape(p), NEW c, NEW c2, NEW flagged,
         NEW s \in Seq(Activation), NEW b \in Activation, Ordered(p, c, s, FALSE),
         Len(s) # 0 => Above(p, s[Len(s)], b),
         InPlace(c2, b), \A l \in Block : ~ IsList(b, l) => c2[l] = c[l]
  PROVE  Ordered(p, c2, Append(s, b), flagged)
<1> DEFINE t == Append(s, b)
<1>1. /\ t \in Seq(Activation) /\ Len(t) = Len(s) + 1
      /\ \A d \in 1 .. Len(s) : t[d] = s[d]
      /\ t[Len(s) + 1] = b
  BY Appended
<1>2. Len(s) \in Nat
  BY LenProperties
<1> HIDE DEF t
<1>3. Nested(p, t)
  <2> SUFFICES ASSUME NEW d \in 1 .. Len(t) - 1 PROVE Above(p, t[d], t[d + 1])
    BY DEF Nested
  <2>1. CASE d = Len(s)
    <3>1. Len(s) # 0 /\ t[d] = s[d]
      BY <1>1, <1>2, <2>1
    <3> QED
      BY <1>1, <2>1, <3>1
  <2>2. CASE d # Len(s)
    <3>1. d \in 1 .. Len(s) - 1 /\ t[d] = s[d] /\ t[d + 1] = s[d + 1]
      BY <1>1, <1>2, <2>2
    <3> QED
      BY <3>1 DEF Ordered, Nested
  <2> QED
    BY <2>1, <2>2
<1>4. Len(t) # 0 /\ t[Len(t)] = b
  BY <1>1, <1>2
<1>5. ASSUME Recurs(p), NEW d \in 1 .. Len(t) - 1 PROVE LeavingIn(p, t, FALSE, d) \/ InPlace(c, t[d])
  <2>1. d \in 1 .. Len(s) /\ t[d] = s[d] /\ d # Len(t)
    BY <1>1, <1>2
  <2>2. LeavingIn(p, s, FALSE, d) \/ InPlace(c, s[d])
    BY <1>5, <2>1 DEF Ordered
  <2>3. LeavingIn(p, s, FALSE, d) => LeavingIn(p, t, FALSE, d)
    <3>1. CASE d = Len(s)
      BY <2>1, <3>1 DEF LeavingIn
    <3>2. CASE d # Len(s)
      <4>1. t[d + 1] = s[d + 1]
        BY <1>1, <1>2, <2>1, <3>2
      <4> QED
        BY <2>1, <3>2, <4>1 DEF LeavingIn
    <3> QED
      BY <3>1, <3>2
  <2> QED
    BY <2>1, <2>2, <2>3
<1>6. Ordered(p, c2, t, flagged)
  BY <1>1, <1>3, <1>4, <1>5, TopTaken
<1> QED
  BY <1>6 DEF t

-----------------------------------------------------------------------------
(* The steps.                                                              *)

(* A statement of the list at the top begins. *)
LEMMA OrderMarked ==
  ASSUME TypeOK, OrderInv, NEW k, Ready(k)
  PROVE  /\ Ordered(prog, Marked, AtChild, FALSE)
         /\ AtChild # <<>> /\ AwaitsIn(prog, k, AtChild[Len(AtChild)])
         /\ AtChild[Len(AtChild)].kind = "list"
<1> DEFINE a == [Top EXCEPT !.child = cursor[Top.list] + 1]
<1>1. /\ cstack # <<>> /\ Top \in Activation /\ Top.kind = "list" /\ Top.list \in Block
      /\ a \in Activation /\ a.kind = "list" /\ a.list = Top.list
      /\ a.child = cursor[Top.list] + 1 /\ result = NULL
      /\ cursor[Top.list] \in 0 .. 1 /\ k = prog[Top.list][cursor[Top.list] + 1]
  BY ReadyTop DEF Activation
<1>2. Depth \in Nat \ {0} /\ cstack \in Seq(Activation) /\ Shape(prog)
  BY <1>1, TopAndBelow, ProgShape DEF TypeOK
<1>3. /\ AtChild \in Seq(Activation) /\ Len(AtChild) = Depth
      /\ \A d \in 1 .. Depth - 1 : AtChild[d] = cstack[d]
      /\ AtChild[Depth] = a
  BY AtChildStack
<1>4. Top = cstack[Len(cstack)] /\ Depth = Len(cstack)
  BY DEF Top, Depth
<1>5. \A l \in Block : Marked[l] = IF l = Top.list THEN cursor[l] + 1 ELSE cursor[l]
  <2>1. DOMAIN cursor = List /\ Block \subseteq List
    BY DEF TypeOK, List
  <2> QED
    BY <1>1, <2>1 DEF Marked
<1>6. Ordered(prog, cursor, cstack, FALSE) /\ ~ AwaitsIn(prog, "tail", Top)
  <2>1. IsFlagged = FALSE
    BY <1>1 DEF IsFlagged
  <2> QED
    BY <1>1, <2>1 DEF OrderInv
<1>7. cursor[Top.list] < Length(Top.list) /\ Length(Top.list) \in 1 .. 2
  BY DEF Ready, Length
<1> HIDE DEF a, AtChild, Marked, Depth, Top
<1>8. AwaitsIn(prog, k, a)
  BY <1>1, <1>7 DEF AwaitsIn, ChildIn
<1>9. IsList(Top, Top.list) /\ IsList(a, Top.list) /\ Marked[Top.list] = a.child
      /\ \A l \in Block : l # Top.list => Marked[l] = cursor[l]
  BY <1>1, <1>5 DEF IsList
<1>10. Ordered(prog, Marked, AtChild, FALSE)
  <2> DEFINE l == Top.list
  <2>1. l \in Block /\ IsList(cstack[Len(cstack)], l) /\ IsList(AtChild[Len(cstack)], l)
        /\ Marked[l] = AtChild[Len(cstack)].child /\ \A m \in Block : m # l => Marked[m] = cursor[m]
    BY <1>1, <1>3, <1>4, <1>9
  <2>2. /\ Len(cstack) # 0 /\ Len(AtChild) = Len(cstack) /\ \A d \in 1 .. Len(cstack) - 1 : AtChild[d] = cstack[d]
        /\ ~ AwaitsIn(prog, "tail", cstack[Len(cstack)])
    BY <1>2, <1>3, <1>4, <1>6
  <2> HIDE DEF l
  <2> QED
    BY <1>2, <1>3, <1>6, <2>1, <2>2, OrderMoved
<1>11. AtChild # <<>>
  BY <1>2, <1>3, EmptySeq
<1> QED
  BY <1>1, <1>3, <1>8, <1>10, <1>11

(* The activation at the top is left. *)
LEMMA OrderBelow ==
  ASSUME TypeOK, OrderInv, cstack # <<>>, NEW flagged,
         AwaitsIn(prog, "tail", Top) => flagged
  PROVE  Ordered(prog, cursor, Below, flagged)
<1>1. /\ Depth \in Nat \ {0} /\ cstack \in Seq(Activation)
      /\ Below \in Seq(Activation) /\ Len(Below) = Depth - 1
      /\ \A d \in 1 .. Depth - 1 : Below[d] = cstack[d]
  BY TopAndBelow DEF TypeOK
<1>2. Top = cstack[Len(cstack)] /\ Depth = Len(cstack)
  BY DEF Top, Depth
<1> HIDE DEF Below, Depth, Top
<1>3. Ordered(prog, cursor, cstack, IsFlagged)
  BY DEF OrderInv
<1> HIDE DEF IsFlagged
<1> QED
  BY <1>1, <1>2, <1>3, OrderPopped

(* It is left by a statement. *)
LEMMA OrderEnded ==
  ASSUME TypeOK, OrderInv, NEW k, Ready(k), NEW flagged, k = "tail" => flagged
  PROVE  Ordered(prog, Marked, Below, flagged)
<1>1. /\ Depth \in Nat \ {0} /\ cstack # <<>>
      /\ Below \in Seq(Activation) /\ Len(Below) = Depth - 1
      /\ \A d \in 1 .. Depth - 1 : Below[d] = cstack[d]
  BY ReadyTop, TopAndBelow
<1>2. /\ AtChild \in Seq(Activation) /\ Len(AtChild) = Depth
      /\ \A d \in 1 .. Depth - 1 : AtChild[d] = cstack[d]
  BY AtChildStack
<1>3. Ordered(prog, Marked, AtChild, FALSE) /\ AwaitsIn(prog, k, AtChild[Len(AtChild)])
  BY OrderMarked
<1> HIDE DEF Below, AtChild, Depth
<1>4. AwaitsIn(prog, "tail", AtChild[Len(AtChild)]) => flagged
  BY <1>3 DEF AwaitsIn
<1> QED
  BY <1>1, <1>2, <1>3, <1>4, OrderPopped

(* A return marks calls, which the order does not depend on. *)
LEMMA OrderReturned ==
  ASSUME TypeOK, NEW c, NEW flagged, NEW s \in Seq(Activation), Len(s) <= Depth,
         \A d \in 1 .. Len(s) : s[d].kind = cstack[d].kind, Ordered(prog, c, s, flagged)
  PROVE  Ordered(prog, c, Returned(s), flagged)
<1> DEFINE t == Returned(s)
<1>1. /\ t \in Seq(Activation) /\ Len(t) = Len(s)
      /\ \A d \in 1 .. Len(s) : SameButReturned(s[d], t[d])
  BY ReturnedStack
<1> HIDE DEF t
<1>2. \A d \in 1 .. Len(s) : Like(s[d], t[d])
  BY <1>1 DEF SameButReturned, Like
<1>3. Ordered(prog, c, t, flagged)
  BY <1>1, <1>2, OrderLike
<1> QED
  BY <1>3 DEF t

(* An activation of the same kind takes the place of the top. *)
LEMMA OrderReplaced ==
  ASSUME TypeOK, OrderInv, cstack # <<>>, NEW a \in Activation, Like(Top, a), NEW c,
         \A l \in Block : c[l] = cursor[l], NEW flagged,
         AwaitsIn(prog, "if", Top) /\ IsFlagged => flagged
  PROVE  Ordered(prog, c, Append(Below, a), flagged)
<1> DEFINE t == Append(Below, a)
<1>1. Depth \in Nat \ {0} /\ cstack \in Seq(Activation)
  BY TopAndBelow DEF TypeOK
<1>2. /\ t \in Seq(Activation) /\ Len(t) = Depth
      /\ \A d \in 1 .. Depth - 1 : t[d] = cstack[d]
      /\ t[Depth] = a
  BY TopReplaced
<1>3. Top = cstack[Len(cstack)] /\ Depth = Len(cstack)
  BY DEF Top, Depth
<1> HIDE DEF t, Depth, Top
<1>4. \A d \in 1 .. Depth : d \in 1 .. Depth - 1 \/ d = Depth
  BY <1>1
<1>5. \A d \in 1 .. Len(cstack) : Like(cstack[d], t[d])
  <2>1. \A d \in 1 .. Depth - 1 : Like(cstack[d], t[d])
    BY <1>2 DEF Like
  <2> QED
    BY <1>2, <1>3, <1>4, <2>1
<1>6. Ordered(prog, cursor, cstack, IsFlagged)
  BY DEF OrderInv
<1> HIDE DEF IsFlagged
<1>7. Ordered(prog, c, t, flagged)
  BY ZenonT(60), <1>1, <1>2, <1>3, <1>5, <1>6, OrderLike
<1> QED
  BY <1>7 DEF t

LEMMA AppendedTop ==
  ASSUME NEW s \in Seq(Activation), NEW a \in Activation
  PROVE  Append(s, a) \in Seq(Activation) /\ Append(s, a)[Len(Append(s, a))] = a
<1> DEFINE t == Append(s, a)
<1>1. t \in Seq(Activation) /\ Len(t) = Len(s) + 1 /\ t[Len(s) + 1] = a
  BY Appended
<1> HIDE DEF t
<1>2. t \in Seq(Activation) /\ t[Len(t)] = a
  BY <1>1
<1> QED
  BY <1>2 DEF t

(* stmt_lst is called: its list is rewound and comes on top. *)
LEMMA OrderEntered ==
  ASSUME NEW p, Shape(p), NEW c \in [List -> 0 .. 2], NEW s \in Seq(Activation), NEW l \in Block,
         Ordered(p, c, s, FALSE), Len(s) # 0 => Above(p, s[Len(s)], Started(l)), NEW flagged
  PROVE  Ordered(p, [c EXCEPT ![l] = 0], Append(s, Started(l)), flagged)
<1> DEFINE b == Started(l)
           c2 == [c EXCEPT ![l] = 0]
<1>1. b \in Activation /\ b.kind = "list" /\ b.list = l /\ b.child = 0
  BY StartedType DEF Started
<1>2. \A k \in Block : c2[k] = IF k = l THEN 0 ELSE c[k]
  <2>1. DOMAIN c = List /\ Block \subseteq List
    BY DEF List
  <2> QED
    BY <2>1
<1>3. Len(s) # 0 => Above(p, s[Len(s)], b)
  OBVIOUS
<1> HIDE DEF b, c2
<1>4. InPlace(c2, b) /\ \A k \in Block : ~ IsList(b, k) => c2[k] = c[k]
  BY <1>1, <1>2 DEF InPlace, IsList
<1>5. Ordered(p, c2, Append(s, b), flagged)
  BY <1>1, <1>3, <1>4, OrderPushed
<1> QED
  BY <1>5 DEF b, c2

(* Another activation comes on top. *)
LEMMA OrderOpened ==
  ASSUME NEW p, Shape(p), NEW c, NEW s \in Seq(Activation), NEW b \in Activation, b.kind # "list",
         Ordered(p, c, s, FALSE), Len(s) # 0 => Above(p, s[Len(s)], b), NEW flagged
  PROVE  Ordered(p, c, Append(s, b), flagged)
<1>1. InPlace(c, b) /\ \A l \in Block : ~ IsList(b, l) => c[l] = c[l]
  BY DEF InPlace
<1> QED
  BY <1>1, OrderPushed

LEMMA OrderStep ==
  ASSUME TypeOK, OrderInv, [Next]_vars
  PROVE  Ordered(prog, cursor', cstack', IsFlagged')
<1>types. cursor \in [List -> 0 .. 2] /\ cstack \in Seq(Activation) /\ Shape(prog)
  BY ProgShape DEF TypeOK
<1>null. NULL \notin Value /\ (result # NULL => result \in Value)
  BY NullIsNoValue DEF TypeOK
<1>quiet. ASSUME result = NULL PROVE Ordered(prog, cursor, cstack, FALSE)
  <2>1. IsFlagged = FALSE
    BY <1>quiet DEF IsFlagged
  <2> QED
    BY <2>1 DEF OrderInv
<1>atChild. ASSUME NEW k, Ready(k)
            PROVE  /\ AtChild \in Seq(Activation) /\ Marked \in [List -> 0 .. 2]
                   /\ Ordered(prog, Marked, AtChild, FALSE)
                   /\ AwaitsIn(prog, k, AtChild[Len(AtChild)])
  BY <1>atChild, ReadyTop, AtChildStack, OrderMarked
<1>more. ASSUME NEW c, NEW s \in Seq(Activation), Ordered(prog, c, s, FALSE), NEW flagged
         PROVE  Ordered(prog, c, s, flagged)
  <2>1. \A d \in 1 .. Len(s) : Like(s[d], s[d])
    BY DEF Like
  <2> QED
    BY <1>more, <2>1, OrderLike
<1>evaluates. ASSUME NEW k, Ready(k), NEW v, Evaluates(v)
              PROVE  Ordered(prog, cursor', cstack', IsFlagged')
  <2> HIDE DEF IsFlagged
  <2> QED
    BY <1>evaluates, <1>atChild, <1>more DEF Evaluates
<1>ends. ASSUME NEW k, Ready(k), NEW flagged, k = "tail" => flagged
         PROVE  Ordered(prog, Marked, Below, flagged)
  BY <1>ends, OrderEnded
<1>below. ASSUME cstack # <<>>, NEW flagged, AwaitsIn(prog, "tail", Top) => flagged
          PROVE  Ordered(prog, cursor, Below, flagged)
  BY <1>below, OrderBelow
<1>flag. ASSUME NEW v \in Value, Flag(v) PROVE IsFlagged'
  <2>1. result' # NULL
    BY <1>flag, <1>null DEF Flag, Value
  <2>2. Flagged(result)'
    BY <1>flag DEF Flag, Flagged
  <2> QED
    BY <2>1, <2>2 DEF IsFlagged
<1> HIDE DEF IsFlagged
<1>1. CASE Plain \/ Assign \/ Read \/ IfBreak \/ BindNative
  BY <1>1, <1>evaluates DEF Plain, Assign, Read, IfBreak, BindNative
<1>2. CASE Jump
  <2>1. PICK k \in {"break", "continue"} : Ready(k)
    BY <1>2 DEF Jump
  <2>2. cursor' = Marked /\ cstack' = Below
    BY <1>2 DEF Jump
  <2> QED
    BY <1>ends, <2>1, <2>2
<1>3. CASE Return
  <2>1. PICK k : Ready(k) /\ cstack' \in {Returned(Below), Returned(AtChild)}
    BY <1>3 DEF Return
  <2>2. cursor' = Marked /\ IsFlagged' /\ cstack # <<>>
    BY <1>3, <1>flag, <2>1, ReadyTop DEF Return, Value
  <2>3. Ordered(prog, Marked, Below, IsFlagged')
    BY <1>ends, <2>1, <2>2
  <2>4. Ordered(prog, Marked, AtChild, IsFlagged')
    BY <1>atChild, <1>more, <2>1
  <2>5. Ordered(prog, Marked, Returned(Below), IsFlagged')
    BY <2>2, <2>3, BelowKinds, OrderReturned
  <2>6. Ordered(prog, Marked, Returned(AtChild), IsFlagged')
    BY <2>1, <2>4, AtChildKinds, OrderReturned
  <2> QED
    BY <2>1, <2>2, <2>5, <2>6
<1>4. CASE CallF
  <2> DEFINE call == [kind |-> "call", returned |-> "no"]
             s == Append(AtChild, call)
  <2>1. PICK k \in {"call", "bind", "tail"} : Ready(k)
    BY <1>4 DEF CallF
  <2>2. call \in Activation /\ call.kind = "call" /\ IsList(Started("f"), "f") /\ "f" \in Block
    BY DEF Activation, IsList, Started, Block
  <2>3. cstack' = Append(s, Started("f")) /\ cursor' = [Marked EXCEPT !["f"] = 0]
    BY <1>4 DEF CallF, Enter
  <2> HIDE DEF call
  <2>4. Above(prog, AtChild[Len(AtChild)], call) /\ Above(prog, call, Started("f"))
    BY <1>atChild, <2>1, <2>2 DEF Above
  <2>5. Ordered(prog, Marked, s, FALSE)
    BY <1>types, <1>atChild, <2>1, <2>2, <2>4, OrderOpened
  <2>6. s \in Seq(Activation) /\ s[Len(s)] = call
    BY <1>atChild, <2>1, <2>2, AppendedTop
  <2> HIDE DEF s
  <2>7. Ordered(prog, [Marked EXCEPT !["f"] = 0], Append(s, Started("f")), IsFlagged')
    BY <1>types, <1>atChild, <2>1, <2>2, <2>4, <2>5, <2>6, OrderEntered
  <2> QED
    BY <2>3, <2>7
<1>5. CASE EndCall \/ EndList \/ EndTry
  <2>1. /\ cstack # <<>> /\ cursor' = cursor /\ cstack' = Below
        /\ Top.kind \in {"call", "try"} \/ result = NULL
    BY <1>5 DEF EndCall, EndList, EndTry, In
  <2>2. ~ AwaitsIn(prog, "tail", Top)
    BY <2>1 DEF OrderInv, AwaitsIn
  <2> QED
    BY <1>below, <2>1, <2>2
<1>6. CASE ReturnCall
  <2>1. result \in Value /\ Flag(result) /\ cstack # <<>> /\ cstack' = Returned(Below) /\ cursor' = cursor
    BY <1>6, <1>null DEF ReturnCall, Receives
  <2>2. Ordered(prog, cursor, Below, IsFlagged')
    BY <1>below, <1>flag, <2>1
  <2>3. Ordered(prog, cursor, Returned(Below), IsFlagged')
    BY <2>1, <2>2, BelowKinds, OrderReturned
  <2> QED
    BY <2>1, <2>3
<1>goesOn. ASSUME cstack # <<>>, Top.kind = "list", NEW v \in Value, GoOn(v), UNCHANGED cursor,
                  ~ (AwaitsIn(prog, "if", Top) /\ IsFlagged)
           PROVE  Ordered(prog, cursor', cstack', IsFlagged')
  <2> DEFINE a == [Top EXCEPT !.last = v]
  <2>1. a \in Activation /\ Like(Top, a)
    BY <1>goesOn, ReceivingTop DEF Activation, Like
  <2>2. cstack' = Append(Below, a) /\ cursor' = cursor
    BY <1>goesOn DEF GoOn
  <2> HIDE DEF a
  <2>3. Ordered(prog, cursor, Append(Below, a), IsFlagged')
    BY <1>goesOn, <2>1, OrderReplaced
  <2> QED
    BY <2>2, <2>3
<1>7. CASE Bind
  <2>1. cstack # <<>> /\ Top.kind = "list" /\ GoOn("plain") /\ UNCHANGED cursor /\ "plain" \in Value
    BY <1>7 DEF Bind, Receives, Value
  <2>2. ~ AwaitsIn(prog, "if", Top)
    BY <1>7 DEF Bind, Receives, AwaitsIn, ChildIn, Child
  <2> QED
    BY <1>goesOn, <2>1, <2>2
<1>8. CASE Receive
  <2>1. result \in Value /\ cstack # <<>> /\ Top.kind = "list" /\ cursor' = cursor
    BY <1>8, <1>null DEF Receive, Receives
  <2>2. CASE Flagged(result)
    <3>1. ~ AwaitsIn(prog, "tail", Top)
      BY <1>8 DEF Receive, Receives, AwaitsIn, ChildIn, Child
    <3>2. cstack' = Below
      BY <1>8, <2>2 DEF Receive
    <3> QED
      BY <1>below, <2>1, <3>1, <3>2
  <2>3. CASE ~ Flagged(result)
    <3>1. GoOn(result)
      BY <1>8, <2>3 DEF Receive
    <3>2. ~ IsFlagged
      BY <2>3 DEF IsFlagged
    <3> QED
      BY <1>goesOn, <2>1, <3>1, <3>2
  <2> QED
    BY <2>2, <2>3
<1>9. IsList(Started("block"), "block") /\ "block" \in Block
  BY DEF Started, Block, IsList
<1>10. CASE If
  <2>1. /\ Ready("if") /\ cstack' = Append(AtChild, Started("block"))
        /\ cursor' = [Marked EXCEPT !["block"] = 0]
    BY <1>10 DEF If, Enter
  <2>2. Above(prog, AtChild[Len(AtChild)], Started("block"))
    BY <1>atChild, <1>9, <2>1 DEF Above
  <2>3. Ordered(prog, [Marked EXCEPT !["block"] = 0], Append(AtChild, Started("block")), IsFlagged')
    BY <1>types, <1>atChild, <1>9, <2>1, <2>2, OrderEntered
  <2> QED
    BY <2>1, <2>3
<1>opens. ASSUME NEW k \in {"while", "try", "switch"}, Ready(k), NEW a \in Activation, a.kind = k, NEW flagged
          PROVE  LET s == Append(AtChild, a)
                 IN  /\ s \in Seq(Activation) /\ s[Len(s)] = a
                     /\ Ordered(prog, Marked, s, flagged)
                     /\ Above(prog, a, Started("block"))
  <2> DEFINE s == Append(AtChild, a)
  <2>1. s \in Seq(Activation) /\ s[Len(s)] = a
    BY <1>opens, <1>atChild, AppendedTop
  <2>2. Above(prog, AtChild[Len(AtChild)], a)
    BY <1>opens, <1>atChild DEF Above
  <2>3. Above(prog, a, Started("block"))
    BY <1>9, <1>opens DEF Above
  <2>4. Ordered(prog, Marked, s, flagged)
    <3>1. a.kind # "list"
      BY <1>opens
    <3> QED
      BY <1>types, <1>opens, <1>atChild, <2>2, <3>1, OrderOpened
  <2> QED
    BY <2>1, <2>3, <2>4
<1>11. CASE StartWhile
  <2> DEFINE a == [kind |-> "while"]
  <2>1. Ready("while") /\ a \in Activation /\ a.kind = "while" /\ cstack' = Append(AtChild, a) /\ cursor' = Marked
    BY <1>11 DEF StartWhile, Activation
  <2> HIDE DEF a
  <2> QED
    BY <1>opens, <2>1
<1>12. CASE StartSwitch
  <2> DEFINE a == [kind |-> "switch", matched |-> FALSE]
  <2>1. Ready("switch") /\ a \in Activation /\ a.kind = "switch" /\ cstack' = Append(AtChild, a) /\ cursor' = Marked
    BY <1>12 DEF StartSwitch, Activation
  <2> HIDE DEF a
  <2> QED
    BY <1>opens, <2>1
<1>13. CASE StartTry
  <2> DEFINE a == [kind |-> "try"]
             s == Append(AtChild, a)
  <2>1. Ready("try") /\ a \in Activation /\ a.kind = "try"
    BY <1>13 DEF StartTry, Activation
  <2>2. cstack' = Append(s, Started("block")) /\ cursor' = [Marked EXCEPT !["block"] = 0]
    BY <1>13 DEF StartTry, Enter
  <2> HIDE DEF a
  <2>3. /\ s \in Seq(Activation) /\ s[Len(s)] = a
        /\ Ordered(prog, Marked, s, FALSE) /\ Above(prog, a, Started("block"))
    BY <1>opens, <2>1
  <2> HIDE DEF s
  <2>4. Ordered(prog, [Marked EXCEPT !["block"] = 0], Append(s, Started("block")), IsFlagged')
    BY <1>types, <1>atChild, <1>9, <2>1, <2>3, OrderEntered
  <2> QED
    BY <2>2, <2>4
<1>14. CASE WhileTest
  <2>1. cstack # <<>> /\ Top.kind = "while" /\ result = NULL /\ Top = cstack[Len(cstack)]
    BY <1>14 DEF WhileTest, In, Top, Depth
  <2>2. CASE Enter("block", cstack, cursor)
    <3>1. Above(prog, cstack[Len(cstack)], Started("block"))
      BY <1>9, <2>1 DEF Above
    <3>2. cstack' = Append(cstack, Started("block")) /\ cursor' = [cursor EXCEPT !["block"] = 0]
      BY <2>2 DEF Enter
    <3>3. Ordered(prog, [cursor EXCEPT !["block"] = 0], Append(cstack, Started("block")), IsFlagged')
      BY <1>types, <1>9, <1>quiet, <2>1, <3>1, OrderEntered
    <3> QED
      BY <3>2, <3>3
  <2>3. CASE cstack' = Below /\ UNCHANGED cursor
    <3>1. ~ AwaitsIn(prog, "tail", Top)
      BY <2>1 DEF AwaitsIn
    <3> QED
      BY <1>below, <2>1, <2>3, <3>1
  <2> QED
    BY <1>14, <2>2, <2>3 DEF WhileTest
<1>15. CASE WhileBody \/ SwitchBody
  <2>1. cstack # <<>> /\ Top.kind \in {"while", "switch"} /\ cursor' = cursor /\ cstack' \in {Below, cstack}
    BY <1>15 DEF WhileBody, SwitchBody, In
  <2>2. ~ AwaitsIn(prog, "tail", Top) /\ ~ AwaitsIn(prog, "if", Top)
    BY <2>1 DEF AwaitsIn
  <2>3. \A d \in 1 .. Len(cstack) : Like(cstack[d], cstack[d])
    BY DEF Like
  <2>4. Ordered(prog, cursor, cstack, IsFlagged')
    <3>1. Ordered(prog, cursor, cstack, IsFlagged) /\ Top = cstack[Len(cstack)]
      BY DEF OrderInv, Top, Depth
    <3> QED
      BY <1>types, <2>2, <2>3, <3>1, OrderLike
  <2> QED
    BY <1>below, <2>1, <2>2, <2>4
<1>16. CASE SwitchTest
  <2>1. PICK m \in {Top.matched, TRUE} :
          LET now == Append(Below, [Top EXCEPT !.matched = m])
              visited == [cursor EXCEPT !["clauses"] = @ + 1]
          IN  IF m /\ cursor["clauses"] = 0
                THEN Enter("block", now, visited)
                ELSE cstack' = now /\ cursor' = visited
    BY <1>16 DEF SwitchTest
  <2> DEFINE a == [Top EXCEPT !.matched = m]
             visited == [cursor EXCEPT !["clauses"] = @ + 1]
             s == Append(Below, a)
  <2>2. cstack # <<>> /\ Top.kind = "switch" /\ a \in Activation /\ a.kind = "switch"
    BY <1>16, SwitchTop DEF SwitchTest, Activation
  <2>3. visited \in [List -> 0 .. 2] /\ \A l \in Block : visited[l] = cursor[l]
    <3>1. cursor["clauses"] + 1 \in 0 .. 2 /\ "clauses" \in List /\ "clauses" \notin Block
      BY <1>16, <1>types DEF SwitchTest, NumClauses, List, Block
    <3>2. DOMAIN cursor = List /\ Block \subseteq List
      BY <1>types DEF List
    <3> QED
      BY <1>types, <3>1, <3>2
  <2>4. \/ cstack' = Append(s, Started("block")) /\ cursor' = [visited EXCEPT !["block"] = 0]
        \/ cstack' = s /\ cursor' = visited
    BY <2>1 DEF Enter
  <2> HIDE DEF a, visited
  <2>5. Like(Top, a) /\ ~ AwaitsIn(prog, "if", Top)
    BY <2>2 DEF Like, AwaitsIn
  <2>6. \A flagged : Ordered(prog, visited, s, flagged)
    BY <2>2, <2>3, <2>5, OrderReplaced
  <2>7. s \in Seq(Activation) /\ s[Len(s)] = a
    BY <2>2, TopReplaced
  <2> HIDE DEF s
  <2>8. Above(prog, a, Started("block"))
    BY <1>9, <2>2 DEF Above
  <2>9. Ordered(prog, [visited EXCEPT !["block"] = 0], Append(s, Started("block")), IsFlagged')
    BY <1>types, <1>9, <2>3, <2>6, <2>7, <2>8, OrderEntered
  <2> QED
    BY <2>4, <2>6, <2>9
<1>17. CASE SwitchEnd
  <2>1. cstack # <<>> /\ Top.kind = "switch" /\ result = NULL
    BY <1>17 DEF SwitchEnd, In
  <2>2. ~ AwaitsIn(prog, "tail", Top)
    BY <2>1 DEF AwaitsIn
  <2>3. CASE Enter("default", Below, cursor)
    <3>1. IsList(Started("default"), "default") /\ "default" \in Block
      BY DEF Started, Block, IsList
    <3>2. /\ Depth \in Nat \ {0} /\ Depth = Len(cstack) /\ Top = cstack[Depth]
          /\ Below \in Seq(Activation) /\ Len(Below) = Depth - 1
          /\ \A d \in 1 .. Depth - 1 : Below[d] = cstack[d]
      BY <2>1, TopAndBelow DEF Depth, Top
    <3> HIDE DEF Below, Depth, Top
    <3>3. Len(Below) # 0 => Above(prog, Below[Len(Below)], Started("default"))
      <4> SUFFICES ASSUME Len(Below) # 0 PROVE Above(prog, Below[Len(Below)], Started("default"))
        OBVIOUS
      <4>1. Depth - 1 \in 1 .. Len(cstack) - 1 /\ Depth - 1 + 1 = Depth
        BY <3>2
      <4>2. Above(prog, cstack[Depth - 1], Top)
        <5>1. Above(prog, cstack[Depth - 1], cstack[Depth - 1 + 1])
          BY <4>1 DEF OrderInv, Ordered, Nested
        <5> QED
          BY <3>2, <4>1, <5>1
      <4>3. AwaitsIn(prog, "switch", cstack[Depth - 1])
        BY <2>1, <4>2 DEF Above, IsList
      <4>4. Below[Len(Below)] = cstack[Depth - 1]
        BY <3>2, <4>1
      <4> QED
        BY <3>1, <4>3, <4>4 DEF Above
    <3>4. Ordered(prog, cursor, Below, FALSE)
      BY <1>below, <2>1, <2>2
    <3>5. cstack' = Append(Below, Started("default")) /\ cursor' = [cursor EXCEPT !["default"] = 0]
      BY <2>3 DEF Enter
    <3>6. Ordered(prog, [cursor EXCEPT !["default"] = 0], Append(Below, Started("default")), IsFlagged')
      BY <1>types, <3>1, <3>2, <3>3, <3>4, OrderEntered
    <3> QED
      BY <3>5, <3>6
  <2>4. CASE cstack' = Below /\ UNCHANGED cursor
    BY <1>below, <2>1, <2>2, <2>4
  <2> QED
    BY <1>17, <2>3, <2>4 DEF SwitchEnd
<1>18. CASE UNCHANGED vars
  <2>1. cursor' = cursor /\ cstack' = cstack /\ IsFlagged' = IsFlagged
    BY <1>18 DEF vars, IsFlagged, Flagged
  <2> QED
    BY <2>1 DEF OrderInv
<1> QED
  BY <1>1, <1>2, <1>3, <1>4, <1>5, <1>6, <1>7, <1>8, <1>10, <1>11, <1>12, <1>13, <1>14,
     <1>15, <1>16, <1>17, <1>18 DEF Next, Ended

(* A list whose return f() has its value does not go on. *)
LEMMA TailStep ==
  ASSUME TypeOK, OrderInv, [Next]_vars, result' = NULL
  PROVE  cstack' # <<>> => ~ AwaitsIn(prog, "tail", Top')
<1>null. NULL \notin Value /\ "plain" \in Value /\ "break" \in Value /\ "x" \in Value
  BY NullIsNoValue DEF Value
<1>types. cstack \in Seq(Activation)
  BY DEF TypeOK
<1>on. ASSUME NEW s \in Seq(Activation), NEW a \in Activation, cstack' = Append(s, a),
              ~ AwaitsIn(prog, "tail", a)
       PROVE  ~ AwaitsIn(prog, "tail", Top')
  <2>1. Top' = a
    BY <1>on, AppendedTop DEF Top, Depth
  <2> QED
    BY <1>on, <2>1
<1>enters. ASSUME NEW s \in Seq(Activation), NEW l \in Block, NEW visited, Enter(l, s, visited)
           PROVE  ~ AwaitsIn(prog, "tail", Top')
  <2>1. cstack' = Append(s, Started(l)) /\ Started(l) \in Activation /\ Started(l).child = 0
    BY <1>enters, StartedType DEF Enter, Started
  <2>2. ~ AwaitsIn(prog, "tail", Started(l))
    BY <2>1 DEF AwaitsIn
  <2> QED
    BY <1>on, <2>1, <2>2
<1>atChild. ASSUME NEW k, Ready(k), NEW a \in Activation
            PROVE  AtChild \in Seq(Activation) /\ Append(AtChild, a) \in Seq(Activation)
  BY <1>atChild, AtChildStack, Appended
<1>below. cstack # <<>> => Below \in Seq(Activation)
  BY TopAndBelow
<1>1. CASE Plain \/ Assign \/ Read \/ IfBreak \/ BindNative \/ Jump
  BY <1>1, <1>null DEF Plain, Assign, Read, IfBreak, BindNative, Jump, Evaluates
<1>2. CASE Return \/ ReturnCall
  BY <1>2, <1>null DEF Return, ReturnCall, Flag
<1>3. CASE CallF
  <2> DEFINE call == [kind |-> "call", returned |-> "no"]
  <2>1. PICK k \in {"call", "bind", "tail"} : Ready(k)
    BY <1>3 DEF CallF
  <2>2. call \in Activation /\ "f" \in Block
    BY DEF Activation, Block
  <2>3. Enter("f", Append(AtChild, call), Marked)
    BY <1>3 DEF CallF
  <2> HIDE DEF call
  <2> QED
    BY <1>atChild, <1>enters, <2>1, <2>2, <2>3
<1>4. CASE EndCall \/ EndTry
  BY <1>4, <1>null DEF EndCall, EndTry
<1>5. CASE EndList
  <2>1. Top \in Activation /\ Top.kind = "list"
    BY <1>5, TopAndBelow DEF EndList
  <2> HIDE DEF Top
  <2>2. Top.last \in Value
    BY <2>1 DEF Activation
  <2> QED
    BY <1>5, <1>null, <2>2 DEF EndList
<1>goesOn. ASSUME cstack # <<>>, Top.kind = "list", NEW v \in Value, GoOn(v),
                  NEW k, Child(Top) = k, k # "tail"
           PROVE  ~ AwaitsIn(prog, "tail", Top')
  <2> DEFINE a == [Top EXCEPT !.last = v]
  <2>1. a \in Activation /\ a.list = Top.list /\ a.child = Top.child
    BY <1>goesOn, ReceivingTop DEF Activation
  <2>2. cstack' = Append(Below, a)
    BY <1>goesOn DEF GoOn
  <2> HIDE DEF a
  <2>3. ~ AwaitsIn(prog, "tail", a)
    BY <1>goesOn, <2>1 DEF AwaitsIn, ChildIn, Child
  <2> QED
    BY <1>goesOn, <1>below, <1>on, <2>1, <2>2, <2>3
<1>6. CASE Bind
  <2>1. cstack # <<>> /\ Top.kind = "list" /\ GoOn("plain") /\ Child(Top) = "bind" /\ "bind" # "tail"
    BY <1>6 DEF Bind, Receives
  <2> QED
    BY <1>null, <1>goesOn, <2>1
<1>7. CASE Receive
  <2>1. PICK k \in Kind \ {"tail", "bind"} : Receives(k)
    BY <1>7 DEF Receive
  <2>2. result \in Value /\ cstack # <<>> /\ Top.kind = "list" /\ Child(Top) = k /\ k # "tail" /\ GoOn(result)
    BY <1>7, <2>1 DEF Receive, Receives, TypeOK
  <2> QED
    BY <1>goesOn, <2>2
<1>8. CASE If
  <2>1. Ready("if") /\ Enter("block", AtChild, Marked) /\ "block" \in Block /\ AtChild \in Seq(Activation)
    BY <1>8, AtChildStack DEF If, Block
  <2> QED
    BY <1>enters, <2>1
<1>9. CASE StartWhile
  <2> DEFINE a == [kind |-> "while"]
  <2>1. Ready("while") /\ cstack' = Append(AtChild, a) /\ a \in Activation /\ a.kind = "while"
    BY <1>9 DEF StartWhile, Activation
  <2> HIDE DEF a
  <2>2. ~ AwaitsIn(prog, "tail", a)
    BY <2>1 DEF AwaitsIn
  <2> QED
    BY <1>atChild, <1>on, <2>1, <2>2
<1>10. CASE StartSwitch
  <2> DEFINE a == [kind |-> "switch", matched |-> FALSE]
  <2>1. Ready("switch") /\ cstack' = Append(AtChild, a) /\ a \in Activation /\ a.kind = "switch"
    BY <1>10 DEF StartSwitch, Activation
  <2> HIDE DEF a
  <2>2. ~ AwaitsIn(prog, "tail", a)
    BY <2>1 DEF AwaitsIn
  <2> QED
    BY <1>atChild, <1>on, <2>1, <2>2
<1>11. CASE StartTry
  <2> DEFINE a == [kind |-> "try"]
  <2>1. Ready("try") /\ Enter("block", Append(AtChild, a), Marked) /\ a \in Activation /\ "block" \in Block
    BY <1>11 DEF StartTry, Activation, Block
  <2> HIDE DEF a
  <2> QED
    BY <1>atChild, <1>enters, <2>1
<1>12. CASE WhileTest
  <2>1. Enter("block", cstack, cursor) /\ "block" \in Block
    BY <1>12, <1>null DEF WhileTest, Block
  <2> QED
    BY <1>types, <1>enters, <2>1
<1>13. CASE WhileBody \/ SwitchBody
  <2>1. cstack' = cstack /\ Top' = Top /\ Top.kind \in {"while", "switch"}
    BY <1>13, <1>null DEF WhileBody, SwitchBody, In, Top, Depth
  <2> QED
    BY <2>1 DEF AwaitsIn
<1>14. CASE SwitchTest
  <2>1. PICK m \in {Top.matched, TRUE} :
          LET now == Append(Below, [Top EXCEPT !.matched = m])
              visited == [cursor EXCEPT !["clauses"] = @ + 1]
          IN  IF m /\ cursor["clauses"] = 0
                THEN Enter("block", now, visited)
                ELSE cstack' = now /\ cursor' = visited
    BY <1>14 DEF SwitchTest
  <2> DEFINE a == [Top EXCEPT !.matched = m]
             visited == [cursor EXCEPT !["clauses"] = @ + 1]
  <2>2. cstack # <<>> /\ a \in Activation /\ a.kind = "switch"
    BY <1>14, SwitchTop DEF SwitchTest, Activation
  <2>3. Enter("block", Append(Below, a), visited) \/ cstack' = Append(Below, a)
    BY <2>1
  <2> HIDE DEF a, visited
  <2>4. Append(Below, a) \in Seq(Activation) /\ "block" \in Block
    BY <1>below, <2>2, Appended DEF Block
  <2>5. ~ AwaitsIn(prog, "tail", a)
    BY <2>2 DEF AwaitsIn
  <2> QED
    BY <1>below, <1>on, <1>enters, <2>2, <2>3, <2>4, <2>5
<1>15. CASE SwitchEnd
  <2>1. Enter("default", Below, cursor) /\ "default" \in Block /\ cstack # <<>>
    BY <1>15, <1>null DEF SwitchEnd, In, Block
  <2> QED
    BY <1>below, <1>enters, <2>1
<1>16. CASE UNCHANGED vars
  BY <1>16 DEF vars, Top, Depth, OrderInv
<1> QED
  BY <1>1, <1>2, <1>3, <1>4, <1>5, <1>6, <1>7, <1>8, <1>9, <1>10, <1>11, <1>12, <1>13, <1>14,
     <1>15, <1>16 DEF Next, Ended

LEMMA OrderNext == TypeOK /\ OrderInv /\ [Next]_vars => OrderInv'
<1> SUFFICES ASSUME TypeOK, OrderInv, [Next]_vars PROVE OrderInv'
  OBVIOUS
<1>1. prog' = prog
  BY ProgStays
<1>2. Ordered(prog, cursor', cstack', IsFlagged')
  BY OrderStep
<1>3. cstack' # <<>> /\ AwaitsIn(prog, "tail", Top') => result' # NULL
  BY TailStep
<1> HIDE DEF Top, IsFlagged
<1> QED
  BY <1>1, <1>2, <1>3 DEF OrderInv

LEMMA OrderInit == Init => OrderInv
<1> SUFFICES ASSUME Init PROVE OrderInv
  OBVIOUS
<1>1. Started("main") \in Activation
  BY StartedType DEF Block
<1>2. Len(cstack) = 1 /\ cstack[1] = Started("main") /\ cursor["main"] = 0
  BY <1>1 DEF Init, List, Block
<1>3. Started("main").list = "main" /\ Started("main").child = 0
  BY DEF Started
<1>4. Nested(prog, cstack)
  BY <1>2 DEF Nested
<1>5. \A d \in 1 .. Len(cstack) : InPlace(cursor, cstack[d])
  BY <1>2, <1>3 DEF InPlace
<1>6. ~ AwaitsIn(prog, "tail", Top)
  BY <1>2, <1>3 DEF AwaitsIn, Top, Depth
<1> QED
  BY <1>4, <1>5, <1>6 DEF OrderInv, Ordered

(* If f calls itself in return statements only, among its own statements   *)
(* or in the block of an if, then however many calls are open, no          *)
(* activation of stmt_lst skips a statement or runs one twice.             *)
THEOREM StatementsInOrder == Spec => []InOrder
<1>1. OrderInv => InOrder
  <2> SUFFICES ASSUME OrderInv, RecursInReturns, NEW d \in 1 .. Depth,
                      cstack[d].kind = "list", ~ Leaving(d)
               PROVE  cursor[cstack[d].list] = cstack[d].child
    BY DEF InOrder
  <2>1. d \in 1 .. Len(cstack) /\ Recurs(prog)
    BY DEF Depth, Recurs, RecursInReturns
  <2>2. \A k, a : AwaitsIn(prog, k, a) => Awaits(k, a)
    BY DEF AwaitsIn, Awaits, ChildIn, Child
  <2>3. ~ LeavingIn(prog, cstack, IsFlagged, d)
    BY <2>2 DEF LeavingIn, Leaving, IsFlagged, Depth
  <2> QED
    BY <2>1, <2>3 DEF OrderInv, Ordered, InPlace
<1> QED
  BY <1>1, OrderInit, OrderNext, TypeCorrect, PTL DEF Spec

-----------------------------------------------------------------------------
(* Returns are final.                                                      *)

(* A list whose statement is a call has the call directly above it. *)
Waits(p, s) ==
  \A d \in 1 .. Len(s) - 1 :
    s[d].kind = "list" /\ ChildIn(p, s[d]) \in {"bind", "tail"} => s[d + 1].kind = "call"

Direct(a) == a.kind = "call" /\ a.returned = "directly"
NoDirect(s) == \A d \in 1 .. Len(s) : ~ Direct(s[d])

(* Above a call that is being left are lists that a flagged value passes. *)
PassedOn(p, s) ==
  \A d \in 1 .. Len(s) : Direct(s[d]) =>
    \A e \in d + 1 .. Len(s) : s[e].kind = "list" /\ ChildIn(p, s[e]) \notin {"bind", "tail"}

FinalInv ==
  /\ Waits(prog, cstack)
  /\ PassedOn(prog, cstack)
  /\ (result # NULL /\ Flagged(result)) \/ NoDirect(cstack)

LEMMA WaitsKept ==
  ASSUME NEW p, NEW s \in Seq(Activation), NEW t \in Seq(Activation), Waits(p, s),
         Len(t) <= Len(s),
         \A d \in 1 .. Len(t) : d < Len(s) => SameButReturned(s[d], t[d]),
         Len(t) = Len(s) /\ Len(s) # 0 => t[Len(s)].kind = s[Len(s)].kind
  PROVE  Waits(p, t)
<1>1. Len(s) \in Nat /\ Len(t) \in Nat
  BY LenProperties
<1>2. SUFFICES ASSUME NEW d \in 1 .. Len(t) - 1,
                      t[d].kind = "list", ChildIn(p, t[d]) \in {"bind", "tail"}
               PROVE  t[d + 1].kind = "call"
  BY DEF Waits
<1>3. d \in 1 .. Len(s) - 1 /\ d \in 1 .. Len(t) /\ d < Len(s) /\ d + 1 \in 1 .. Len(t)
  BY <1>1
<1>4. t[d] = s[d]
  BY <1>2, <1>3 DEF SameButReturned
<1>5. s[d + 1].kind = "call"
  BY <1>2, <1>3, <1>4 DEF Waits
<1>6. CASE d + 1 < Len(s)
  BY <1>3, <1>5, <1>6 DEF SameButReturned
<1>7. CASE d + 1 = Len(s)
  <2>1. Len(t) = Len(s) /\ Len(s) # 0
    BY <1>1, <1>3, <1>7
  <2> QED
    BY <1>5, <1>7, <2>1
<1> QED
  BY <1>1, <1>3, <1>6, <1>7

LEMMA WaitsPush ==
  ASSUME NEW p, NEW s \in Seq(Activation), NEW b \in Activation, Waits(p, s),
         \/ b.kind = "call"
         \/ s[Len(s)].kind # "list"
         \/ ChildIn(p, s[Len(s)]) \notin {"bind", "tail"}
  PROVE  Waits(p, Append(s, b))
<1> DEFINE t == Append(s, b)
<1>1. /\ Len(t) = Len(s) + 1 /\ t[Len(s) + 1] = b
      /\ \A d \in 1 .. Len(s) : t[d] = s[d]
  BY Appended
<1>2. Len(s) \in Nat
  BY LenProperties
<1> HIDE DEF t
<1>3. ASSUME NEW d \in 1 .. Len(t) - 1, t[d].kind = "list", ChildIn(p, t[d]) \in {"bind", "tail"}
      PROVE  t[d + 1].kind = "call"
  <2>1. d \in 1 .. Len(s) /\ t[d] = s[d]
    BY <1>1, <1>2
  <2>2. CASE d < Len(s)
    <3>1. d \in 1 .. Len(s) - 1 /\ d + 1 \in 1 .. Len(s)
      BY <1>2, <2>1, <2>2
    <3> QED
      BY <1>1, <1>3, <2>1, <3>1 DEF Waits
  <2>3. CASE d = Len(s)
    BY <1>1, <1>3, <2>1, <2>3
  <2> QED
    BY <1>2, <2>1, <2>2, <2>3
<1> QED
  BY <1>3 DEF Waits, t

LEMMA NoDirectPush ==
  ASSUME NEW s \in Seq(Activation), NEW b \in Activation, NoDirect(s), ~ Direct(b)
  PROVE  NoDirect(Append(s, b))
<1> DEFINE t == Append(s, b)
<1>1. /\ Len(t) = Len(s) + 1 /\ t[Len(s) + 1] = b
      /\ \A d \in 1 .. Len(s) : t[d] = s[d]
  BY Appended
<1>2. Len(s) \in Nat
  BY LenProperties
<1> HIDE DEF t
<1>3. \A d \in 1 .. Len(t) : d \in 1 .. Len(s) \/ d = Len(s) + 1
  BY <1>1, <1>2
<1>4. NoDirect(t)
  BY <1>1, <1>3 DEF NoDirect
<1> QED
  BY <1>4 DEF t

LEMMA NoDirectPassedOn == ASSUME NEW p, NEW s, NoDirect(s) PROVE PassedOn(p, s)
BY DEF NoDirect, PassedOn

(* What is at the top may be left. *)
LEMMA FinalBelow ==
  ASSUME TypeOK, cstack # <<>>
  PROVE  /\ Waits(prog, cstack) => Waits(prog, Below)
         /\ PassedOn(prog, cstack) => PassedOn(prog, Below)
         /\ NoDirect(cstack) => NoDirect(Below)
<1>1. /\ Depth \in Nat \ {0} /\ cstack \in Seq(Activation)
      /\ Below \in Seq(Activation) /\ Len(Below) = Depth - 1
      /\ \A d \in 1 .. Depth - 1 : Below[d] = cstack[d]
  BY TopAndBelow DEF TypeOK
<1>2. Depth = Len(cstack)
  BY DEF Depth
<1> HIDE DEF Below, Depth
<1>3. \A d \in 1 .. Len(Below) : d \in 1 .. Len(cstack) /\ Below[d] = cstack[d]
  BY <1>1, <1>2
<1>4. ASSUME Waits(prog, cstack) PROVE Waits(prog, Below)
  <2>1. \A d \in 1 .. Len(Below) : d < Len(cstack) => SameButReturned(cstack[d], Below[d])
    BY <1>3 DEF SameButReturned
  <2>2. Len(Below) <= Len(cstack) /\ Len(Below) # Len(cstack)
    BY <1>1, <1>2
  <2> QED
    BY <1>1, <1>4, <2>1, <2>2, WaitsKept
<1>5. ASSUME PassedOn(prog, cstack) PROVE PassedOn(prog, Below)
  <2> SUFFICES ASSUME NEW d \in 1 .. Len(Below), Direct(Below[d]), NEW e \in d + 1 .. Len(Below)
               PROVE  Below[e].kind = "list" /\ ChildIn(prog, Below[e]) \notin {"bind", "tail"}
    BY DEF PassedOn
  <2>1. e \in 1 .. Len(Below) /\ e \in d + 1 .. Len(cstack)
    BY <1>1, <1>2
  <2> QED
    BY <1>3, <1>5, <2>1 DEF PassedOn
<1>6. ASSUME NoDirect(cstack) PROVE NoDirect(Below)
  BY <1>3, <1>6 DEF NoDirect
<1> QED
  BY <1>4, <1>5, <1>6

(* A return from the list at the top: s is the stack without the list, or  *)
(* with it, if an if statement hands the value on.                         *)
LEMMA FinalReturned ==
  ASSUME TypeOK, cstack # <<>>, Top.kind = "list", Waits(prog, cstack), NoDirect(cstack),
         NEW s \in Seq(Activation), Len(s) <= Depth,
         \A d \in 1 .. Len(s) : d < Depth => s[d] = cstack[d],
         Len(s) = Depth =>
           s[Depth].kind = "list" /\ ChildIn(prog, s[Depth]) \notin {"bind", "tail"}
  PROVE  Waits(prog, Returned(s)) /\ PassedOn(prog, Returned(s))
<1>1. Depth \in Nat \ {0} /\ cstack \in Seq(Activation) /\ Len(s) \in Nat
  BY TopAndBelow, LenProperties DEF TypeOK
<1>2. Top = cstack[Depth] /\ Depth = Len(cstack)
  BY DEF Top, Depth
<1>3. \A d \in 1 .. Len(s) : s[d].kind = cstack[d].kind
  <2> HIDE DEF Depth, Top
  <2>1. \A d \in 1 .. Len(s) : d < Depth \/ (d = Depth /\ Len(s) = Depth)
    BY <1>1
  <2> QED
    BY <1>2, <2>1
<1> DEFINE t == Returned(s)
<1>4. /\ t \in Seq(Activation) /\ Len(t) = Len(s)
      /\ \A d \in 1 .. Len(s) : SameButReturned(s[d], t[d])
      /\ \A d \in 1 .. Len(s) : ~ Innermost(d) => t[d] = s[d]
      /\ \A d \in 1 .. Len(s) : Innermost(d) => t[d].returned = EndedBy(d)
  BY <1>3, ReturnedStack
<1> HIDE DEF t
<1>5. Waits(prog, t)
  <2>1. \A d \in 1 .. Len(t) : d < Len(cstack) => SameButReturned(cstack[d], t[d])
    BY <1>2, <1>4
  <2>2. Len(t) = Len(cstack) /\ Len(cstack) # 0 => t[Len(cstack)].kind = cstack[Len(cstack)].kind
    <3>1. Len(cstack) \in 1 .. Len(cstack)
      BY <1>1, <1>2
    <3> QED
      BY <1>3, <1>4, <3>1 DEF SameButReturned
  <2> QED
    BY <1>1, <1>2, <1>4, <2>1, <2>2, WaitsKept
<1>6. PassedOn(prog, t)
  <2> SUFFICES ASSUME NEW d \in 1 .. Len(t), Direct(t[d]), NEW e \in d + 1 .. Len(t)
               PROVE  t[e].kind = "list" /\ ChildIn(prog, t[e]) \notin {"bind", "tail"}
    BY DEF PassedOn
  <2> HIDE DEF Depth, Top
  <2>1. /\ d \in 1 .. Len(s) /\ e \in 1 .. Len(s) /\ e \in d + 1 .. Depth /\ d < Depth
        /\ d \in 1 .. Len(cstack) /\ e \in 1 .. Len(cstack)
    BY <1>1, <1>2, <1>4
  <2>2. Innermost(d)
    <3>1. ~ Direct(s[d])
      BY <1>2, <2>1 DEF NoDirect
    <3> QED
      BY <1>4, <2>1, <3>1
  <2>3. EndedBy(d) = "directly"
    BY <1>4, <2>1, <2>2 DEF Direct
  <2>4. cstack[e].kind \notin {"while", "try", "switch"}
    BY <2>1, <2>3 DEF EndedBy
  <2>calls. \A f \in 1 .. Len(cstack) : f > d => cstack[f].kind # "call"
    <3> SUFFICES ASSUME NEW f \in 1 .. Len(cstack), f > d, cstack[f].kind = "call" PROVE FALSE
      OBVIOUS
    <3>1. f \in Calls
      BY <1>2 DEF Calls
    <3>2. f <= d
      BY <2>2, <3>1 DEF Innermost
    <3> QED
      BY <1>1, <3>2
  <2>5. cstack[e].kind # "call" /\ e > d
    BY <2>1, <2>calls
  <2>6. cstack[e].kind = "list"
    <3>1. cstack[e] \in Activation
      BY <1>1, <2>1, ElementOfSeq
    <3> QED
      BY <2>4, <2>5, <3>1 DEF Activation
  <2>7. t[e].kind = "list" /\ t[e] = s[e]
    BY <1>3, <1>4, <2>1, <2>6 DEF SameButReturned
  <2>8. CASE e = Depth
    <3>1. Len(s) = Depth
      BY <1>1, <2>1, <2>8
    <3> QED
      BY <2>7, <2>8, <3>1
  <2>9. CASE e < Depth
    <3>1. e \in 1 .. Len(cstack) - 1 /\ e + 1 \in 1 .. Len(cstack) /\ e + 1 > d
      BY <1>1, <1>2, <2>1, <2>9
    <3>2. cstack[e + 1].kind # "call"
      BY <2>calls, <3>1
    <3>3. ChildIn(prog, cstack[e]) \notin {"bind", "tail"}
      BY <2>6, <3>1, <3>2 DEF Waits
    <3>4. s[e] = cstack[e]
      BY <2>1, <2>9
    <3> QED
      BY <2>7, <3>3, <3>4
  <2> QED
    BY <1>1, <2>1, <2>7, <2>8, <2>9
<1> QED
  BY <1>5, <1>6 DEF t

(* The top is replaced by an activation of the same kind. *)
LEMMA FinalReplaced ==
  ASSUME TypeOK, cstack # <<>>, Waits(prog, cstack), NoDirect(cstack),
         NEW a \in Activation, a.kind = Top.kind, ~ Direct(a)
  PROVE  Append(Below, a) \in Seq(Activation)
         /\ Waits(prog, Append(Below, a)) /\ NoDirect(Append(Below, a))
<1> DEFINE t == Append(Below, a)
<1>1. /\ Depth \in Nat \ {0} /\ cstack \in Seq(Activation)
  BY TopAndBelow DEF TypeOK
<1>2. /\ t \in Seq(Activation) /\ Len(t) = Depth
      /\ \A d \in 1 .. Depth - 1 : t[d] = cstack[d]
      /\ t[Depth] = a
  BY TopReplaced
<1>3. Top = cstack[Len(cstack)] /\ Depth = Len(cstack)
  BY DEF Top, Depth
<1> HIDE DEF t, Depth, Top
<1>4. Len(t) <= Len(cstack)
  BY <1>1, <1>2, <1>3
<1>5. Waits(prog, t)
  <2>1. \A d \in 1 .. Len(t) : d < Len(cstack) => SameButReturned(cstack[d], t[d])
    BY <1>1, <1>2, <1>3 DEF SameButReturned
  <2> QED
    BY <1>1, <1>2, <1>3, <1>4, <2>1, WaitsKept
<1>6. NoDirect(t)
  <2>1. \A d \in 1 .. Len(t) : (d \in 1 .. Depth - 1 /\ d \in 1 .. Len(cstack)) \/ d = Depth
    BY <1>1, <1>2, <1>3
  <2> QED
    BY <1>2, <2>1 DEF NoDirect
<1> QED
  BY <1>2, <1>5, <1>6 DEF t

(* The list at the top begins a statement. *)
LEMMA FinalAtChild ==
  ASSUME TypeOK, NEW k, Ready(k), Waits(prog, cstack), NoDirect(cstack)
  PROVE  /\ AtChild \in Seq(Activation) /\ Waits(prog, AtChild) /\ NoDirect(AtChild)
         /\ Len(AtChild) = Depth /\ Len(AtChild) # 0
         /\ \A d \in 1 .. Depth - 1 : AtChild[d] = cstack[d]
         /\ AtChild[Len(AtChild)].kind = "list" /\ ChildIn(prog, AtChild[Len(AtChild)]) = k
<1> DEFINE a == [Top EXCEPT !.child = cursor[Top.list] + 1]
<1>1. /\ cstack # <<>> /\ Top.kind = "list" /\ a \in Activation /\ a.kind = "list"
      /\ a.list = Top.list /\ a.child = cursor[Top.list] + 1
      /\ k = prog[Top.list][cursor[Top.list] + 1]
  BY ReadyTop DEF Activation
<1>2. /\ Len(AtChild) = Depth /\ AtChild[Depth] = a
      /\ \A d \in 1 .. Depth - 1 : AtChild[d] = cstack[d]
  BY AtChildStack
<1>3. AtChild = Append(Below, a)
  BY DEF AtChild
<1>4. Depth \in Nat \ {0}
  BY <1>1, TopAndBelow
<1> HIDE DEF a, AtChild
<1>5. AtChild \in Seq(Activation) /\ Waits(prog, AtChild) /\ NoDirect(AtChild)
  BY <1>1, <1>3, FinalReplaced DEF Direct
<1>6. ChildIn(prog, a) = k
  BY <1>1 DEF ChildIn
<1> QED
  BY <1>1, <1>2, <1>4, <1>5, <1>6

(* A list is entered, or an activation opened, that is not left yet. *)
LEMMA FinalPush ==
  ASSUME NEW s \in Seq(Activation), Waits(prog, s), NoDirect(s),
         NEW b \in Activation, ~ Direct(b),
         \/ b.kind = "call"
         \/ s[Len(s)].kind # "list"
         \/ ChildIn(prog, s[Len(s)]) \notin {"bind", "tail"}
  PROVE  /\ Append(s, b) \in Seq(Activation)
         /\ Waits(prog, Append(s, b)) /\ NoDirect(Append(s, b))
         /\ Append(s, b)[Len(Append(s, b))].kind = b.kind
<1>1. /\ Append(s, b) \in Seq(Activation) /\ Len(Append(s, b)) = Len(s) + 1
      /\ Append(s, b)[Len(s) + 1] = b
  BY Appended
<1> QED
  BY <1>1, WaitsPush, NoDirectPush

(* While no value is on its way no call is being left, and after a step    *)
(* that is no return none is either.                                       *)
LEMMA CalmStep ==
  ASSUME TypeOK, Waits(prog, cstack), NoDirect(cstack), result = NULL, Next, ~ Return
  PROVE  Waits(prog, cstack') /\ NoDirect(cstack')
<1>below. cstack # <<>> => Below \in Seq(Activation) /\ Waits(prog, Below) /\ NoDirect(Below)
  BY FinalBelow, TopAndBelow
<1>started. \A l \in Block : Started(l) \in Activation /\ ~ Direct(Started(l)) /\ Started(l).kind = "list"
  BY StartedType DEF Started, Direct
<1>1. CASE Plain \/ Assign \/ Read \/ IfBreak \/ BindNative
  BY <1>1, FinalAtChild DEF Plain, Assign, Read, IfBreak, BindNative, Evaluates
<1>2. CASE Jump
  BY <1>2, <1>below, ReadyTop DEF Jump
<1>3. CASE CallF
  <2> DEFINE call == [kind |-> "call", returned |-> "no"]
  <2>1. PICK k : Ready(k) /\ Enter("f", Append(AtChild, call), Marked)
    BY <1>3 DEF CallF
  <2>2. AtChild \in Seq(Activation) /\ Waits(prog, AtChild) /\ NoDirect(AtChild)
    BY <2>1, FinalAtChild
  <2>3. call \in Activation /\ ~ Direct(call) /\ call.kind = "call"
    BY DEF Activation, Direct
  <2>4. cstack' = Append(Append(AtChild, call), Started("f"))
    BY <2>1 DEF Enter
  <2> HIDE DEF call
  <2> DEFINE s == Append(AtChild, call)
  <2>5. s \in Seq(Activation) /\ Waits(prog, s) /\ NoDirect(s) /\ s[Len(s)].kind = "call"
    BY <2>2, <2>3, FinalPush
  <2> HIDE DEF s
  <2>6. Waits(prog, Append(s, Started("f"))) /\ NoDirect(Append(s, Started("f")))
    <3>1. "f" \in Block /\ s[Len(s)].kind # "list"
      BY <2>5 DEF Block
    <3> QED
      BY <1>started, <2>5, <3>1, FinalPush
  <2> QED
    BY <2>4, <2>6 DEF s
<1>4. CASE EndList
  BY <1>4, <1>below DEF EndList
<1>compound. \A k \in Compound : k \notin {"bind", "tail"}
  BY DEF Compound
<1>5. CASE If
  <2>1. Ready("if") /\ cstack' = Append(AtChild, Started("block"))
    BY <1>5 DEF If, Enter
  <2>2. /\ AtChild \in Seq(Activation) /\ Waits(prog, AtChild) /\ NoDirect(AtChild)
        /\ ChildIn(prog, AtChild[Len(AtChild)]) = "if"
    BY <2>1, FinalAtChild
  <2>3. ChildIn(prog, AtChild[Len(AtChild)]) \notin {"bind", "tail"} /\ "block" \in Block
    BY <2>2 DEF Block
  <2> QED
    BY <1>started, <2>1, <2>2, <2>3, FinalPush
<1>opens. ASSUME NEW k \in Compound, Ready(k), NEW a \in Activation, a.kind \in {"while", "try", "switch"}
          PROVE  /\ Append(AtChild, a) \in Seq(Activation)
                 /\ Waits(prog, Append(AtChild, a)) /\ NoDirect(Append(AtChild, a))
                 /\ Append(AtChild, a)[Len(Append(AtChild, a))].kind # "list"
  <2>1. /\ AtChild \in Seq(Activation) /\ Waits(prog, AtChild) /\ NoDirect(AtChild)
        /\ ChildIn(prog, AtChild[Len(AtChild)]) = k
    BY <1>opens, FinalAtChild
  <2>2. ChildIn(prog, AtChild[Len(AtChild)]) \notin {"bind", "tail"}
    BY <1>opens, <1>compound, <2>1
  <2>3. ~ Direct(a) /\ a.kind # "list"
    BY <1>opens DEF Direct
  <2> HIDE DEF AtChild
  <2>4. /\ Append(AtChild, a) \in Seq(Activation)
        /\ Waits(prog, Append(AtChild, a)) /\ NoDirect(Append(AtChild, a))
        /\ Append(AtChild, a)[Len(Append(AtChild, a))].kind = a.kind
    BY <2>1, <2>2, <2>3, FinalPush
  <2> QED
    BY <2>3, <2>4
<1>6. CASE StartWhile
  <2> DEFINE a == [kind |-> "while"]
  <2>1. Ready("while") /\ "while" \in Compound /\ a \in Activation /\ a.kind = "while"
    BY <1>6 DEF StartWhile, Compound, Activation
  <2>2. cstack' = Append(AtChild, a)
    BY <1>6 DEF StartWhile
  <2> HIDE DEF a
  <2> QED
    BY <1>opens, <2>1, <2>2
<1>7. CASE StartSwitch
  <2> DEFINE a == [kind |-> "switch", matched |-> FALSE]
  <2>1. Ready("switch") /\ "switch" \in Compound /\ a \in Activation /\ a.kind = "switch"
    BY <1>7 DEF StartSwitch, Compound, Activation
  <2>2. cstack' = Append(AtChild, a)
    BY <1>7 DEF StartSwitch
  <2> HIDE DEF a
  <2> QED
    BY <1>opens, <2>1, <2>2
<1>8. CASE StartTry
  <2> DEFINE a == [kind |-> "try"]
             s == Append(AtChild, a)
  <2>1. Ready("try") /\ "try" \in Compound /\ a \in Activation /\ a.kind = "try"
    BY <1>8 DEF StartTry, Compound, Activation
  <2>2. cstack' = Append(s, Started("block"))
    BY <1>8 DEF StartTry, Enter
  <2> HIDE DEF a
  <2>3. s \in Seq(Activation) /\ Waits(prog, s) /\ NoDirect(s) /\ s[Len(s)].kind # "list"
    BY <1>opens, <2>1
  <2> HIDE DEF s
  <2>4. "block" \in Block
    BY DEF Block
  <2> QED
    BY <1>started, <2>2, <2>3, <2>4, FinalPush
<1>9. CASE WhileTest
  <2>1. /\ cstack # <<>> /\ cstack \in Seq(Activation) /\ cstack[Len(cstack)].kind # "list"
        /\ "block" \in Block
    BY <1>9 DEF WhileTest, In, Top, Depth, TypeOK, Block
  <2>2. CASE Enter("block", cstack, cursor)
    BY <1>started, <2>1, <2>2, FinalPush DEF Enter
  <2>3. CASE cstack' = Below
    BY <1>below, <2>1, <2>3
  <2> QED
    BY <1>9, <2>2, <2>3 DEF WhileTest
<1>10. CASE SwitchTest
  <2>1. PICK m \in {Top.matched, TRUE} :
          LET now == Append(Below, [Top EXCEPT !.matched = m])
              visited == [cursor EXCEPT !["clauses"] = @ + 1]
          IN  IF m /\ cursor["clauses"] = 0
                THEN Enter("block", now, visited)
                ELSE cstack' = now /\ cursor' = visited
    BY <1>10 DEF SwitchTest
  <2> DEFINE a == [Top EXCEPT !.matched = m]
             s == Append(Below, a)
  <2>2. cstack # <<>> /\ Top.kind = "switch" /\ a \in Activation /\ a.kind = "switch"
    BY <1>10, SwitchTop DEF SwitchTest, Activation
  <2>3. cstack' = Append(s, Started("block")) \/ cstack' = s
    BY <2>1 DEF Enter
  <2> HIDE DEF a
  <2>4. ~ Direct(a)
    BY <2>2 DEF Direct
  <2>5. s \in Seq(Activation) /\ Waits(prog, s) /\ NoDirect(s)
    BY <2>2, <2>4, FinalReplaced
  <2>6. s[Len(s)].kind # "list"
    BY <2>2, TopReplaced
  <2> HIDE DEF s
  <2>7. Waits(prog, Append(s, Started("block"))) /\ NoDirect(Append(s, Started("block")))
    <3>1. "block" \in Block
      BY DEF Block
    <3> QED
      BY <1>started, <2>5, <2>6, <3>1, FinalPush
  <2> QED
    BY <2>3, <2>5, <2>7
<1>11. CASE SwitchEnd
  <2>1. cstack # <<>> /\ Top.kind = "switch"
    BY <1>11 DEF SwitchEnd, In
  <2>2. CASE cstack' = Append(Below, Started("default"))
    <3>1. /\ Depth \in Nat \ {0} /\ cstack \in Seq(Activation)
          /\ Below \in Seq(Activation) /\ Len(Below) = Depth - 1
          /\ \A d \in 1 .. Depth - 1 : Below[d] = cstack[d]
      BY <2>1, TopAndBelow DEF TypeOK
    <3>2. Top = cstack[Len(cstack)] /\ Depth = Len(cstack)
      BY DEF Top, Depth
    <3> HIDE DEF Below, Top, Depth
    <3>3. Len(Below) # 0 => Below[Len(Below)].kind # "list" \/ ChildIn(prog, Below[Len(Below)]) \notin {"bind", "tail"}
      <4> SUFFICES ASSUME Len(Below) # 0, Below[Len(Below)].kind = "list",
                          ChildIn(prog, Below[Len(Below)]) \in {"bind", "tail"}
                   PROVE  FALSE
        OBVIOUS
      <4>1. Depth - 1 \in 1 .. Len(cstack) - 1 /\ Below[Len(Below)] = cstack[Depth - 1] /\ Depth - 1 + 1 = Depth
        BY <3>1, <3>2
      <4>2. cstack[Depth - 1 + 1].kind = "call"
        BY <4>1 DEF Waits
      <4> QED
        BY <2>1, <3>2, <4>1, <4>2
    <3>4. CASE Len(Below) # 0
      BY <1>below, <1>started, <2>1, <2>2, <3>1, <3>3, <3>4, FinalPush DEF Block
    <3>5. CASE Len(Below) = 0
      <4>1. Len(cstack') = 1 /\ cstack'[1] = Started("default")
        <5>1. Started("default") \in Activation
          BY <1>started DEF Block
        <5> QED
          BY <2>2, <3>1, <3>5, <5>1, Appended
      <4> QED
        BY <1>started, <4>1 DEF Waits, NoDirect, Block
    <3> QED
      BY <3>4, <3>5
  <2>3. CASE cstack' = Below
    BY <1>below, <2>1, <2>3
  <2> QED
    BY <1>11, <2>2, <2>3 DEF SwitchEnd, Enter
<1>12. CASE UNCHANGED vars
  BY <1>12 DEF vars
<1> QED
  BY <1>1, <1>2, <1>3, <1>4, <1>5, <1>6, <1>7, <1>8, <1>9, <1>10, <1>11, <1>12
     DEF Next, Ended, EndCall, ReturnCall, Bind, Receive, Receives, WhileBody, EndTry, SwitchBody

LEMMA FinalStep == TypeOK /\ FinalInv /\ [Next]_vars => FinalInv'
<1> SUFFICES ASSUME TypeOK, FinalInv, [Next]_vars PROVE FinalInv'
  OBVIOUS
<1>prog. prog' = prog
  BY ProgStays
<1>inv. /\ Waits(prog, cstack) /\ PassedOn(prog, cstack)
        /\ (result # NULL /\ Flagged(result)) \/ NoDirect(cstack)
  BY DEF FinalInv
<1>calm. ASSUME Waits(prog, cstack'), NoDirect(cstack') PROVE FinalInv'
  BY <1>prog, <1>calm, NoDirectPassedOn DEF FinalInv
<1>types. cstack \in Seq(Activation)
  BY DEF TypeOK
<1>below. cstack # <<>> => /\ Waits(prog, Below)
                           /\ PassedOn(prog, Below)
                           /\ NoDirect(cstack) => NoDirect(Below)
  BY <1>inv, FinalBelow
<1>flag. ASSUME NEW v, Flag(v) PROVE result' # NULL /\ Flagged(result)'
  <2>1. result' \in {"x", "break"}
    BY <1>flag DEF Flag
  <2>2. result' # NULL
    BY <2>1, NullIsNoValue DEF Value
  <2>3. Flagged(result)' <=> (result' = "break" \/ (result' = "x" /\ xflag'))
    BY DEF Flagged
  <2>4. CASE v = "x"
    <3>1. result' = "x" /\ xflag' = TRUE
      BY <1>flag, <2>4 DEF Flag
    <3> QED
      BY <2>2, <2>3, <3>1
  <2>5. CASE v # "x"
    <3>1. result' = "break"
      BY <1>flag, <2>5 DEF Flag
    <3> QED
      BY <2>2, <2>3, <3>1
  <2> QED
    BY <2>4, <2>5
<1>1. CASE result = NULL /\ Next /\ ~ Return
  <2>1. NoDirect(cstack)
    BY <1>1, <1>inv
  <2> QED
    BY <1>1, <1>inv, <1>calm, <2>1, CalmStep
<1>2. CASE Return
  <2>1. PICK k, v : /\ Ready(k) /\ Flag(v)
                    /\ \/ cstack' = Returned(Below)
                       \/ cstack' = Returned(AtChild) /\ k = "ifReturn"
    BY <1>2 DEF Return
  <2>2. NoDirect(cstack) /\ cstack # <<>> /\ Top.kind = "list"
    BY <1>inv, <2>1, ReadyTop DEF Ready
  <2>3. CASE cstack' = Returned(Below)
    <3>1. /\ Depth \in Nat \ {0} /\ Below \in Seq(Activation) /\ Len(Below) = Depth - 1
          /\ \A d \in 1 .. Depth - 1 : Below[d] = cstack[d]
      BY <2>2, TopAndBelow
    <3> HIDE DEF Below, Depth
    <3>2. Len(Below) <= Depth /\ Len(Below) # Depth /\ \A d \in 1 .. Len(Below) : d < Depth => Below[d] = cstack[d]
      BY <3>1
    <3>3. Waits(prog, Returned(Below)) /\ PassedOn(prog, Returned(Below))
      BY <1>inv, <2>2, <3>1, <3>2, FinalReturned
    <3> QED
      BY <1>prog, <1>flag, <2>1, <2>3, <3>3 DEF FinalInv
  <2>4. CASE cstack' = Returned(AtChild) /\ k = "ifReturn"
    <3>1. /\ AtChild \in Seq(Activation) /\ Len(AtChild) = Depth
          /\ \A d \in 1 .. Depth - 1 : AtChild[d] = cstack[d]
          /\ AtChild[Len(AtChild)].kind = "list" /\ ChildIn(prog, AtChild[Len(AtChild)]) = "ifReturn"
      BY <1>inv, <2>1, <2>2, <2>4, FinalAtChild
    <3>2. Depth \in Nat \ {0}
      BY <2>2, TopAndBelow
    <3> HIDE DEF AtChild, Depth
    <3>3. /\ Len(AtChild) <= Depth
          /\ \A d \in 1 .. Len(AtChild) : d < Depth => AtChild[d] = cstack[d]
          /\ AtChild[Depth].kind = "list" /\ ChildIn(prog, AtChild[Depth]) \notin {"bind", "tail"}
      BY <3>1, <3>2
    <3>4. Waits(prog, Returned(AtChild)) /\ PassedOn(prog, Returned(AtChild))
      BY <1>inv, <2>2, <3>1, <3>3, FinalReturned
    <3> QED
      BY <1>prog, <1>flag, <2>1, <2>4, <3>4 DEF FinalInv
  <2> QED
    BY <2>1, <2>3, <2>4
<1>leaving. ASSUME ~ NoDirect(cstack)
            PROVE  /\ result # NULL /\ Flagged(result) /\ cstack # <<>>
                   /\ \/ Top.kind = "list" /\ ChildIn(prog, Top) \notin {"bind", "tail"}
                      \/ Top.kind = "call" /\ NoDirect(Below)
  <2>1. PICK d \in 1 .. Len(cstack) : Direct(cstack[d])
    BY <1>leaving DEF NoDirect
  <2>2. Len(cstack) \in Nat /\ cstack # <<>>
    BY <1>types, <2>1, LenProperties, EmptySeq
  <2>3. Top = cstack[Len(cstack)] /\ Depth = Len(cstack)
    BY DEF Top, Depth
  <2>4. /\ Depth \in Nat \ {0} /\ Len(Below) = Depth - 1
        /\ \A e \in 1 .. Depth - 1 : Below[e] = cstack[e]
    BY <2>2, TopAndBelow
  <2> HIDE DEF Top, Depth, Below
  <2>5. CASE d = Len(cstack)
    <3>1. Top.kind = "call"
      BY <2>1, <2>3, <2>5 DEF Direct
    <3>2. NoDirect(Below)
      <4> SUFFICES ASSUME NEW e \in 1 .. Len(Below), Direct(Below[e]) PROVE FALSE
        BY DEF NoDirect
      <4>1. e \in 1 .. Len(cstack) /\ Len(cstack) \in e + 1 .. Len(cstack) /\ Below[e] = cstack[e]
        BY <2>2, <2>3, <2>4
      <4>2. cstack[Len(cstack)].kind = "list"
        BY <1>inv, <4>1 DEF PassedOn
      <4> QED
        BY <2>3, <3>1, <4>2
    <3> QED
      BY <1>inv, <1>leaving, <2>2, <3>1, <3>2
  <2>6. CASE d # Len(cstack)
    <3>1. Len(cstack) \in d + 1 .. Len(cstack)
      BY <2>2, <2>6
    <3>2. Top.kind = "list" /\ ChildIn(prog, Top) \notin {"bind", "tail"}
      BY <1>inv, <2>1, <2>3, <3>1 DEF PassedOn
    <3> QED
      BY <1>inv, <1>leaving, <2>2, <3>2
  <2> QED
    BY <2>5, <2>6
<1>child. Child(Top) = ChildIn(prog, Top)
  BY DEF Child, ChildIn
<1>3. CASE EndCall
  <2>1. cstack' = Below /\ Top.kind = "call" /\ cstack # <<>>
    BY <1>3 DEF EndCall
  <2>2. NoDirect(Below)
    BY <1>below, <1>leaving, <2>1
  <2> QED
    BY <1>below, <1>calm, <2>1, <2>2
<1>4. CASE ReturnCall
  <2>1. /\ cstack # <<>> /\ Top.kind = "list" /\ Child(Top) = "tail"
        /\ Flag(result) /\ cstack' = Returned(Below)
    BY <1>4 DEF ReturnCall, Receives
  <2>2. NoDirect(cstack)
    BY <1>leaving, <1>child, <2>1
  <2>3. /\ Depth \in Nat \ {0} /\ Below \in Seq(Activation) /\ Len(Below) = Depth - 1
        /\ \A d \in 1 .. Depth - 1 : Below[d] = cstack[d]
    BY <2>1, TopAndBelow
  <2>4. Waits(prog, Returned(Below)) /\ PassedOn(prog, Returned(Below))
    <3> HIDE DEF Below, Depth, Top
    <3>1. Len(Below) <= Depth /\ Len(Below) # Depth /\ \A d \in 1 .. Len(Below) : d < Depth => Below[d] = cstack[d]
      BY <2>3
    <3> QED
      BY <1>inv, <2>1, <2>2, <2>3, <3>1, FinalReturned
  <2> QED
    BY <1>prog, <1>flag, <2>1, <2>4 DEF FinalInv
<1>goesOn. ASSUME cstack # <<>>, Top.kind = "list", NEW v \in Value, GoOn(v), NoDirect(cstack)
           PROVE  FinalInv'
  <2> DEFINE a == [Top EXCEPT !.last = v]
  <2>1. a \in Activation /\ a.kind = Top.kind /\ ~ Direct(a)
    BY <1>goesOn, ReceivingTop DEF Activation, Direct
  <2> HIDE DEF a
  <2>2. Waits(prog, Append(Below, a)) /\ NoDirect(Append(Below, a))
    BY <1>goesOn, <1>inv, <2>1, FinalReplaced
  <2> QED
    BY <1>goesOn, <1>calm, <2>2 DEF GoOn, a
<1>5. CASE Bind
  <2>1. cstack # <<>> /\ Top.kind = "list" /\ Child(Top) = "bind" /\ GoOn("plain") /\ "plain" \in Value
    BY <1>5 DEF Bind, Receives, Value
  <2>2. NoDirect(cstack)
    BY <1>leaving, <1>child, <2>1
  <2> QED
    BY <1>goesOn, <2>1, <2>2
<1>6. CASE Receive
  <2>1. result \in Value /\ cstack # <<>> /\ Top.kind = "list" /\ result # NULL
    BY <1>6 DEF Receive, Receives, TypeOK
  <2>2. CASE Flagged(result)
    <3>1. cstack' = Below /\ result' = result /\ xflag' = xflag
      BY <1>6, <2>2 DEF Receive
    <3>2. result' # NULL /\ Flagged(result)'
      BY <2>1, <2>2, <3>1 DEF Flagged
    <3> QED
      BY <1>prog, <1>below, <2>1, <3>1, <3>2 DEF FinalInv
  <2>3. CASE ~ Flagged(result)
    BY <1>6, <1>inv, <1>goesOn, <2>1, <2>3 DEF Receive
  <2> QED
    BY <2>2, <2>3
<1>7. CASE WhileBody \/ EndTry \/ SwitchBody
  <2>1. cstack # <<>> /\ Top.kind \in {"while", "try", "switch"}
    BY <1>7 DEF WhileBody, EndTry, SwitchBody, In
  <2>2. NoDirect(cstack)
    BY <1>leaving, <2>1
  <2>3. cstack' = Below \/ cstack' = cstack
    BY <1>7 DEF WhileBody, EndTry, SwitchBody
  <2> QED
    BY <1>inv, <1>below, <1>calm, <2>1, <2>2, <2>3
<1>8. CASE UNCHANGED vars
  BY <1>8, <1>inv DEF vars, FinalInv, Flagged
<1>9. Next => result = NULL \/ Return \/ EndCall \/ ReturnCall \/ Bind \/ Receive \/ WhileBody \/ EndTry
                \/ SwitchBody \/ UNCHANGED vars
  BY DEF Next, Plain, Assign, Read, IfBreak, BindNative, Jump, CallF, EndList, If, StartWhile, StartTry,
         StartSwitch, WhileTest, SwitchTest, SwitchEnd, Ready, Ended
<1> QED
  BY <1>1, <1>2, <1>3, <1>4, <1>5, <1>6, <1>7, <1>8, <1>9

LEMMA FinalInit == Init => FinalInv
<1> SUFFICES ASSUME Init PROVE FinalInv
  OBVIOUS
<1>1. Started("main") \in Activation /\ Started("main").kind = "list"
  BY StartedType DEF Block, Started
<1>2. Len(cstack) = 1 /\ cstack[1] = Started("main")
  BY <1>1 DEF Init
<1>3. \A d \in 1 .. Len(cstack) : d = 1
  BY <1>2
<1>4. NoDirect(cstack)
  BY <1>1, <1>2, <1>3 DEF NoDirect, Direct
<1>5. Waits(prog, cstack)
  BY <1>2 DEF Waits
<1> QED
  BY <1>4, <1>5, NoDirectPassedOn DEF FinalInv

(* A return that is executed directly, not in a loop, a switch or a try,   *)
(* ends its function: from then on no statement begins before the call     *)
(* has been left, whatever f, the main list and the block are.             *)
THEOREM ReturnsEndFunctions == Spec => DirectReturnIsFinal
<1>1. TypeOK /\ FinalInv /\ [Next]_vars => [NothingAfter({"directly"})]_vars
  <2> SUFFICES ASSUME TypeOK, FinalInv, Next,
                      NEW d \in Calls, cstack[d].returned = "directly", NEW l \in Block
               PROVE  cursor'[l] <= cursor[l]
    BY DEF NothingAfter
  <2>1. result # NULL
    BY DEF FinalInv, NoDirect, Direct, Calls, Depth
  <2>2. UNCHANGED cursor
    BY <2>1 DEF Next, Plain, Assign, Read, IfBreak, BindNative, Jump, Return, CallF, EndList, If, StartWhile,
         StartTry, StartSwitch, WhileTest, SwitchTest, SwitchEnd, Ready, Ended, vars,
         EndCall, ReturnCall, Bind, Receive, WhileBody, EndTry, SwitchBody
  <2>3. cursor[l] \in 0 .. 2
    BY DEF TypeOK, List
  <2> QED
    BY <2>2, <2>3
<1> QED
  BY <1>1, FinalInit, FinalStep, TypeCorrect, PTL DEF Spec, DirectReturnIsFinal

-----------------------------------------------------------------------------
(* Bindings go on.                                                         *)

(* The steps that may leave the activation at the top. *)
Leaves == \/ Jump \/ Return \/ EndCall \/ ReturnCall \/ Receive \/ EndList
          \/ In("while") \/ In("try") \/ In("switch")

(* A step leaves one activation at most. *)
LEMMA LeavesOne ==
  ASSUME TypeOK, [Next]_vars, cstack # <<>>
  PROVE  /\ Len(cstack') >= Depth - 1
         /\ Len(cstack') >= Depth \/ Leaves
<1>types. /\ Depth \in Nat \ {0} /\ cstack \in Seq(Activation) /\ Depth = Len(cstack)
          /\ Below \in Seq(Activation) /\ Len(Below) = Depth - 1
  BY TopAndBelow DEF TypeOK, Depth
<1>returned. Len(Returned(Below)) = Depth - 1
  BY <1>types, BelowKinds, ReturnedStack
<1>atChild. \A k : Ready(k) => AtChild \in Seq(Activation) /\ Len(AtChild) = Depth
  BY AtChildStack
<1>returnedAtChild. \A k : Ready(k) => Len(Returned(AtChild)) = Depth
  BY AtChildStack, AtChildKinds, ReturnedStack
<1>replaced. \A a \in Activation : Append(Below, a) \in Seq(Activation) /\ Len(Append(Below, a)) = Depth
  BY TopReplaced
<1>append. \A s \in Seq(Activation), a \in Activation :
             Append(s, a) \in Seq(Activation) /\ Len(Append(s, a)) = Len(s) + 1
  BY Appended
<1>started. \A l \in Block : Started(l) \in Activation
  BY StartedType
<1> HIDE DEF Below, Depth, AtChild
<1>popped. ASSUME cstack' \in {Below, Returned(Below)}, Leaves
           PROVE  Len(cstack') >= Depth - 1 /\ (Len(cstack') >= Depth \/ Leaves)
  BY <1>popped, <1>types, <1>returned
<1>stays. ASSUME Len(cstack') \in {Depth, Depth + 1, Depth + 2}
          PROVE  Len(cstack') >= Depth - 1 /\ (Len(cstack') >= Depth \/ Leaves)
  BY <1>stays, <1>types
<1>1. CASE Plain \/ Assign \/ Read \/ IfBreak \/ BindNative
  BY <1>1, <1>atChild, <1>stays DEF Plain, Assign, Read, IfBreak, BindNative, Evaluates
<1>2. CASE Jump \/ EndCall \/ ReturnCall \/ EndList \/ EndTry
  BY <1>2, <1>popped DEF Leaves, Jump, EndCall, ReturnCall, EndList, EndTry
<1>3. CASE Return
  BY <1>3, <1>popped, <1>stays, <1>returnedAtChild DEF Return, Leaves
<1>4. CASE CallF
  <2> DEFINE call == [kind |-> "call", returned |-> "no"]
  <2>1. PICK k : Ready(k) /\ cstack' = Append(Append(AtChild, call), Started("f"))
    BY <1>4 DEF CallF, Enter
  <2>2. call \in Activation /\ Started("f") \in Activation
    BY <1>started DEF Activation, Block
  <2> HIDE DEF call
  <2>3. Append(AtChild, call) \in Seq(Activation) /\ Len(Append(AtChild, call)) = Depth + 1
    BY <1>atChild, <1>append, <2>1, <2>2
  <2>4. Len(cstack') = Depth + 1 + 1
    BY <1>append, <2>1, <2>2, <2>3
  <2> QED
    BY <1>types, <1>stays, <2>4
<1>goesOn. ASSUME Top.kind = "list", NEW v \in Value, GoOn(v) PROVE Len(cstack') = Depth
  <2>1. [Top EXCEPT !.last = v] \in Activation
    BY <1>goesOn, ReceivingTop DEF Activation
  <2> QED
    BY <1>replaced, <1>goesOn, <2>1 DEF GoOn
<1>5. CASE Bind
  BY <1>5, <1>goesOn, <1>stays DEF Bind, Receives, Value
<1>6. CASE Receive
  <2>1. result \in Value /\ Top.kind = "list"
    BY <1>6 DEF Receive, Receives, TypeOK
  <2>2. cstack' = Below \/ GoOn(result)
    BY <1>6 DEF Receive
  <2> QED
    BY <1>6, <1>popped, <1>goesOn, <1>stays, <2>1, <2>2 DEF Leaves
<1>7. CASE If
  <2>1. Ready("if") /\ cstack' = Append(AtChild, Started("block")) /\ Started("block") \in Activation
    BY <1>7, <1>started DEF If, Enter, Block
  <2> QED
    BY <1>atChild, <1>append, <1>stays, <2>1
<1>8. CASE StartWhile \/ StartSwitch
  <2>1. PICK k \in Kind, a \in Activation : Ready(k) /\ cstack' = Append(AtChild, a)
    <3>1. /\ [kind |-> "while"] \in Activation /\ [kind |-> "switch", matched |-> FALSE] \in Activation
          /\ "while" \in Kind /\ "switch" \in Kind
      BY DEF Activation, Kind, Compound
    <3>2. CASE StartWhile
      <4>1. Ready("while") /\ cstack' = Append(AtChild, [kind |-> "while"])
        BY <3>2 DEF StartWhile
      <4>2. \E a \in Activation : cstack' = Append(AtChild, a)
        BY <3>1, <4>1
      <4> QED
        BY <3>1, <4>1, <4>2
    <3>3. CASE StartSwitch
      <4>1. Ready("switch") /\ cstack' = Append(AtChild, [kind |-> "switch", matched |-> FALSE])
        BY <3>3 DEF StartSwitch
      <4>2. \E a \in Activation : cstack' = Append(AtChild, a)
        BY <3>1, <4>1
      <4> QED
        BY <3>1, <4>1, <4>2
    <3> QED
      BY <1>8, <3>2, <3>3
  <2> QED
    BY <1>atChild, <1>append, <1>stays, <2>1
<1>9. CASE StartTry
  <2> DEFINE a == [kind |-> "try"]
  <2>1. Ready("try") /\ cstack' = Append(Append(AtChild, a), Started("block"))
    BY <1>9 DEF StartTry, Enter
  <2>2. a \in Activation /\ Started("block") \in Activation
    BY <1>started DEF Activation, Block
  <2> HIDE DEF a
  <2>3. Append(AtChild, a) \in Seq(Activation) /\ Len(Append(AtChild, a)) = Depth + 1
    BY <1>atChild, <1>append, <2>1, <2>2
  <2>4. Len(cstack') = Depth + 1 + 1
    BY <1>append, <2>1, <2>2, <2>3
  <2> QED
    BY <1>types, <1>stays, <2>4
<1>10. CASE WhileTest
  <2>1. Started("block") \in Activation
    BY <1>started DEF Block
  <2>2. cstack' = Below \/ cstack' = Append(cstack, Started("block"))
    BY <1>10 DEF WhileTest, Enter
  <2>3. Leaves
    BY <1>10 DEF WhileTest, Leaves
  <2>4. Append(cstack, Started("block")) \in Seq(Activation) /\ Len(Append(cstack, Started("block"))) = Depth + 1
    BY <1>types, <1>append, <2>1
  <2> QED
    BY <1>popped, <1>stays, <2>2, <2>3, <2>4
<1>11. CASE WhileBody \/ SwitchBody
  BY <1>11, <1>types, <1>popped, <1>stays DEF WhileBody, SwitchBody, Leaves
<1>12. CASE SwitchTest
  <2>1. PICK m \in {Top.matched, TRUE} :
          LET now == Append(Below, [Top EXCEPT !.matched = m])
              visited == [cursor EXCEPT !["clauses"] = @ + 1]
          IN  IF m /\ cursor["clauses"] = 0
                THEN Enter("block", now, visited)
                ELSE cstack' = now /\ cursor' = visited
    BY <1>12 DEF SwitchTest
  <2> DEFINE a == [Top EXCEPT !.matched = m]
  <2>2. a \in Activation
    BY <1>12, SwitchTop DEF SwitchTest, Activation
  <2>3. cstack' = Append(Append(Below, a), Started("block")) \/ cstack' = Append(Below, a)
    BY <2>1 DEF Enter
  <2> HIDE DEF a
  <2>4. Started("block") \in Activation
    BY <1>started DEF Block
  <2>5. Append(Below, a) \in Seq(Activation) /\ Len(Append(Below, a)) = Depth
    BY <1>replaced, <2>2
  <2> QED
    BY <1>append, <1>stays, <2>3, <2>4, <2>5
<1>13. CASE SwitchEnd
  <2>1. Started("default") \in Activation
    BY <1>started DEF Block
  <2>2. cstack' = Below \/ cstack' = Append(Below, Started("default"))
    BY <1>13 DEF SwitchEnd, Enter
  <2> QED
    BY <1>13, <1>popped, <1>replaced, <1>stays, <2>1, <2>2 DEF Leaves, SwitchEnd
<1>14. CASE UNCHANGED vars
  BY <1>14, <1>types, <1>stays DEF vars
<1> QED
  BY <1>1, <1>2, <1>3, <1>4, <1>5, <1>6, <1>7, <1>8, <1>9, <1>10, <1>11, <1>12, <1>13, <1>14 DEF Next, Ended

(* If the main list does not return by itself, and f recurs in return      *)
(* statements only, then a value that f has returned and var binds, flag   *)
(* and all, never ends the list: bindings that have another statement      *)
(* behind them stay until it is begun.                                     *)
THEOREM BindingsGoOn == Spec => BindingGoesOn
<1>1. ASSUME TypeOK, OrderInv, [Next]_vars, RecursInReturns, MainGoesOn,
             NEW d \in 1 .. Depth, Awaits("bind", cstack[d]), cstack[d].child = 1
      PROVE  Len(cstack') >= d
  <2>1. /\ cstack \in Seq(Activation) /\ Depth = Len(cstack) /\ Top = cstack[Depth]
        /\ Depth \in Nat
    BY <1>1, LenProperties DEF TypeOK, Depth, Top
  <2>2. cstack # <<>>
    <3>1. Len(cstack) # 0
      BY <1>1, <2>1
    <3> QED
      BY <2>1, <3>1, EmptySeq
  <2>3. Len(cstack') >= Depth - 1 /\ (Len(cstack') >= Depth \/ Leaves)
    BY <1>1, <2>2, LeavesOne
  <2>4. Len(cstack') \in Nat
    BY <1>1, TypeStep, LenProperties DEF TypeOK
  <2>5. CASE d < Depth
    BY <2>1, <2>3, <2>4, <2>5
  <2>6. CASE d = Depth
    <3> HIDE DEF Below, Depth
    <3>1. Top.kind = "list" /\ Top.child = 1 /\ Child(Top) = "bind"
      BY <1>1, <2>1, <2>6 DEF Awaits
    <3>2. Top.list = "main"
      <4>1. Top \in Activation
        BY <2>2, <1>1, TopAndBelow
      <4>2. Top.list \in Block
        BY <3>1, <4>1 DEF Activation
      <4>3. prog[Top.list][1] = "bind"
        BY <3>1 DEF Child
      <4>4. prog["default"][1] = "plain"
        BY <1>1 DEF TypeOK
      <4> QED
        BY <1>1, <4>2, <4>3, <4>4 DEF Block, RecursInReturns
    <3>3. cursor["main"] = 1
      <4>1. ~ LeavingIn(prog, cstack, IsFlagged, d)
        BY <2>1, <2>6, <3>1 DEF LeavingIn, AwaitsIn, ChildIn, Child
      <4>2. InPlace(cursor, Top)
        <5>1. Recurs(prog) /\ d \in 1 .. Len(cstack)
          BY <1>1, <2>1 DEF Recurs, RecursInReturns
        <5> QED
          BY <1>1, <2>1, <2>6, <4>1, <5>1 DEF OrderInv, Ordered
      <4> QED
        BY <3>1, <3>2, <4>2 DEF InPlace
    <3>4. ASSUME NEW k, Ready(k) PROVE k \notin {"return", "returnX", "tail", "break", "continue"}
      BY <1>1, <3>2, <3>3, <3>4 DEF Ready, MainGoesOn
    <3>5. ~ Jump
      BY <3>4 DEF Jump
    <3>6. ~ EndList
      BY <3>2, <3>3 DEF EndList, Length
    <3>7. ~ ReturnCall /\ ~ Receive
      BY <3>1 DEF ReturnCall, Receive, Receives
    <3>8. Return => Len(cstack') = Depth
      <4> SUFFICES ASSUME Return PROVE Len(cstack') = Depth
        OBVIOUS
      <4>1. Ready("ifReturn") /\ cstack' = Returned(AtChild)
        BY <3>4 DEF Return
      <4>2. Len(AtChild) = Depth
        BY <1>1, <4>1, AtChildStack
      <4> QED
        BY <1>1, <4>1, <4>2, AtChildKinds, ReturnedStack
    <3>9. ~ EndCall /\ ~ In("while") /\ ~ In("try") /\ ~ In("switch")
      BY <3>1 DEF EndCall, In
    <3>10. Len(cstack') >= Depth
      BY <2>1, <2>3, <3>5, <3>6, <3>7, <3>8, <3>9 DEF Leaves
    <3> QED
      BY <2>6, <3>10
  <2> QED
    BY <1>1, <2>1, <2>5, <2>6
<1>2. TypeOK /\ OrderInv /\ [Next]_vars =>
        [ RecursInReturns /\ MainGoesOn =>
            \A d \in 1 .. Depth :
              Awaits("bind", cstack[d]) /\ cstack[d].child = 1 => Len(cstack') >= d ]_vars
  BY <1>1
<1> QED
  BY <1>2, OrderInit, OrderNext, TypeCorrect, PTL DEF Spec, BindingGoesOn
=============================================================================
