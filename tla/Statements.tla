----------------------------- MODULE Statements -----------------------------
(***************************************************************************)
(* Statement lists, loops, switches and calls of eval.c.  Two things are   *)
(* shared that an evaluator usually keeps apart:                           *)
(*                                                                         *)
(*  - where an evaluation stands in a list is kept in the syntax tree      *)
(*    itself, in the visited flags of nodes.c, one for all activations;    *)
(*  - that a list, loop or function is being left is a flag on the value   *)
(*    it returns (signal = S_BREAK), one for break and return, and it      *)
(*    stays on the value.                                                  *)
(*                                                                         *)
(* The program is a function f, a main list that calls it, and one block   *)
(* and one default clause inside f, with any statements of the given       *)
(* kinds.  Data is left out: a condition may turn out either way, and one  *)
(* variable x stands for all places where a value can be kept.             *)
(***************************************************************************)
EXTENDS Integers, Sequences

CONSTANTS
  MainKinds, FKinds, BlockKinds,  (* the statements that programs use      *)
  MaxCalls,                       (* bound: calls of f open at a time      *)
  NULL                            (* no value is being returned            *)

(* Statements, by what eval.c does with them:                              *)
(*   plain               an expression whose value is new                  *)
(*   assign, read        x = new value;   x;                               *)
(*   call, bind          f();             var x = f();                     *)
(*   return, returnX     return new value;   return x;                     *)
(*   tail                return f();                                       *)
(*   ifReturn, ifBreak   if (...) return new value;   if (...) break;      *)
(*   break, continue                                                       *)
(*   if, while, try, switch   around the block                             *)
Compound == {"if", "while", "try", "switch"}
Kind == Compound \cup
  {"plain", "assign", "read", "call", "bind", "return", "returnX", "tail",
   "ifReturn", "ifBreak", "break", "continue"}

(* The statement lists of the tree, and the clause list of the switch: a   *)
(* case with the block as its body, then a case without one.               *)
Block == {"main", "f", "block", "default"}
List == Block \cup {"clauses"}
NumClauses == 2

Length(l) == IF l = "default" THEN 1 ELSE 2

ASSUME StatementsAssumption ==
  /\ MainKinds \subseteq Kind \ Compound
  /\ FKinds \subseteq Kind
  /\ BlockKinds \subseteq Kind \ Compound
  /\ MaxCalls \in Nat
  /\ NULL \notin Kind \cup {"x"}

VARIABLES
  prog,     (* the lists of the syntax tree; never changes                 *)
  cursor,   (* how many elements of a list have their visited flag set     *)
  cstack,   (* the C activations that matter, the innermost last           *)
  result,   (* the value being returned to the innermost, or NULL          *)
  xflag     (* the signal of the value that x holds is S_BREAK             *)

vars == <<prog, cursor, cstack, result, xflag>>

(* A value on its way up: new and unflagged, new and flagged, or x's.      *)
Value == {"plain", "break", "x"}

Flagged(v) == v = "break" \/ (v = "x" /\ xflag)

(*   "list"    stmt_lst: child is the statement it has popped, last the    *)
(*             value of the one before                                     *)
(*   "call"    call_exp on f; returned is history: a return statement of   *)
(*             this call has been executed, directly in f's lists, or      *)
(*             inside a loop, a switch or a try                            *)
(*   "while", "try", "switch"   with the flag matched of the last          *)
Activation ==
       [kind : {"list"}, list : Block, child : 0 .. 2, last : Value]
  \cup [kind : {"call"}, returned : {"no", "directly", "inside"}]
  \cup [kind : {"while", "try"}]
  \cup [kind : {"switch"}, matched : BOOLEAN]

Depth == Len(cstack)
Top == cstack[Depth]
Below == SubSeq(cstack, 1, Depth - 1)

(* The statement that a list is evaluating. *)
Child(a) == prog[a.list][a.child]

Started(l) == [kind |-> "list", list |-> l, child |-> 0, last |-> "plain"]

(* Programs that a parser could have built: one compound statement owns    *)
(* the block, and break and continue are in a loop or switch.              *)
WellFormed(p) ==
  LET compounds == {p["f"][i] : i \in 1 .. 2} \cap Compound
      inBlock   == {p["block"][i] : i \in 1 .. 2}
  IN  /\ p["f"][1] \in Compound => p["f"][2] \notin Compound
      /\ inBlock \cap {"break", "ifBreak"} # {} => compounds \subseteq {"while", "switch"}
      /\ "continue" \in inBlock => compounds \subseteq {"while"}
      /\ compounds = {} => p["block"] = <<"plain", "plain">>

Init ==
  /\ \E m \in [1 .. 2 -> MainKinds], f \in [1 .. 2 -> FKinds], b \in [1 .. 2 -> BlockKinds] :
       prog = [l \in Block |-> CASE l = "main" -> m [] l = "f" -> f
                                 [] l = "block" -> b [] OTHER -> <<"plain">>]
  /\ WellFormed(prog)
  /\ cursor = [l \in List |-> 0]
  /\ cstack = <<Started("main")>>
  /\ result = NULL
  /\ xflag = FALSE

-----------------------------------------------------------------------------
(* Statement lists.                                                        *)

(* A mutant: the list is taken up where its last evaluation left it.       *)
MutEnter(l, outer, visited) ==
  /\ cstack' = Append(outer, Started(l))
  /\ cursor' = visited

(* stmt_lst is called: node_rewind, then its loop.  (src_lst scans f's     *)
(* list for declarations before that, and rewinds it too.)                 *)
Enter(l, outer, visited) ==
  /\ cstack' = Append(outer, Started(l))
  /\ cursor' = [visited EXCEPT ![l] = 0]

(* The loop of stmt_lst finds a statement that is not visited, of kind k,  *)
(* and marks it.                                                           *)
Ready(k) ==
  /\ result = NULL
  /\ cstack # <<>> /\ Top.kind = "list"
  /\ cursor[Top.list] < Length(Top.list)
  /\ prog[Top.list][cursor[Top.list] + 1] = k

(* A mutant: node_pop forgets to set the flag.                             *)
MutMarked == cursor

Marked == [cursor EXCEPT ![Top.list] = @ + 1]
AtChild == Append(Below, [Top EXCEPT !.child = cursor[Top.list] + 1])

(* The statement is done at once, with value v. *)
Evaluates(v) ==
  /\ cursor' = Marked
  /\ cstack' = AtChild
  /\ result' = v
  /\ UNCHANGED prog

(* An expression; an f that is a native function; a condition that fails. *)
Plain ==
  /\ \E k \in {"plain", "call", "if", "ifReturn", "ifBreak"} : Ready(k)
  /\ Evaluates("plain")
  /\ UNCHANGED xflag

Assign == Ready("assign") /\ Evaluates("x") /\ xflag' = FALSE

Read == Ready("read") /\ Evaluates("x") /\ UNCHANGED xflag

IfBreak == Ready("ifBreak") /\ Evaluates("break") /\ UNCHANGED xflag

(* var x = f() for a native f: the value bound is new, the statement's     *)
(* another one.                                                            *)
BindNative == Ready("bind") /\ Evaluates("plain") /\ xflag' = FALSE

(* stmt_lst handles break and continue among its own statements, and ends. *)
Jump ==
  /\ \/ Ready("break") /\ result' = "break"
     \/ Ready("continue") /\ result' = "plain"
  /\ cursor' = Marked
  /\ cstack' = Below
  /\ UNCHANGED <<prog, xflag>>

-----------------------------------------------------------------------------
(* Calls and returns.                                                      *)

Calls == {d \in 1 .. Depth : cstack[d].kind = "call"}

(* The stack once a return statement of the innermost call has run.        *)
Returned(stack) ==
  [d \in DOMAIN stack |->
     IF d \in Calls /\ \A e \in Calls : e <= d
       THEN [stack[d] EXCEPT !.returned =
              IF \E e \in d + 1 .. Depth : cstack[e].kind \in {"while", "try", "switch"}
                THEN "inside" ELSE "directly"]
       ELSE stack[d]]

(* return_stmt flags the value itself, new or not. *)
Flag(v) ==
  /\ result' = IF v = "x" THEN "x" ELSE "break"
  /\ xflag' = (xflag \/ v = "x")

(* A return of a new value (or of what a native function returns), or of   *)
(* x.  Among stmt_lst's own statements it ends the list at once; as part   *)
(* of an if it is passed on as a value.                                    *)
Return ==
  /\ \/ (Ready("return") \/ Ready("tail")) /\ Flag("plain") /\ cstack' = Returned(Below)
     \/ Ready("returnX") /\ Flag("x") /\ cstack' = Returned(Below)
     \/ Ready("ifReturn") /\ Flag("plain") /\ cstack' = Returned(AtChild)
  /\ cursor' = Marked
  /\ UNCHANGED prog

(* f();  var x = f();  return f(); *)
CallF ==
  /\ \E k \in {"call", "bind", "tail"} : Ready(k)
  /\ Len(SelectSeq(cstack, LAMBDA a : a.kind = "call")) < MaxCalls
  /\ Enter("f", Append(AtChild, [kind |-> "call", returned |-> "no"]), Marked)
  /\ UNCHANGED <<prog, result, xflag>>

(* call_exp hands the value of f's last statement, or of its return, on.   *)
EndCall ==
  /\ result # NULL
  /\ cstack # <<>> /\ Top.kind = "call"
  /\ cstack' = Below
  /\ UNCHANGED <<prog, cursor, result, xflag>>

-----------------------------------------------------------------------------
(* A value comes back to the list.                                         *)

Receives(k) ==
  /\ result # NULL
  /\ cstack # <<>> /\ Top.kind = "list"
  /\ Child(Top) = k

GoOn(v) ==
  /\ cstack' = Append(Below, [Top EXCEPT !.last = v])
  /\ result' = NULL

(* return f(): the value is flagged, and the list ends. *)
ReturnCall ==
  /\ Receives("tail")
  /\ Flag(result)
  /\ cstack' = Returned(Below)
  /\ UNCHANGED <<prog, cursor>>

(* A mutant: var_dec returns the value that it has bound.                  *)
MutBind ==
  /\ Receives("bind")
  /\ xflag' = Flagged(result)
  /\ IF Flagged(result) THEN cstack' = Below /\ UNCHANGED result ELSE GoOn(result)
  /\ UNCHANGED <<prog, cursor>>

(* var x = f(): x has the value, flag and all; the statement has another.  *)
Bind ==
  /\ Receives("bind")
  /\ xflag' = Flagged(result)
  /\ GoOn("plain")
  /\ UNCHANGED <<prog, cursor>>

(* A mutant: the values of nested statements are not looked at.            *)
MutReceive ==
  /\ \E k \in Kind \ {"tail", "bind"} : Receives(k)
  /\ GoOn(result)
  /\ UNCHANGED <<prog, cursor, xflag>>

(* Any other statement: a flagged value ends the list. *)
Receive ==
  /\ \E k \in Kind \ {"tail", "bind"} : Receives(k)
  /\ IF Flagged(result) THEN cstack' = Below /\ UNCHANGED result ELSE GoOn(result)
  /\ UNCHANGED <<prog, cursor, xflag>>

(* Every statement of the list is visited: its value is that of the last.  *)
EndList ==
  /\ result = NULL
  /\ cstack # <<>> /\ Top.kind = "list"
  /\ cursor[Top.list] = Length(Top.list)
  /\ result' = Top.last
  /\ cstack' = Below
  /\ UNCHANGED <<prog, cursor, xflag>>

-----------------------------------------------------------------------------
(* Compound statements.                                                    *)

(* if: the list's value is that of the statement. *)
If ==
  /\ Ready("if")
  /\ Enter("block", AtChild, Marked)
  /\ UNCHANGED <<prog, result, xflag>>

StartWhile ==
  /\ Ready("while")
  /\ cursor' = Marked
  /\ cstack' = Append(AtChild, [kind |-> "while"])
  /\ UNCHANGED <<prog, result, xflag>>

StartTry ==
  /\ Ready("try")
  /\ Enter("block", Append(AtChild, [kind |-> "try"]), Marked)
  /\ UNCHANGED <<prog, result, xflag>>

StartSwitch ==
  /\ Ready("switch")
  /\ cursor' = Marked
  /\ cstack' = Append(AtChild, [kind |-> "switch", matched |-> FALSE])
  /\ UNCHANGED <<prog, result, xflag>>

In(kind) == cstack # <<>> /\ Top.kind = kind

(* The loop's condition: once more, or not. *)
WhileTest ==
  /\ In("while") /\ result = NULL
  /\ \/ Enter("block", cstack, cursor) /\ UNCHANGED result
     \/ result' = "plain" /\ cstack' = Below /\ UNCHANGED cursor
  /\ UNCHANGED <<prog, xflag>>

(* while_stmt keeps no more of its body's value than whether to go on, and *)
(* its own is JSUNDEF.                                                     *)
WhileBody ==
  /\ In("while") /\ result # NULL
  /\ IF Flagged(result)
       THEN result' = "plain" /\ cstack' = Below
       ELSE result' = NULL /\ UNCHANGED cstack
  /\ UNCHANGED <<prog, cursor, xflag>>

(* try_stmt drops the value of its body. *)
EndTry ==
  /\ In("try") /\ result # NULL
  /\ result' = "plain"
  /\ cstack' = Below
  /\ UNCHANGED <<prog, cursor, xflag>>

(* The next clause that is not visited: it may match, and all after it do. *)
(* Nothing rewinds the clause list.                                        *)
SwitchTest ==
  /\ In("switch") /\ result = NULL
  /\ cursor["clauses"] < NumClauses
  /\ \E matched \in {Top.matched, TRUE} :
       LET now == Append(Below, [Top EXCEPT !.matched = matched])
           visited == [cursor EXCEPT !["clauses"] = @ + 1]
       IN  IF matched /\ cursor["clauses"] = 0
             THEN Enter("block", now, visited)
             ELSE cstack' = now /\ cursor' = visited
  /\ UNCHANGED <<prog, result, xflag>>

(* No clause is left: the default clause if none has matched, whose value  *)
(* is the switch's, else JSUNDEF.                                          *)
SwitchEnd ==
  /\ In("switch") /\ result = NULL
  /\ cursor["clauses"] = NumClauses
  /\ IF Top.matched
       THEN result' = "plain" /\ cstack' = Below /\ UNCHANGED cursor
       ELSE Enter("default", Below, cursor) /\ UNCHANGED result
  /\ UNCHANGED <<prog, xflag>>

(* A clause is through: a flagged value loses its flag and ends the switch. *)
SwitchBody ==
  /\ In("switch") /\ result # NULL
  /\ IF Flagged(result)
       THEN /\ result' = IF result = "x" THEN "x" ELSE "plain"
            /\ xflag' = (xflag /\ result # "x")
            /\ cstack' = Below
       ELSE result' = NULL /\ UNCHANGED <<cstack, xflag>>
  /\ UNCHANGED <<prog, cursor>>

(* The main list is through. *)
Ended == cstack = <<>> /\ UNCHANGED vars

Next ==
  \/ Plain \/ Assign \/ Read \/ IfBreak \/ BindNative \/ Jump
  \/ Return \/ CallF \/ EndCall
  \/ ReturnCall \/ Bind \/ Receive \/ EndList
  \/ If \/ StartWhile \/ StartTry \/ StartSwitch
  \/ WhileTest \/ WhileBody \/ EndTry
  \/ SwitchTest \/ SwitchEnd \/ SwitchBody
  \/ Ended

(* The evaluator runs on: it waits for nothing. *)
Spec == Init /\ [][Next]_vars /\ WF_vars(Next)

-----------------------------------------------------------------------------
(* Properties.                                                             *)

(* f calls itself in return statements only, as the recursive functions of *)
(* test_functions.js do: in its own list, or in the block of an if.        *)
RecursInReturns ==
  /\ \A l \in {"f", "block"}, i \in 1 .. 2 : prog[l][i] \notin {"call", "bind"}
  /\ (\E i \in 1 .. 2 : prog["block"][i] = "tail")
       => \A i \in 1 .. 2 : prog["f"][i] \notin {"while", "try", "switch"}

Awaits(k, a) == a.kind = "list" /\ a.child > 0 /\ Child(a) = k

(* A list that will return the value it waits for: its statement is a      *)
(* return f(), or an if with one in its block.                             *)
Leaving(d) ==
  \/ Awaits("tail", cstack[d])
  \/ /\ Awaits("if", cstack[d])
     /\ IF d = Depth THEN result # NULL /\ Flagged(result) ELSE Awaits("tail", cstack[d + 1])

(* No statement is skipped or run twice by an activation of its list: the  *)
(* shared cursor stands where the activation does, however many calls have *)
(* been made in between.  A recursive call anywhere else than in a return  *)
(* statement moves its caller's cursor.                                    *)
InOrder ==
  RecursInReturns =>
    \A d \in 1 .. Depth :
      cstack[d].kind = "list" /\ ~ Leaving(d) => cursor[cstack[d].list] = cstack[d].child

(* While a call is being left from some return, no statement begins.       *)
NothingAfter(returns) ==
  \A d \in Calls :
    cstack[d].returned \in returns /\ Len(cstack') >= d
      => \A l \in Block : cursor'[l] <= cursor[l]

(* A return statement ends its function, through any nested blocks.        *)
DirectReturnIsFinal == [][NothingAfter({"directly"})]_vars

(* "Statements after a return are not evaluated" (test_functions.js): they *)
(* are, after a return inside a loop, a switch or a try.                   *)
ReturnIsFinal == [][NothingAfter({"directly", "inside"})]_vars

(* The main list leaves itself in no statement but an if. *)
MainGoesOn ==
  \A i \in 1 .. 2 : prog["main"][i] \notin {"return", "returnX", "tail", "break", "continue"}

(* A function whose value is bound cannot end its caller's list: the flag  *)
(* of a returned value goes no further than the variable.                  *)
BindingGoesOn ==
  [][ RecursInReturns /\ MainGoesOn =>
        \A d \in 1 .. Depth :
          Awaits("bind", cstack[d]) /\ cstack[d].child = 1 => Len(cstack') >= d ]_vars

(* A program without loops ends: no list is taken up again and again.      *)
LoopFreeEnds ==
  (/\ RecursInReturns
   /\ \A l \in Block, i \in 1 .. 2 : i <= Length(l) => prog[l][i] # "while") ~> cstack = <<>>
=============================================================================
