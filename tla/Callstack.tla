----------------------------- MODULE Callstack -----------------------------
(***************************************************************************)
(* Frames, calls and exceptions: fh->callstack, a linked list of frames    *)
(* that every call and every try statement pushes on (flathead.c, eval.c), *)
(* against the C stack of the evaluator, which the frames' jmp_bufs point  *)
(* into.  A throw searches the first and jumps into the second, so the two *)
(* have to agree; this module keeps both and lets a script do anything.    *)
(*                                                                         *)
(* Values are left out: no property here depends on what is thrown or      *)
(* returned.  What a frame says of its position is left out as well.       *)
(***************************************************************************)
EXTENDS Integers, Sequences, FiniteSets

CONSTANTS
  Repl,       (* the process was started as a REPL (main, grammar.y)       *)
  MaxDepth,   (* bound: C activations that a script may have open          *)
  MaxFrames   (* bound: frames that a script may have on the callstack     *)

ASSUME CallstackAssumption ==
  /\ Repl \in BOOLEAN
  /\ MaxDepth \in Nat
  /\ MaxFrames \in Nat

VARIABLES
  callstack,   (* fh->callstack, its head last: frames [kind, act]         *)
  cstack,      (* the C activations that matter, the innermost last        *)
  interactive, (* fh->opt_interactive                                      *)
  status,      (* "running", or how the process ended                      *)
  crossed      (* history: a throw has jumped out of an fh_eval_string     *)

vars == <<callstack, cstack, interactive, status, crossed>>

(* What a C activation is doing:                                           *)
(*   "call"     call_exp, new_exp or fh_call, its frame pushed             *)
(*   "throw"    throw_stmt, evaluating what is to be thrown                *)
(*   "eval"     fh_eval_string, for eval(), load() and new Function()      *)
(*   "body", "catch", "finally"   try_stmt, in one of its blocks           *)
(*   "report"   fh_throw, converting an uncaught error to a string         *)
TryBlock == {"body", "catch", "finally"}
Kind == {"call", "throw", "eval", "report"} \cup TryBlock

Activation ==
  [kind     : Kind,
   handler  : BOOLEAN,   (* try: it has a catch block                      *)
   final    : BOOLEAN,   (* try: it has a finally block                    *)
   catches  : 0 .. 2,    (* try: history, entries of its catch block       *)
   finals   : 0 .. 2,    (* try: history, entries of its finally block     *)
   saved    : BOOLEAN,   (* eval: the caller's opt_interactive (tmp)       *)
   attached : BOOLEAN]   (* report: history, thrown from a pushed frame    *)

Blank == [kind |-> "call", handler |-> FALSE, final |-> FALSE, catches |-> 0,
          finals |-> 0, saved |-> FALSE, attached |-> FALSE]

(* act is the activation whose local variable the frame is: 0 once that    *)
(* activation has returned and left the frame behind.                      *)
Frame == [kind : {"plain", "catch"}, act : 0 .. MaxDepth]

Depth == Len(cstack)
Top == cstack[Depth]

Init ==
  /\ callstack = <<>>
  /\ cstack = <<>>
  /\ interactive = Repl
  /\ status = "running"
  /\ crossed = FALSE

(* Script code runs at the top level and inside any activation but that of *)
(* fh_throw, which does nothing but call toString or valueOf.              *)
InScript == status = "running" /\ (cstack # <<>> => Top.kind # "report")

Room == Depth < MaxDepth /\ Len(callstack) < MaxFrames

-----------------------------------------------------------------------------
(* Pushing and popping.                                                    *)

Pushed(kind, act) == Append(callstack, [kind |-> kind, act |-> act])

(* fh_pop_state takes the head off, whoever pushed it.                     *)
Popped == IF callstack = <<>> THEN <<>> ELSE SubSeq(callstack, 1, Len(callstack) - 1)

(* The activations from d on are gone; frames of theirs that are still on  *)
(* the callstack no longer belong to anyone.                               *)
Orphaned(frames, d) ==
  [i \in DOMAIN frames |->
     IF frames[i].act >= d THEN [frames[i] EXCEPT !.act = 0] ELSE frames[i]]

Call ==
  /\ status = "running"
  /\ Room
  /\ callstack' = Pushed("plain", Depth + 1)
  /\ cstack' = Append(cstack, Blank)
  /\ UNCHANGED <<interactive, status, crossed>>

Return ==
  /\ status = "running"
  /\ cstack # <<>> /\ Top.kind = "call"
  /\ callstack' = Orphaned(Popped, Depth)
  /\ cstack' = SubSeq(cstack, 1, Depth - 1)
  /\ UNCHANGED <<interactive, status, crossed>>

(* eval(), load() or new Function(): the setting is kept in a local.       *)
EnterEval ==
  /\ InScript
  /\ Room
  /\ cstack' = Append(cstack, [Blank EXCEPT !.kind = "eval", !.saved = interactive])
  /\ interactive' = FALSE
  /\ UNCHANGED <<callstack, status, crossed>>

(* A mutant: the setting the process was started with is put back.         *)
MutLeaveEval ==
  /\ status = "running"
  /\ cstack # <<>> /\ Top.kind = "eval"
  /\ interactive' = Repl
  /\ cstack' = SubSeq(cstack, 1, Depth - 1)
  /\ UNCHANGED <<callstack, status, crossed>>

LeaveEval ==
  /\ status = "running"
  /\ cstack # <<>> /\ Top.kind = "eval"
  /\ interactive' = Top.saved
  /\ cstack' = SubSeq(cstack, 1, Depth - 1)
  /\ UNCHANGED <<callstack, status, crossed>>

-----------------------------------------------------------------------------
(* try_stmt                                                                *)

EnterTry(handler, final) ==
  /\ InScript
  /\ Room
  /\ handler \/ final
  /\ callstack' = Pushed("catch", Depth + 1)
  /\ cstack' = Append(cstack, [Blank EXCEPT !.kind = "body", !.handler = handler, !.final = final])
  /\ UNCHANGED <<interactive, status, crossed>>

(* The body or the catch block is through: the frame stays where it is.    *)
BeginFinally ==
  /\ status = "running"
  /\ cstack # <<>> /\ Top.kind \in {"body", "catch"} /\ Top.final
  /\ cstack' = [cstack EXCEPT ![Depth].kind = "finally", ![Depth].finals = @ + 1]
  /\ UNCHANGED <<callstack, interactive, status, crossed>>

(* A mutant: try_stmt pops a frame when it is through, whether or not its  *)
(* own has been popped by a throw.                                         *)
MutLeaveTry ==
  /\ status = "running"
  /\ cstack # <<>>
  /\ Top.kind \in IF Top.final THEN {"finally"} ELSE {"body", "catch"}
  /\ callstack' = Orphaned(Popped, Depth)
  /\ cstack' = SubSeq(cstack, 1, Depth - 1)
  /\ UNCHANGED <<interactive, status, crossed>>

LeaveTry ==
  /\ status = "running"
  /\ cstack # <<>>
  /\ Top.kind \in IF Top.final THEN {"finally"} ELSE {"body", "catch"}
  /\ callstack' = Orphaned(callstack, Depth)
  /\ cstack' = SubSeq(cstack, 1, Depth - 1)
  /\ UNCHANGED <<interactive, status, crossed>>

-----------------------------------------------------------------------------
(* fh_throw                                                                *)

(* No frame has a handler: the error is converted to a string, which may   *)
(* run script code, before the process or the line ends.                   *)
Unhandled(frames, attached) ==
  /\ callstack' = frames
  /\ cstack' = Append(cstack, [Blank EXCEPT !.kind = "report", !.attached = attached])
  /\ UNCHANGED <<interactive, status, crossed>>

(* A mutant: the frames are popped down to the catch, the catch stays.     *)
MutJumpTo(frames, j) ==
  LET d == frames[j].act
  IN  /\ callstack' = SubSeq(frames, 1, j)
      /\ UNCHANGED interactive
      /\ \/ /\ d = 0
            /\ status' = "undefined"
            /\ UNCHANGED <<cstack, crossed>>
         \/ /\ d # 0 /\ ~ cstack[d].handler
            /\ status' = "crashed"
            /\ UNCHANGED <<cstack, crossed>>
         \/ /\ d # 0 /\ cstack[d].handler
            /\ cstack' = [SubSeq(cstack, 1, d) EXCEPT ![d].kind = "catch", ![d].catches = @ + 1]
            /\ crossed' = (crossed \/ \E e \in d + 1 .. Depth : cstack[e].kind = "eval")
            /\ UNCHANGED status

(* The search has ended at frame j.  The frames down to it and j itself    *)
(* are popped, then longjmp goes to j's try_stmt.  (j is freed before its  *)
(* jmp_buf is read; free() leaves that part of the block alone.)           *)
JumpTo(frames, j) ==
  LET d == frames[j].act
  IN  /\ callstack' = SubSeq(frames, 1, j - 1)
      /\ UNCHANGED interactive
      /\ \/ /\ d = 0     (* try_stmt has returned: undefined behaviour *)
            /\ status' = "undefined"
            /\ UNCHANGED <<cstack, crossed>>
         \/ /\ d # 0 /\ ~ cstack[d].handler   (* node->e2 is NULL *)
            /\ status' = "crashed"
            /\ UNCHANGED <<cstack, crossed>>
         \/ /\ d # 0 /\ cstack[d].handler
            /\ cstack' = [SubSeq(cstack, 1, d) EXCEPT ![d].kind = "catch", ![d].catches = @ + 1]
            /\ crossed' = (crossed \/ \E e \in d + 1 .. Depth : cstack[e].kind = "eval")
            /\ UNCHANGED status

(* A mutant: only the frame below is looked at.                            *)
MutHandlers(frames, i) == {j \in 1 .. i : j >= i - 1 /\ frames[j].kind = "catch"}

Handlers(frames, i) == {j \in 1 .. i : frames[j].kind = "catch"}

(* A mutant: the search ends at the outermost handler.                     *)
MutThrow(frames, i) ==
  \/ Handlers(frames, i) = {} /\ Unhandled(frames, TRUE)
  \/ \E j \in Handlers(frames, i) :
       /\ \A k \in Handlers(frames, i) : j <= k
       /\ JumpTo(frames, j)

(* The search starts at frame i and follows the parents.                   *)
Throw(frames, i) ==
  \/ Handlers(frames, i) = {} /\ Unhandled(frames, TRUE)
  \/ \E j \in Handlers(frames, i) :
       /\ \A k \in Handlers(frames, i) : k <= j
       /\ JumpTo(frames, j)

(* throw_stmt pushes a frame, evaluates the expression, then throws from   *)
(* that frame, which may not be the head any more.                         *)
BeginThrow ==
  /\ InScript
  /\ Room
  /\ callstack' = Pushed("plain", Depth + 1)
  /\ cstack' = Append(cstack, [Blank EXCEPT !.kind = "throw"])
  /\ UNCHANGED <<interactive, status, crossed>>

(* A throw statement, or a native function's fh_throw(state, ...).         *)
ThrowFromFrame ==
  /\ status = "running"
  /\ cstack # <<>> /\ Top.kind \in {"throw", "call"}
  /\ \E i \in DOMAIN callstack : callstack[i].act = Depth /\ Throw(callstack, i)

(* ident, fh_eval, yyerror and fh_parse_error push a frame to throw from.  *)
ThrowFromNewFrame ==
  /\ InScript
  /\ Throw(Pushed("plain", 0), Len(callstack) + 1)

(* fh_throw(NULL, ...), and the states of call_exp and new_exp that are    *)
(* not pushed yet: there is no callstack to search.                        *)
ThrowDetached ==
  /\ status = "running"
  /\ Depth <= MaxDepth
  /\ Unhandled(callstack, FALSE)

EndReport ==
  /\ status = "running"
  /\ cstack # <<>> /\ Top.kind = "report"
  /\ IF interactive
       THEN callstack' = <<>> /\ cstack' = <<>> /\ UNCHANGED status
       ELSE status' = "exited" /\ UNCHANGED <<callstack, cstack>>
  /\ UNCHANGED <<interactive, crossed>>

-----------------------------------------------------------------------------
(* The top level.                                                          *)

(* The REPL reads a line.  With opt_interactive lost, it reads from the    *)
(* source file it never had: "invalid input file".                         *)
ReadLine ==
  /\ status = "running"
  /\ cstack = <<>>
  /\ Repl /\ ~ interactive
  /\ Unhandled(callstack, FALSE)

(* The end of the script, or of the REPL's input. *)
Finish ==
  /\ status = "running"
  /\ cstack = <<>>
  /\ Repl => interactive
  /\ status' = "done"
  /\ UNCHANGED <<callstack, cstack, interactive, crossed>>

Ended == status # "running" /\ UNCHANGED vars

Next ==
  \/ Call
  \/ Return
  \/ EnterEval
  \/ LeaveEval
  \/ \E handler, final \in BOOLEAN : EnterTry(handler, final)
  \/ BeginFinally
  \/ LeaveTry
  \/ BeginThrow
  \/ ThrowFromFrame
  \/ ThrowFromNewFrame
  \/ ThrowDetached
  \/ EndReport
  \/ ReadLine
  \/ Finish
  \/ Ended

Spec == Init /\ [][Next]_vars

-----------------------------------------------------------------------------
(* Properties.                                                             *)

TypeOK ==
  /\ callstack \in Seq(Frame)
  /\ cstack \in Seq(Activation)
  /\ interactive \in BOOLEAN
  /\ status \in {"running", "exited", "done", "undefined", "crashed"}
  /\ crossed \in BOOLEAN

(* The activations that have pushed a frame no throw has popped yet.       *)
Owner(d) ==
  \/ cstack[d].kind \in {"call", "throw", "body"}
  \/ cstack[d].kind = "finally" /\ cstack[d].catches = 0

(* No frame is freed that its function still has in use, whatever the      *)
(* try statements inside have left on the callstack: pops and pushes are   *)
(* not matched by owner, only by number, so a return often frees another   *)
(* frame than the one its call pushed, but never a caller's.               *)
ActiveFramesSurvive ==
  status = "running" => \A d \in 1 .. Depth : Owner(d) =>
    \E i \in DOMAIN callstack :
      /\ callstack[i].act = d
      /\ callstack[i].kind = IF cstack[d].kind \in TryBlock THEN "catch" ELSE "plain"

(* A catch block is not entered a second time: not by a throw inside it,   *)
(* not by one in the finally block after it.                               *)
CatchRunsOnce == \A d \in 1 .. Depth : cstack[d].catches <= 1

(* An error thrown from the callstack is reported as uncaught only when no *)
(* try body is open around it.  Errors thrown past the callstack, such as  *)
(* "is not a function", are the exception.                                 *)
ReportedOnlyUnhandled ==
  \A d \in 1 .. Depth : cstack[d].kind = "report" /\ cstack[d].attached =>
    \A e \in 1 .. d : cstack[e].kind # "body"

(* Unless a throw has jumped out of an eval, errors find opt_interactive   *)
(* as main set it, except inside an eval, where they end the process.      *)
SettingFollowsEval ==
  ~ crossed => (interactive <=> Repl /\ \A d \in 1 .. Depth : cstack[d].kind # "eval")

(* "Normally errors cause the program to exit, but we'd like the REPL to   *)
(* continue" (main): an error inside an eval, or any error after a throw   *)
(* has jumped out of one, ends the REPL all the same.                      *)
ReplContinues == Repl => status # "exited"

(* A throw goes to a catch of a try that is being executed: it does not    *)
(* hold, as a try whose body does not throw leaves its frame behind.       *)
HandlersAreAlive == status # "undefined"

(* "finally always runs" (test_try.js): no try statement with a finally    *)
(* block is left before that has been entered, unless the process ends or  *)
(* the REPL abandons the line.                                             *)
FinallyAlwaysRuns ==
  [][ \A d \in 1 .. Depth :
        cstack[d].final /\ Len(cstack') < d /\ cstack' # <<>> => cstack[d].finals > 0 ]_vars

(* A try body has completed, or is about to be followed by its finally     *)
(* block, and its handler is still in place.                               *)
Stale ==
  \E i \in DOMAIN callstack :
    /\ callstack[i].kind = "catch"
    /\ callstack[i].act = 0 \/ cstack[callstack[i].act].kind # "body"

(* The frames implement the promise of module Unwinding. *)
Promise == INSTANCE Unwinding WITH
             control <- [d \in 1 .. Depth |-> cstack[d].kind], stale <- Stale

ImplementsUnwinding == Promise!Spec
=============================================================================
