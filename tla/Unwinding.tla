----------------------------- MODULE Unwinding -----------------------------
(***************************************************************************)
(* What try, throw and the top level promise a script, whatever the data   *)
(* structure that finds the handler: a thrown error either goes to the     *)
(* innermost open try body, or it is reported and ends the program (or the *)
(* line, in a REPL).  Callstack.tla, the model of the frames of flathead.c *)
(* and eval.c, is shown to implement this.                                 *)
(*                                                                         *)
(* The promise is only as strong as the code allows: once a try body has   *)
(* completed without throwing ("stale"), a throw may also enter the catch  *)
(* block of a try that is past its body, or jump into nowhere.             *)
(***************************************************************************)
EXTENDS Integers, Sequences

VARIABLES
  control,   (* the constructs being executed, the innermost last          *)
  stale,     (* a try body has completed and its handler is still there    *)
  status     (* "running", or how the process ended                        *)

vars == <<control, stale, status>>

Depth == Len(control)

Opened == {"call", "throw", "eval", "body"}

Init == control = <<>> /\ stale = FALSE /\ status = "running"

Enter(kind) ==
  /\ control' = Append(control, kind)
  /\ UNCHANGED <<stale, status>>

(* The innermost construct completes.  Only a try body that does may leave *)
(* a stale handler.                                                        *)
Leave ==
  /\ control # <<>>
  /\ control' = SubSeq(control, 1, Depth - 1)
  /\ stale' => stale \/ control[Depth] = "body"
  /\ UNCHANGED status

BeginFinally ==
  /\ control # <<>>
  /\ control[Depth] \in {"body", "catch"}
  /\ control' = [control EXCEPT ![Depth] = "finally"]
  /\ stale' => stale \/ control[Depth] = "body"
  /\ UNCHANGED status

(* A throw reaches the catch block of construct d, and everything inside d *)
(* is abandoned.  No open body inside d is passed over.                    *)
Catch(d) ==
  /\ control[d] \in {"body"} \cup (IF stale THEN {"finally"} ELSE {})
  /\ \A e \in d + 1 .. Depth : control[e] # "body"
  /\ control' = [SubSeq(control, 1, d) EXCEPT ![d] = "catch"]
  /\ stale' => stale
  /\ UNCHANGED status

(* A throw that reaches no handler, or is raised outside the call stack.   *)
Report ==
  /\ control' = Append(control, "report")
  /\ UNCHANGED <<stale, status>>

(* The end of a report: back to the prompt, or out of the process. *)
Recover ==
  /\ control # <<>> /\ control[Depth] = "report"
  /\ control' = <<>>
  /\ stale' = FALSE
  /\ UNCHANGED status

Exit ==
  /\ control # <<>> /\ control[Depth] = "report"
  /\ status' = "exited"
  /\ UNCHANGED <<control, stale>>

(* The process ends for another reason: the script is over, or a throw met *)
(* a try without a catch block, or a stale handler was jumped to.          *)
Done ==
  /\ \/ control = <<>> /\ status' = "done"
     \/ (\E d \in 1 .. Depth : control[d] \in {"body", "finally"}) /\ status' = "crashed"
     \/ stale /\ status' = "undefined"
  /\ stale' => stale
  /\ UNCHANGED control

Next ==
  /\ status = "running"
  /\ \/ \E kind \in Opened : Enter(kind)
     \/ Leave
     \/ BeginFinally
     \/ \E d \in 1 .. Depth : Catch(d)
     \/ Report
     \/ Recover
     \/ Exit
     \/ Done

Spec == Init /\ [][Next]_vars
=============================================================================
