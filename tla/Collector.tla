----------------------------- MODULE Collector -----------------------------
(***************************************************************************)
(* What a garbage-collected arena promises the interpreter, whatever the   *)
(* algorithm: a slot changes hands only when it is handed out (Allocate)   *)
(* or taken back (Reclaim), what is taken back is unreachable, and the     *)
(* process gives up for lack of memory only when nothing is garbage.       *)
(* Heap.tla, the model of src/src/gc.c, is shown to implement this.        *)
(***************************************************************************)
EXTENDS Reachability

CONSTANT Slot   (* the slots of the arena *)

VARIABLES
  used,    (* the slots that hold a value                     *)
  graph,   (* graph[s]: the slots that the value in s refers to *)
  roots,   (* where the interpreter starts from               *)
  status   (* "running", or "oom" once the process has exited *)

vars == <<used, graph, roots, status>>

Live == ReachFrom(roots, graph)

Init ==
  /\ used \in SUBSET Slot
  /\ roots \in SUBSET used
  /\ graph = [s \in Slot |-> {}]
  /\ status = "running"

(* A vacant slot is handed out.  Nothing is promised about what the slot's *)
(* new value refers to: a constructor may leave an earlier occupant's      *)
(* references in place.                                                    *)
Allocate(s) ==
  /\ s \notin used
  /\ used' = used \cup {s}
  /\ \E fresh \in SUBSET Slot : graph' = [graph EXCEPT ![s] = fresh]
  /\ UNCHANGED <<roots, status>>

(* The program rearranges references and frames; no slot changes hands. *)
Mutate ==
  /\ graph' \in [Slot -> SUBSET Slot]
  /\ roots' \in SUBSET Slot
  /\ UNCHANGED <<used, status>>

(* The collector takes back one slot that nothing can reach. *)
Reclaim(s) ==
  /\ s \in used \ Live
  /\ used' = used \ {s}
  /\ UNCHANGED <<graph, roots, status>>

(* Out of memory: every slot is used, and every one of them is live. *)
GiveUp ==
  /\ status = "running"
  /\ Slot \subseteq used \cap Live
  /\ status' = "oom"
  /\ UNCHANGED <<used, graph, roots>>

Next ==
  \/ \E s \in Slot : Allocate(s) \/ Reclaim(s)
  \/ Mutate
  \/ GiveUp

Spec == Init /\ [][Next]_vars
=============================================================================
