---------------------------- MODULE Reachability ----------------------------
(***************************************************************************)
(* Reachability in a graph given as a function E from a node to the set of *)
(* the nodes it points at.  The definition is the least closed set, said   *)
(* without recursion: a node is reachable from R when every set that       *)
(* contains R and is closed under E contains it.                           *)
(***************************************************************************)

(* S holds every node that a node of S points at. *)
Closed(S, E) == \A x \in S : E[x] \subseteq S

(* The nodes a collector that starts from R has to keep. *)
ReachFrom(R, E) ==
  {x \in DOMAIN E :
     \A S \in SUBSET (DOMAIN E) : R \subseteq S /\ Closed(S, E) => x \in S}
=============================================================================
