------------------------------ MODULE MCScopes ------------------------------
(* A small program for TLC, whose parameters and variables share names:    *)
(* function outer(i) { var j; function inner(j) { var i = e; } }.          *)
EXTENDS Scopes, TLC

MCInner == [n \in Nodes |-> IF n = "outer" THEN "inner" ELSE NoNode]

MCParam == [n \in Nodes |-> IF n = "outer" THEN "i" ELSE "j"]

MCVariable == [n \in Nodes |-> IF n = "outer" THEN "j" ELSE "i"]

Symmetry == Permutations(ScopeIds \ {Global})
=============================================================================
