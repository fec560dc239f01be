------------------------------- MODULE Lists -------------------------------
(***************************************************************************)
(* What the array built-ins promise a script: an array is a list of        *)
(* values, a missing element being undefined, and each method does to the  *)
(* list what its name says, or fails where this module says it may: on an  *)
(* empty list, at undefined elements, beyond the end, and in a splice of   *)
(* too many.  Arrays.tla, the model of Array.c on property maps, is shown  *)
(* to implement this.                                                      *)
(***************************************************************************)
EXTENDS Integers, Sequences, FiniteSets

CONSTANTS
  Value,             (* what a script stores                               *)
  Undef,             (* undefined                                          *)
  Index, Args        (* bounds: indices and lists of arguments             *)

VARIABLES
  list,      (* the array, as a script reads it                            *)
  status     (* "running", the call that never came back, or "broken":     *)
             (* a script has done what no list answers for                 *)

vars == <<list, status>>

Size == Len(list)

Init == list \in Seq(Value \cup {Undef}) /\ status = "running"

Becomes(s) == list' = s /\ UNCHANGED status
Fails(call) == status' = call /\ UNCHANGED list

Front(s, n) == SubSeq(s, 1, n)
Rest(s, n) == SubSeq(s, n + 1, Len(s))

Push(args) == Becomes(list \o args)
Unshift(args) == Becomes(args \o list)
Pop == Becomes(IF list = <<>> THEN <<>> ELSE Front(list, Size - 1))

Shift ==
  \/ Becomes(IF list = <<>> THEN <<>> ELSE Tail(list))
  \/ (\E i \in 2 .. Size : list[i] = Undef) /\ Fails("shift")

Reverse ==
  IF list = <<>> THEN Fails("reverse")
  ELSE Becomes([i \in 1 .. Size |-> list[Size + 1 - i]])

(* A splice inside the list; beyond its end, nothing is added. *)
Splice(index, howMany, args) ==
  Becomes(IF index < Size
            THEN Front(list, index) \o args \o Rest(list, index + howMany)
            ELSE list)

(* One that is to take out a number of elements that is none, or negative. *)
SpliceTooMany == list # <<>> /\ Fails("splice")

(* sort, with any comparison function. *)
Permute ==
  /\ list' \in [1 .. Size -> {list[i] : i \in 1 .. Size}]
  /\ \A i \in 1 .. Size :
       Cardinality({j \in 1 .. Size : list'[j] = list[i]}) =
       Cardinality({j \in 1 .. Size : list[j] = list[i]})
  /\ UNCHANGED status

Sort == Permute \/ ((\E i \in 1 .. Size : list[i] = Undef) /\ Fails("sort"))

(* An assignment beyond the end extends the list. *)
Assign(index, value) ==
  Becomes([i \in 1 .. (IF index < Size THEN Size ELSE index + 1) |->
             IF i = index + 1 THEN value ELSE IF i <= Size THEN list[i] ELSE Undef])

(* One to a key that is a number but no index: it extends the list, too.   *)
Lengthen(n) ==
  n >= Size /\ Becomes([i \in 1 .. n + 1 |-> IF i <= Size THEN list[i] ELSE Undef])

Delete(index) ==
  \/ index < Size /\ Becomes([list EXCEPT ![index + 1] = Undef])
  \/ (index < Size => list[index + 1] = Undef) /\ Fails("delete")

(* An increment beyond the end, or an assignment to the key -1. *)
Break == status' = "broken"

Next ==
  \/ /\ status = "running"
     /\ \/ \E args \in Args : Push(args) \/ Unshift(args)
        \/ Pop
        \/ Shift
        \/ Reverse
        \/ Sort
        \/ \E index, howMany \in Index, args \in Args : Splice(index, howMany, args)
        \/ SpliceTooMany
        \/ \E index \in Index, value \in Value : Assign(index, value)
        \/ \E index \in Index : Lengthen(index) \/ Delete(index)
        \/ Break
  \/ status = "broken" /\ Break

Spec == Init /\ [][Next]_vars
=============================================================================
