----------------------------- MODULE Arguments -----------------------------
(***************************************************************************)
(* How eval.c evaluates the lists of expressions in calls and array        *)
(* literals (call_exp, new_exp, build_args, call, arr_lit), and how a      *)
(* method finds the object it was looked up on (fh_get_proto in props.c).  *)
(*                                                                         *)
(* Both are kept in places that all activations share: where an evaluation *)
(* stands in a list in the visited flags of the list's nodes (nodes.c),    *)
(* the object of a method in its function object.  An element may be any   *)
(* expression, so that between two elements of a list, and between the     *)
(* lookup of a method and its call, a script may do anything: evaluate the *)
(* same list again, look the same method up on another object, throw.      *)
(*                                                                         *)
(* Values are left out: an element's value is named by its position.       *)
(***************************************************************************)
EXTENDS Integers, Sequences

CONSTANTS
  Calls,     (* call sites: their argument lists (with an argument)        *)
  Literals,  (* array literals: their element lists                        *)
  Size,      (* the number of elements of each list                        *)
  Methods,   (* native methods; any other function is a script's           *)
  Objects,   (* what methods are looked up on                              *)
  NULL,      (* no list, no method, no object                              *)
  MaxDepth,  (* bound: activations that are open at a time                 *)
  MaxNested  (* bound: evaluations of a list within one of its elements    *)

Lists == Calls \cup Literals

ASSUME ArgumentsAssumption ==
  /\ Calls \cap Literals = {}
  /\ Size \in [Lists -> Nat \ {0}]
  /\ NULL \notin Methods \cup Objects \cup Lists
  /\ MaxDepth \in Nat /\ MaxNested \in Nat

VARIABLES
  cursor,    (* how many elements of a list have their visited flag set    *)
  instance,  (* object.instance of a method's function object              *)
  stack,     (* evaluations of lists and running functions, innermost last *)
  torn       (* history: lists whose last evaluation was ended by a throw  *)

vars == <<cursor, instance, stack, torn>>

(* The evaluation of a list.  item is the element that is being evaluated, *)
(* or 0 between two; got the elements that have been.  fn and on are a     *)
(* method and the object it was looked up on, if a method is being called. *)
(* History: nested counts the evaluations of the list that have begun      *)
(* since; relooked tells that fn has been looked up again.                 *)
(* A running function has a record of no list.                             *)
Evaluation ==
  [list : Lists \cup {NULL}, item : Nat, got : Seq(Nat), fn : Methods \cup {NULL},
   on : Objects \cup {NULL}, nested : 0 .. MaxNested, relooked : BOOLEAN]

Begun(l, f, o) ==
  [list |-> l, item |-> 0, got |-> <<>>, fn |-> f, on |-> o, nested |-> 0, relooked |-> FALSE]

(* A running function. *)
Body == [Begun(NULL, NULL, NULL) EXCEPT !.item = 1]

Depth == Len(stack)
Top == stack[Depth]

Init ==
  /\ cursor = [l \in Lists |-> 0]
  /\ instance = [m \in Methods |-> NULL]
  /\ stack = <<>>
  /\ torn = {}

(* Script code runs at the top level, in functions and in elements.        *)
InScript == stack # <<>> => Top.item # 0

-----------------------------------------------------------------------------
(* Looking up and beginning.                                               *)

(* A mutant: a method that has an instance keeps it.                       *)
MutFound(m, o) == [instance EXCEPT ![m] = IF @ = NULL THEN o ELSE @]

(* fh_get_proto stores the object in the method. *)
Found(m, o) == [instance EXCEPT ![m] = o]

(* History: m is looked up, and list l evaluated, while these are open.    *)
Noted(m, l) ==
  [d \in DOMAIN stack |->
     [stack[d] EXCEPT !.relooked = @ \/ (m # NULL /\ stack[d].fn = m),
                      !.nested = IF l # NULL /\ stack[d].list = l THEN @ + 1 ELSE @]]

(* x.m, its value kept or dropped. *)
LookUp(m, o) ==
  /\ InScript
  /\ instance' = Found(m, o)
  /\ stack' = Noted(m, NULL)
  /\ UNCHANGED <<cursor, torn>>

MayBegin(l) ==
  /\ InScript
  /\ Depth < MaxDepth
  /\ \A d \in 1 .. Depth : stack[d].list = l => stack[d].nested < MaxNested

(* call_exp and new_exp evaluate the function, which may be a method, then *)
(* build_args begins, from where the list's cursor stands.                 *)
BeginCall(l) ==
  /\ MayBegin(l)
  /\ \/ /\ stack' = Append(Noted(NULL, l), Begun(l, NULL, NULL))
        /\ UNCHANGED instance
     \/ \E m \in Methods, o \in Objects :
          /\ stack' = Append(Noted(m, l), Begun(l, m, o))
          /\ instance' = Found(m, o)
  /\ UNCHANGED <<cursor, torn>>

(* arr_lit *)
BeginLiteral(l) ==
  /\ MayBegin(l)
  /\ stack' = Append(Noted(NULL, l), Begun(l, NULL, NULL))
  /\ UNCHANGED <<cursor, instance, torn>>

-----------------------------------------------------------------------------
(* The elements.                                                           *)

Between == stack # <<>> /\ Top.list # NULL /\ Top.item = 0

Below == SubSeq(stack, 1, Depth - 1)

(* node_pop: the first element that is not visited, and its evaluation     *)
(* begins.                                                                 *)
PopElement ==
  /\ Between
  /\ cursor[Top.list] < Size[Top.list]
  /\ cursor' = [cursor EXCEPT ![Top.list] = @ + 1]
  /\ stack' = [stack EXCEPT ![Depth].item = cursor[Top.list] + 1]
  /\ UNCHANGED <<instance, torn>>

EndElement ==
  /\ stack # <<>> /\ Top.list # NULL /\ Top.item # 0
  /\ stack' = [stack EXCEPT ![Depth].item = 0, ![Depth].got = Append(@, Top.item)]
  /\ UNCHANGED <<cursor, instance, torn>>

AllVisited == Between /\ cursor[Top.list] = Size[Top.list]

(* A mutant: the loop ends when one element is left.                       *)
MutEndLiteral ==
  /\ Between /\ Top.list \in Literals
  /\ cursor[Top.list] >= Size[Top.list] - 1
  /\ stack' = Below
  /\ UNCHANGED <<cursor, instance, torn>>

(* The array is complete; nothing rewinds its list. *)
EndLiteral ==
  /\ AllVisited /\ Top.list \in Literals
  /\ stack' = Below
  /\ UNCHANGED <<cursor, instance, torn>>

(* A mutant: the list is left as it is.                                    *)
MutRewound(l) == cursor

(* node_rewind at the end of build_args. *)
Rewound(l) == [cursor EXCEPT ![l] = 0]

(* The arguments are complete and the function is called.  A native        *)
(* function returns at once, or calls a script's function back.            *)
Invoke ==
  /\ AllVisited /\ Top.list \in Calls
  /\ cursor' = Rewound(Top.list)
  /\ torn' = torn \ {Top.list}
  /\ stack' \in {Below, Append(Below, Body)}
  /\ UNCHANGED instance

Return ==
  /\ stack # <<>> /\ Top = Body
  /\ stack' = Below
  /\ UNCHANGED <<cursor, instance, torn>>

(* A throw, out of everything that is open up to a function with a try     *)
(* statement, or up to the top level; the lists are left as they are.      *)
Throw(d) ==
  /\ InScript
  /\ d # 0 => stack[d] = Body
  /\ stack' = SubSeq(stack, 1, d)
  /\ torn' = torn \cup ({stack[e].list : e \in d + 1 .. Depth} \ {NULL})
  /\ UNCHANGED <<cursor, instance>>

Next ==
  \/ \E m \in Methods, o \in Objects : LookUp(m, o)
  \/ \E l \in Calls : BeginCall(l)
  \/ \E l \in Literals : BeginLiteral(l)
  \/ PopElement \/ EndElement \/ EndLiteral \/ Invoke \/ Return
  \/ \E d \in 0 .. Depth - 1 : Throw(d)

Spec == Init /\ [][Next]_vars

-----------------------------------------------------------------------------
(* Properties.                                                             *)

TypeOK ==
  /\ cursor \in [Lists -> Nat] /\ \A l \in Lists : cursor[l] <= Size[l]
  /\ instance \in [Methods -> Objects \cup {NULL}]
  /\ stack \in Seq(Evaluation)
  /\ torn \subseteq Lists

(* The evaluation is the only one of its list that is open, has seen no    *)
(* other, and does not follow one that a throw has ended.                  *)
Undisturbed(d) ==
  /\ stack[d].list \notin torn
  /\ stack[d].nested = 0
  /\ \A e \in 1 .. d - 1 : stack[e].list # stack[d].list

(* It has evaluated the elements up to the cursor, once each and in order. *)
FromFirst(d) ==
  stack[d].got \o (IF stack[d].item = 0 THEN <<>> ELSE <<stack[d].item>>)
    = [i \in 1 .. cursor[stack[d].list] |-> i]

(* A call evaluates each of its arguments once, in order, and from the     *)
(* first, whatever they call, unless that evaluates the same list or the   *)
(* list's last evaluation was ended by a throw.                            *)
ArgumentsInOrder ==
  \A d \in 1 .. Depth :
    stack[d].list \in Calls /\ Undisturbed(d) => FromFirst(d)

(* An array literal has all of its elements, or none: after its first      *)
(* evaluation it is empty.                                                 *)
LiteralsAllOrNothing ==
  \A d \in 1 .. Depth :
    stack[d].list \in Literals /\ Undisturbed(d)
      => \/ FromFirst(d)
         \/ /\ stack[d].got = <<>> /\ stack[d].item = 0
            /\ cursor[stack[d].list] = Size[stack[d].list]

(* A method will be called on the object it was looked up on, whatever its *)
(* arguments call, unless they look the same method up.                    *)
MethodsKeepInstance ==
  \A d \in 1 .. Depth :
    stack[d].list # NULL /\ stack[d].fn # NULL /\ ~ stack[d].relooked
      => instance[stack[d].fn] = stack[d].on
=============================================================================
