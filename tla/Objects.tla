------------------------------ MODULE Objects ------------------------------
(***************************************************************************)
(* How objects get their prototypes, and how the property "prototype" that *)
(* they get them from is stored, defined, deleted and sealed.              *)
(*                                                                         *)
(* Objects are numbered in the order of their creation.  An expression     *)
(* new F reads F.prototype, runs F, which may do anything, new expressions *)
(* included, and links its object to what it has read at the end.          *)
(*                                                                         *)
(* A property is its value and its configurable flag; nothing reads the    *)
(* flags writable and extensible but the predicates that show them.        *)
(***************************************************************************)
EXTENDS Integers, Sequences

CONSTANTS
  NumObjects,    (* bound: objects that are created                        *)
  MaxNew,        (* bound: new expressions that are open at a time         *)
  Returns        (* constructors return objects older than their own       *)

ASSUME ObjectsAssumption ==
  /\ NumObjects \in Nat /\ NumObjects >= 2
  /\ MaxNew \in Nat
  /\ Returns \in BOOLEAN

VARIABLES
  count,     (* the number of objects so far                               *)
  funcs,     (* those that are functions of the script                     *)
  proto,     (* js_val.proto                                               *)
  prop,      (* the property "prototype", or Absent                        *)
  news,      (* the open new expressions, the innermost last               *)
  sealed,    (* history: objects sealed or frozen with their property      *)
  status     (* "running" or "crashed"                                     *)

vars == <<count, funcs, proto, prop, news, sealed, status>>

Object == 0 .. NumObjects - 1
NULL == -1                       (* a null pointer, or a value that is no object *)

object_proto == 0
function_proto == 1

Absent == [ptr |-> NULL, there |-> FALSE, configurable |-> FALSE]
Property == [ptr : Object \cup {NULL}, there : BOOLEAN, configurable : BOOLEAN]

Present(ptr, configurable) == [ptr |-> ptr, there |-> TRUE, configurable |-> configurable]

NewExp == [obj : Object, proto : Object \cup {NULL}]

Existing == 0 .. count - 1

Init ==
  /\ count = 2
  /\ funcs = {}
  /\ proto = [o \in Object |-> IF o = function_proto THEN object_proto ELSE NULL]
  /\ prop = [o \in Object |-> Absent]
  /\ news = <<>>
  /\ sealed = {}
  /\ status = "running"

Running == status = "running" /\ UNCHANGED status

(* An object with that prototype is created. *)
Created(p) ==
  /\ count < NumObjects
  /\ count' = count + 1
  /\ proto' = [proto EXCEPT ![count] = p]

-----------------------------------------------------------------------------
(* Creation.                                                               *)

NewObject ==
  /\ Running
  /\ Created(object_proto)
  /\ UNCHANGED <<funcs, prop, news, sealed>>

(* Object.create(p): any value is taken for a prototype. *)
Create(p) ==
  /\ Running
  /\ Created(p)
  /\ UNCHANGED <<funcs, prop, news, sealed>>

(* A function and the object that is its property "prototype". *)
NewFunction ==
  /\ Running
  /\ count + 1 < NumObjects
  /\ count' = count + 2
  /\ funcs' = funcs \cup {count}
  /\ proto' = [proto EXCEPT ![count] = function_proto, ![count + 1] = object_proto]
  /\ prop' = [prop EXCEPT ![count] = Present(count + 1, FALSE)]
  /\ UNCHANGED <<news, sealed>>

(* new F: the property is read before F is called. *)
BeginNew(f) ==
  /\ Running
  /\ Len(news) < MaxNew
  /\ Created(object_proto)
  /\ news' = Append(news, [obj |-> count, proto |-> prop[f].ptr])
  /\ UNCHANGED <<funcs, prop, sealed>>

(* A mutant: the property of some function is read when it has returned.   *)
MutEndNew(res) ==
  /\ Running
  /\ news # <<>>
  /\ res >= news[Len(news)].obj \/ Returns
  /\ \E f \in funcs : proto' = IF proto[res] = object_proto /\ prop[f].ptr # NULL
                                 THEN [proto EXCEPT ![res] = prop[f].ptr] ELSE proto
  /\ news' = SubSeq(news, 1, Len(news) - 1)
  /\ UNCHANGED <<count, funcs, prop, sealed>>

(* F has returned: its own object, or another one in its place.  It is     *)
(* linked if its prototype is still the one that new objects have.         *)
EndNew(res) ==
  LET new == news[Len(news)]
  IN  /\ Running
      /\ news # <<>>
      /\ res >= new.obj \/ Returns
      /\ proto' = IF new.proto # NULL /\ proto[res] = object_proto
                    THEN [proto EXCEPT ![res] = new.proto] ELSE proto
      /\ news' = SubSeq(news, 1, Len(news) - 1)
      /\ UNCHANGED <<count, funcs, prop, sealed>>

-----------------------------------------------------------------------------
(* The property.                                                           *)

(* A mutant: the flags are set again. *)
MutStore(o, v) ==
  /\ Running
  /\ prop' = [prop EXCEPT ![o] = Present(v, TRUE)]
  /\ UNCHANGED <<count, funcs, proto, news, sealed>>

(* o.prototype = v: a property that is there keeps its flags. *)
Store(o, v) ==
  /\ Running
  /\ prop' = [prop EXCEPT ![o] = Present(v, IF prop[o].there THEN prop[o].configurable ELSE TRUE)]
  /\ UNCHANGED <<count, funcs, proto, news, sealed>>

(* Object.defineProperty, and defineProperties: sealed or not, the flags   *)
(* become those of the descriptor.                                         *)
Define(o, v, configurable) ==
  /\ Running
  /\ prop' = [prop EXCEPT ![o] = Present(v, configurable)]
  /\ sealed' = IF configurable THEN sealed \ {o} ELSE sealed
  /\ UNCHANGED <<count, funcs, proto, news>>

(* delete o.prototype: the flags of a property that is not there are read. *)
Delete(o) ==
  \/ /\ Running
     /\ prop[o].there
     /\ prop' = IF prop[o].configurable THEN [prop EXCEPT ![o] = Absent] ELSE prop
     /\ UNCHANGED <<count, funcs, proto, news, sealed>>
  \/ /\ status = "running" /\ status' = "crashed"
     /\ ~ prop[o].there
     /\ UNCHANGED <<count, funcs, proto, prop, news, sealed>>

(* Object.seal and Object.freeze. *)
Seal(o) ==
  /\ Running
  /\ prop' = [prop EXCEPT ![o].configurable = FALSE]
  /\ sealed' = IF prop[o].there THEN sealed \cup {o} ELSE sealed
  /\ UNCHANGED <<count, funcs, proto, news>>

Crashed == status = "crashed" /\ UNCHANGED vars

Next ==
  \/ NewObject
  \/ NewFunction
  \/ \E o \in Existing : EndNew(o)
  \/ \E p \in Existing \cup {NULL} : Create(p)
  \/ \E f \in funcs :
       \/ BeginNew(f)
       \/ \E v \in Existing \cup {NULL}, configurable \in BOOLEAN :
            Store(f, v) \/ Define(f, v, configurable)
       \/ Delete(f)
       \/ Seal(f)
  \/ Crashed

Spec == Init /\ [][Next]_vars

-----------------------------------------------------------------------------
(* Properties.                                                             *)

TypeOK ==
  /\ count \in 2 .. NumObjects
  /\ funcs \subseteq Existing
  /\ proto \in [Object -> Object \cup {NULL}]
  /\ prop \in [Object -> Property] /\ \A o \in Object : prop[o].ptr < count
  /\ news \in Seq(NewExp) /\ Len(news) <= MaxNew
  /\ sealed \subseteq Existing
  /\ status \in {"running", "crashed"}

(* Whatever constructors do, also to the property "prototype", no chain of *)
(* prototypes comes back to where it has been: lookups, instanceof and     *)
(* isPrototypeOf follow them to the end.                                   *)
ProtoChainsEnd == \A S \in (SUBSET Object) \ {{}} : \E o \in S : proto[o] \notin S

(* An object's prototype changes once at most, while the construction it   *)
(* belongs to is open: what is older than the innermost open construction  *)
(* keeps its prototype, and so do the objects that have one of their own.  *)
OthersKeepProto ==
  [][ \A o \in Existing :
        proto'[o] # proto[o] =>
          /\ proto[o] = object_proto
          /\ news # <<>> /\ o >= news[Len(news)].obj ]_vars

(* A property that an object had when it was sealed or frozen is there for *)
(* good, through any stores and deletions, until defineProperty makes it   *)
(* configurable again.                                                     *)
SealedKeepsProperty == \A o \in sealed : prop[o].there
=============================================================================
