-------------------------------- MODULE Heap --------------------------------
(***************************************************************************)
(* The slotted arena of src/src/gc.c and its mark-and-sweep collector, as  *)
(* the interpreter drives them: values are constructed (flathead.c),       *)
(* linked to each other (props.c and the stores of eval.c), and call       *)
(* frames come and go, while a full arena or a script's gc.run() starts a  *)
(* collection.  The collector is modelled one fh_gc_mark call and one      *)
(* sweep-loop iteration at a time; the interpreter is single-threaded, so  *)
(* nothing else moves while it runs.                                       *)
(*                                                                         *)
(* Data is abstracted to what the collector looks at: which slots a value  *)
(* points at.  Slot 0 is the global object, the first value that           *)
(* fh_bootstrap allocates; it stands for the whole runtime library.        *)
(***************************************************************************)
EXTENDS Integers, Sequences, FiniteSets, Reachability

CONSTANTS
  NumSlots,     (* SLOTS_PER_ARENA; one arena exists (gc.c:97)             *)
  ExplicitRun,  (* TRUE: the gc object is exposed and scripts call gc.run  *)
  NULL,         (* the null pointer                                        *)
  MaxFrames,    (* bound: the depth of the call stack                      *)
  MaxOut,       (* bound: the pointers a store may leave in one value      *)
  MaxHeld       (* bound: values C code holds while it allocates another   *)

Slot == 0 .. NumSlots - 1

(* How a constructor initialises the js_val that fh_malloc hands it:       *)
(*   "scalar"  fh_new_number, _string, _boolean, JSUNDEF, JSNULL           *)
(*   "object"  fh_new_object and the array and function constructors on it *)
(*   "raw"     fh_new_regexp and fh_new_error: objects that go through     *)
(*             fh_new_val alone, so the object struct is not reset         *)
Kind == {"scalar", "object", "raw"}

ASSUME HeapAssumption ==
  /\ NumSlots \in Nat \ {0}
  /\ ExplicitRun \in BOOLEAN
  /\ NULL \notin Slot /\ NULL \notin Kind
  /\ MaxFrames \in Nat /\ MaxOut \in Nat /\ MaxHeld \in Nat

VARIABLES
  freelist,    (* gc_arena.freelist: TRUE means the slot is taken          *)
  used_slots,  (* gc_arena.used_slots                                      *)
  isObj,       (* js_val.type = T_OBJECT, of the last occupant             *)
  refs,        (* js_val.proto and the non-circular pointers of js_val.map *)
  links,       (* js_val.object: primitive, bound_this, scope, instance,   *)
               (* parent                                                   *)
  marked,      (* js_val.marked                                            *)
  callstack,   (* fh->callstack: each frame's scope, or NULL; top is last  *)
  held,        (* what C locals and frames' ctx, this and args point at    *)
  gc_state,    (* fh->gc_state; STARTING does nothing and is folded in     *)
  pending,     (* the calls of fh_gc_mark that are still to be made        *)
  cursor,      (* i of the loop in fh_gc_sweep                             *)
  retry,       (* kind of the value whose fh_malloc waits for a GC, or NULL*)
  status,      (* "running", or "oom" after fh_malloc's exit               *)
  clean        (* history: the last GC started with no mark left over      *)

arena  == <<freelist, used_slots>>
values == <<isObj, refs, links>>
gcVars == <<gc_state, pending, cursor, clean>>
vars   == <<freelist, used_slots, isObj, refs, links, marked, callstack, held,
            gc_state, pending, cursor, retry, status, clean>>

-----------------------------------------------------------------------------
(* What points at what.                                                    *)

(* The pointers fh_gc_mark follows out of s: the prototype and properties  *)
(* of any value, the object struct's fields of an object.                  *)
Children(s) == refs[s] \cup (IF isObj[s] THEN links[s] ELSE {})

Graph == [s \in Slot |-> Children(s)]

Scopes == {callstack[i] : i \in 1 .. Len(callstack)} \ {NULL}

(* What fh_gc starts marking from: the global object and the scope of      *)
(* every frame on the call stack, not the frames' ctx, this and arguments. *)
Roots == {0} \cup Scopes

Live == ReachFrom(Roots, Graph)

(* What the running code can still get at: the roots, and what it holds.   *)
Usable == ReachFrom(Roots \cup held, Graph)

Vacant == {s \in Slot : ~ freelist[s]}

Init ==
  /\ freelist = [s \in Slot |-> s = 0]
  /\ used_slots = 1
  /\ isObj = [s \in Slot |-> s = 0]
  /\ refs = [s \in Slot |-> {}]
  /\ links = [s \in Slot |-> {}]
  /\ marked = [s \in Slot |-> FALSE]
  /\ callstack = <<>>
  /\ held = {}
  /\ gc_state = "NONE"
  /\ pending = {}
  /\ cursor = 0
  /\ retry = NULL
  /\ status = "running"
  /\ clean = TRUE

(* The interpreter proper is running, not fh_gc and not fh_malloc. *)
Running == status = "running" /\ gc_state = "NONE" /\ retry = NULL

-----------------------------------------------------------------------------
(* Allocation: fh_malloc, and the constructor's initialisation of the slot *)

(* The first vacant slot is taken; fh_new_val resets its map, proto and    *)
(* mark, and only fh_new_object goes on to reset the object struct.        *)
Occupy(s, kind) ==
  /\ freelist' = [freelist EXCEPT ![s] = TRUE]
  /\ used_slots' = used_slots + 1
  /\ isObj' = [isObj EXCEPT ![s] = kind # "scalar"]
  /\ refs' = [refs EXCEPT ![s] = {}]
  /\ links' = [links EXCEPT ![s] = IF kind = "object" THEN {} ELSE @]
  /\ marked' = [marked EXCEPT ![s] = FALSE]
  /\ held' = held \cup {s}

FirstVacant(s) == s \in Vacant /\ \A t \in Vacant : s <= t

(* A mutant: the collection forgets the frames of the call stack. *)
MutStartGCGlobalOnly ==
  /\ gc_state' = "MARK"
  /\ pending' = {0}
  /\ cursor' = 0
  /\ clean' = (\A s \in Slot : ~ marked[s])
  /\ UNCHANGED <<freelist, used_slots, isObj, refs, links, marked, callstack, held>>

(* fh_gc is entered: the roots are to be marked.  The marks are not reset: *)
(* the code relies on the last sweep for that.                             *)
StartGC ==
  /\ gc_state' = "MARK"
  /\ pending' = Roots
  /\ cursor' = 0
  /\ clean' = (\A s \in Slot : ~ marked[s])
  /\ UNCHANGED <<freelist, used_slots, isObj, refs, links, marked, callstack, held>>

(* A constructor is called and finds a vacant slot. *)
NewVal(kind) ==
  /\ Running
  /\ Cardinality(held) <= MaxHeld
  /\ \E s \in Slot : FirstVacant(s) /\ Occupy(s, kind)
  /\ UNCHANGED <<callstack, gcVars, retry, status>>

(* fh_malloc(true) on a full arena: collect, then try once more. *)
NewValCollects(kind) ==
  /\ Running
  /\ Cardinality(held) <= MaxHeld
  /\ Vacant = {}
  /\ StartGC
  /\ retry' = kind
  /\ UNCHANGED status

(* fh_malloc(false) after the collection, which freed something... *)
NewValRetries ==
  /\ status = "running" /\ gc_state = "NONE" /\ retry \in Kind
  /\ \E s \in Slot : FirstVacant(s) /\ Occupy(s, retry)
  /\ retry' = NULL
  /\ UNCHANGED <<callstack, gcVars, status>>

(* Mutants: the second attempt of fh_malloc exits without having looked at *)
(* the freelist, or collects again as the first one does.                  *)
MutOutOfMemoryUnchecked ==
  /\ status = "running" /\ gc_state = "NONE" /\ retry \in Kind
  /\ status' = "oom"
  /\ UNCHANGED <<arena, values, marked, callstack, held, gcVars, retry>>

MutOutOfMemoryCollects ==
  /\ status = "running" /\ gc_state = "NONE" /\ retry \in Kind
  /\ Vacant = {}
  /\ StartGC
  /\ UNCHANGED <<retry, status>>

(* ... or nothing: "process out of memory", and the process exits. *)
OutOfMemory ==
  /\ status = "running" /\ gc_state = "NONE" /\ retry \in Kind
  /\ Vacant = {}
  /\ status' = "oom"
  /\ UNCHANGED <<arena, values, marked, callstack, held, gcVars, retry>>

-----------------------------------------------------------------------------
(* The mutator: what the interpreter does to values between allocations.   *)

(* fh_set_prop: one name of o's map now holds v.  The old pointer of that  *)
(* name, if any, goes; another name may still hold it.  A pointer to o     *)
(* itself is flagged circular, and marking does not follow it.             *)
SetProp(o, v) ==
  /\ Running
  /\ {o, v} \subseteq Usable
  /\ \E old \in {{}} \cup {{x} : x \in refs[o]} :
       LET now == (refs[o] \ old) \cup ({v} \ {o})
       IN  /\ Cardinality(now) + Cardinality(links[o]) <= MaxOut
           /\ refs' = [refs EXCEPT ![o] = now]
  /\ UNCHANGED <<arena, isObj, links, marked, callstack, held, gcVars, retry, status>>

(* fh_del_prop: the last name of o that held v is deleted. *)
DelProp(o, v) ==
  /\ Running
  /\ o \in Usable
  /\ v \in refs[o]
  /\ refs' = [refs EXCEPT ![o] = @ \ {v}]
  /\ UNCHANGED <<arena, isObj, links, marked, callstack, held, gcVars, retry, status>>

(* A field of o's object struct is assigned: a closure's scope, a scope's  *)
(* parent, a method's instance, a wrapper's primitive, a bound this.       *)
SetLink(o, v) ==
  /\ Running
  /\ {o, v} \subseteq Usable
  /\ isObj[o]
  /\ \E old \in {{}} \cup {{x} : x \in links[o]} :
       LET now == (links[o] \ old) \cup {v}
       IN  /\ Cardinality(now) + Cardinality(refs[o]) <= MaxOut
           /\ links' = [links EXCEPT ![o] = now]
  /\ UNCHANGED <<arena, isObj, refs, marked, callstack, held, gcVars, retry, status>>

(* A C local or a frame's ctx, this or argument list takes a value. *)
Hold(v) ==
  /\ Running
  /\ v \in Usable \ held
  /\ Cardinality(held) < MaxHeld
  /\ held' = held \cup {v}
  /\ UNCHANGED <<arena, values, marked, callstack, gcVars, retry, status>>

(* ... and goes out of scope. *)
Drop(v) ==
  /\ Running
  /\ v \in held
  /\ held' = held \ {v}
  /\ UNCHANGED <<arena, values, marked, callstack, gcVars, retry, status>>

(* fh_push_state: a frame with no scope yet. *)
PushState ==
  /\ Running
  /\ Len(callstack) < MaxFrames
  /\ callstack' = Append(callstack, NULL)
  /\ UNCHANGED <<arena, values, marked, held, gcVars, retry, status>>

(* call() stores the scope that setup_call_env built, before it evaluates  *)
(* the body of the function.                                               *)
EnterScope(v) ==
  /\ Running
  /\ callstack # <<>> /\ callstack[Len(callstack)] = NULL
  /\ v \in Usable
  /\ callstack' = [callstack EXCEPT ![Len(callstack)] = v]
  /\ UNCHANGED <<arena, values, marked, held, gcVars, retry, status>>

(* fh_pop_state. *)
PopState ==
  /\ Running
  /\ callstack # <<>>
  /\ callstack' = SubSeq(callstack, 1, Len(callstack) - 1)
  /\ UNCHANGED <<arena, values, marked, held, gcVars, retry, status>>

(* A script calls gc.run(). *)
GcRun ==
  /\ ExplicitRun
  /\ Running
  /\ StartGC
  /\ UNCHANGED <<retry, status>>

-----------------------------------------------------------------------------
(* The collector.                                                          *)

(* Mutants: the object struct is not followed; a marked value is followed  *)
(* again.                                                                  *)
MutMarkValIgnoresLinks(s) ==
  /\ gc_state = "MARK"
  /\ s \in pending
  /\ marked' = [marked EXCEPT ![s] = TRUE]
  /\ pending' = (pending \ {s}) \cup (IF marked[s] THEN {} ELSE refs[s])
  /\ UNCHANGED <<arena, values, callstack, held, gc_state, cursor, retry, status, clean>>

MutMarkValAgain(s) ==
  /\ gc_state = "MARK"
  /\ s \in pending
  /\ marked' = [marked EXCEPT ![s] = TRUE]
  /\ pending' = (pending \ {s}) \cup Children(s)
  /\ UNCHANGED <<arena, values, callstack, held, gc_state, cursor, retry, status, clean>>

(* One call of fh_gc_mark, for a pointer that is still to be followed: it  *)
(* returns at once on a marked value, else marks it and calls itself on    *)
(* the value's pointers.  The order of the calls is left open.             *)
MarkVal(s) ==
  /\ gc_state = "MARK"
  /\ s \in pending
  /\ marked' = [marked EXCEPT ![s] = TRUE]
  /\ pending' = (pending \ {s}) \cup (IF marked[s] THEN {} ELSE Children(s))
  /\ UNCHANGED <<arena, values, callstack, held, gc_state, cursor, retry, status, clean>>

StartSweep ==
  /\ gc_state = "MARK"
  /\ pending = {}
  /\ gc_state' = "SWEEP"
  /\ UNCHANGED <<arena, values, marked, callstack, held, pending, cursor, retry, status, clean>>

(* A mutant: the loop misses the last slot. *)
MutSweepEndsEarly == cursor < NumSlots - 1 => ~ freelist[cursor]

(* The loop of fh_gc_sweep ends at the first vacant slot.                  *)
SweepEnds == cursor < NumSlots => ~ freelist[cursor]

(* A mutant: the slot is freed and not discounted.                         *)
MutSweepSlotUncounted ==
  /\ gc_state = "SWEEP"
  /\ ~ SweepEnds
  /\ IF marked[cursor]
       THEN /\ marked' = [marked EXCEPT ![cursor] = FALSE]
            /\ UNCHANGED arena
       ELSE /\ freelist' = [freelist EXCEPT ![cursor] = FALSE]
            /\ UNCHANGED <<used_slots, marked>>
  /\ cursor' = cursor + 1
  /\ UNCHANGED <<values, callstack, held, gc_state, pending, retry, status, clean>>

(* One iteration of the loop of fh_gc_sweep.  fh_gc_free_val clears a copy *)
(* of the value on the C stack, so the slot's contents stay as they are.   *)
SweepSlot ==
  /\ gc_state = "SWEEP"
  /\ ~ SweepEnds
  /\ IF marked[cursor]
       THEN /\ marked' = [marked EXCEPT ![cursor] = FALSE]
            /\ UNCHANGED arena
       ELSE /\ freelist' = [freelist EXCEPT ![cursor] = FALSE]
            /\ used_slots' = used_slots - 1
            /\ UNCHANGED marked
  /\ cursor' = cursor + 1
  /\ UNCHANGED <<values, callstack, held, gc_state, pending, retry, status, clean>>

StopGC ==
  /\ gc_state = "SWEEP"
  /\ SweepEnds
  /\ gc_state' = "NONE"
  /\ cursor' = 0
  /\ UNCHANGED <<arena, values, marked, callstack, held, pending, retry, status, clean>>

(* The process has exited. *)
Exited == status = "oom" /\ UNCHANGED vars

GCStep == (\E s \in Slot : MarkVal(s)) \/ StartSweep \/ SweepSlot \/ StopGC

MallocStep == NewValRetries \/ OutOfMemory

Mutator ==
  \/ \E kind \in Kind : NewVal(kind) \/ NewValCollects(kind)
  \/ \E o, v \in Slot : SetProp(o, v) \/ DelProp(o, v) \/ SetLink(o, v)
  \/ \E v \in Slot : Hold(v) \/ Drop(v) \/ EnterScope(v)
  \/ PushState
  \/ PopState
  \/ GcRun

Next == Mutator \/ GCStep \/ MallocStep \/ Exited

(* Once fh_gc or fh_malloc has been called, the C code runs to its end:    *)
(* nothing blocks in it and no other thread competes.                      *)
Fairness == WF_vars(GCStep) /\ WF_vars(MallocStep)

Spec == Init /\ [][Next]_vars /\ Fairness

-----------------------------------------------------------------------------
(* Properties.                                                             *)

TypeOK ==
  /\ freelist \in [Slot -> BOOLEAN]
  /\ used_slots \in 0 .. NumSlots
  /\ isObj \in [Slot -> BOOLEAN]
  /\ refs \in [Slot -> SUBSET Slot]
  /\ links \in [Slot -> SUBSET Slot]
  /\ marked \in [Slot -> BOOLEAN]
  /\ callstack \in Seq(Slot \cup {NULL})
  /\ held \in SUBSET Slot
  /\ gc_state \in {"NONE", "MARK", "SWEEP"}
  /\ pending \in SUBSET Slot
  /\ cursor \in 0 .. NumSlots
  /\ retry \in Kind \cup {NULL}
  /\ status \in {"running", "oom"}
  /\ clean \in BOOLEAN

Occupied == {s \in Slot : freelist[s]}

(* The arena's counter agrees with its freelist after every step of the    *)
(* allocator and of the sweep, also when a sweep stops half way.           *)
UsedSlotsCounted == used_slots = Cardinality(Occupied)

(* What the sweep under way will have left: the slots it has passed and    *)
(* not freed, and the marked ones ahead.                                   *)
Survivors == {s \in Slot : IF s < cursor THEN freelist[s] ELSE marked[s]}

(* Marking that started with no mark left over reaches exactly the live    *)
(* values, by way of the prototype, the map, the scope, the parent...; the *)
(* sweep keeps to that set.                                                *)
SweepKeepsLive == gc_state = "SWEEP" /\ clean => Survivors = Live

Freed == {s \in Slot : freelist[s] /\ ~ freelist'[s]}

(* A collection that starts with no mark left over frees no reachable      *)
(* value, be it started by a full arena or by gc.run().                    *)
CleanCollectionIsSafe == [][clean => Freed \cap Live = {}]_vars

(* No collection frees a value that the global object or a frame's scope   *)
(* reaches: the variables of test_gc.js "shouldn't be collected".  It      *)
(* holds as long as only a full arena starts collections; gc.run() on an   *)
(* arena with holes breaks it.                                             *)
CollectionIsSafe == [][Freed \cap Live = {}]_vars

(* No collection frees what the running C code still holds: it does not    *)
(* hold, since fh_gc knows no root but the global object and the scopes.   *)
HeldSurvives == [][Freed \cap Usable = {}]_vars

(* Collections started by a full arena leave no mark behind, which is what *)
(* the next one relies on.                                                 *)
NoStaleMarks == gc_state = "NONE" => \A s \in Slot : ~ marked[s]

(* When fh_malloc tries again, the taken slots are exactly the live ones:  *)
(* the collection was complete, and an exit for lack of memory is real.    *)
RetryFindsExactlyLive ==
  gc_state = "NONE" /\ retry # NULL => Occupied = Live

(* Every collection comes to its end: marking a cyclic graph included.     *)
CollectionEnds == gc_state = "MARK" ~> gc_state = "NONE"

(* Every allocation that has to wait for a collection is answered, by a    *)
(* slot or by the exit.                                                    *)
AllocationAnswered == retry # NULL ~> (retry = NULL \/ status = "oom")

(* The arena implements the promise of module Collector. *)
Promise == INSTANCE Collector WITH
             used <- Occupied, graph <- Graph, roots <- Roots, status <- status

ImplementsCollector == Promise!Spec
=============================================================================
