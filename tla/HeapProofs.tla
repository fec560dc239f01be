----------------------------- MODULE HeapProofs -----------------------------
(***************************************************************************)
(* Theorems about the arena and its collector (Heap.tla), for every number *)
(* of slots and every bound.                                               *)
(***************************************************************************)
EXTENDS Heap, TLAPS, FiniteSetTheorems, SequenceTheorems

-----------------------------------------------------------------------------
(* Reachability: the three facts that define it.                           *)

(* Roots are reachable. *)
LEMMA ReachRoots ==
  ASSUME NEW E, NEW R \in SUBSET DOMAIN E
  PROVE  R \subseteq ReachFrom(R, E)
BY DEF ReachFrom

(* What a reachable node points at is reachable. *)
LEMMA ReachClosed ==
  ASSUME NEW V, NEW E \in [V -> SUBSET V], NEW R \in SUBSET V
  PROVE  Closed(ReachFrom(R, E), E)
<1> SUFFICES ASSUME NEW x \in ReachFrom(R, E), NEW y \in E[x]
             PROVE  y \in ReachFrom(R, E)
  BY DEF Closed
<1>1. DOMAIN E = V /\ x \in V
  BY DEF ReachFrom
<1>2. y \in V
  BY <1>1
<1>3. ASSUME NEW S \in SUBSET V, R \subseteq S, Closed(S, E)
      PROVE  y \in S
  BY <1>1, <1>3 DEF ReachFrom, Closed
<1> QED
  BY <1>1, <1>2, <1>3 DEF ReachFrom

(* Any closed set that holds the roots holds all that is reachable. *)
LEMMA ReachLeast ==
  ASSUME NEW E, NEW R, NEW S \in SUBSET DOMAIN E, R \subseteq S, Closed(S, E)
  PROVE  ReachFrom(R, E) \subseteq S
BY DEF ReachFrom

-----------------------------------------------------------------------------
(* What the actions leave alone.                                           *)

(* A step of the interpreter that touches neither arena nor collector: it  *)
(* stores pointers, or pushes, pops and fills frames.                      *)
Quiet ==
  /\ Running
  /\ UNCHANGED <<freelist, used_slots, marked, isObj, gc_state, pending,
                 cursor, clean, retry, status>>
  /\ refs' \in [Slot -> SUBSET Slot]
  /\ links' \in [Slot -> SUBSET Slot]
  /\ held' \in SUBSET Slot
  /\ callstack' \in Seq(Slot \cup {NULL})

(* Stores into values take no slot and touch no mark. *)
LEMMA StoreIsQuiet ==
  ASSUME TypeOK, NEW o \in Slot, NEW v \in Slot,
         SetProp(o, v) \/ DelProp(o, v) \/ SetLink(o, v)
  PROVE  Quiet
<1>1. CASE SetProp(o, v)
  BY <1>1 DEF SetProp, Quiet, TypeOK, arena, gcVars
<1>2. CASE DelProp(o, v)
  BY <1>2 DEF DelProp, Quiet, TypeOK, arena, gcVars
<1>3. CASE SetLink(o, v)
  BY <1>3 DEF SetLink, Quiet, TypeOK, arena, gcVars
<1> QED
  BY <1>1, <1>2, <1>3

(* Neither does a C local that takes a value or gives it up. *)
LEMMA HoldIsQuiet ==
  ASSUME TypeOK, NEW v \in Slot, Hold(v) \/ Drop(v)
  PROVE  Quiet
BY DEF Hold, Drop, Quiet, TypeOK, arena, values, gcVars

(* Neither do the frames that come and go. *)
LEMMA FrameIsQuiet ==
  ASSUME TypeOK, PushState \/ PopState \/ \E v \in Slot : EnterScope(v)
  PROVE  Quiet
<1> DEFINE Scope == Slot \cup {NULL}
<1> USE DEF TypeOK
<1>1. CASE PushState
  BY <1>1, AppendProperties DEF PushState, Quiet, arena, values, gcVars
<1>2. CASE PopState
  <2>1. callstack \in Seq(Scope) /\ Len(callstack) \in Nat
    BY LenProperties
  <2>2. \A i \in 1 .. Len(callstack) - 1 : callstack[i] \in Scope
    BY <2>1, ElementOfSeq
  <2>3. SubSeq(callstack, 1, Len(callstack) - 1) \in Seq(Scope)
    BY <2>1, <2>2, SubSeqProperties
  <2> QED
    BY <1>2, <2>3 DEF PopState, Quiet, arena, values, gcVars
<1>3. ASSUME NEW v \in Slot, EnterScope(v)
      PROVE  Quiet
  <2>1. callstack \in Seq(Scope) /\ Len(callstack) \in 1 .. Len(callstack)
    BY <1>3, LenProperties, EmptySeq DEF EnterScope
  <2>2. [callstack EXCEPT ![Len(callstack)] = v] \in Seq(Scope)
    BY <2>1, ExceptSeq
  <2> QED
    BY <1>3, <2>2 DEF EnterScope, Quiet, arena, values, gcVars
<1> QED
  BY <1>1, <1>2, <1>3

(* The steps of the specification, one case for each thing that can happen *)
(* to the arena.                                                           *)
LEMMA StepCases ==
  ASSUME TypeOK, [Next]_vars
  PROVE  \/ Quiet
         \/ \E kind \in Kind : NewVal(kind)
         \/ \E kind \in Kind : NewValCollects(kind)
         \/ GcRun
         \/ \E s \in Slot : MarkVal(s)
         \/ StartSweep
         \/ SweepSlot
         \/ StopGC
         \/ NewValRetries
         \/ OutOfMemory
         \/ UNCHANGED vars
<1>1. CASE Mutator
  <2>1. CASE \E o, v \in Slot : SetProp(o, v) \/ DelProp(o, v) \/ SetLink(o, v)
    BY <2>1, StoreIsQuiet
  <2>2. CASE \E v \in Slot : Hold(v) \/ Drop(v)
    BY <2>2, HoldIsQuiet
  <2>3. CASE PushState \/ PopState \/ \E v \in Slot : EnterScope(v)
    BY <2>3, FrameIsQuiet
  <2> QED
    BY <1>1, <2>1, <2>2, <2>3 DEF Mutator
<1> QED
  BY <1>1 DEF Next, GCStep, MallocStep, Exited

-----------------------------------------------------------------------------
(* Types, and the count of the taken slots.                                *)

(* Together they are inductive: the count is bounded because it is right.  *)
TypeInv == TypeOK /\ UsedSlotsCounted

(* The arena is finite, and as large as its constant says. *)
LEMMA SlotsFinite == IsFiniteSet(Slot) /\ Cardinality(Slot) = NumSlots
BY FS_Interval, HeapAssumption DEF Slot

(* Counting a subset of the slots stays within the arena. *)
LEMMA CountInRange ==
  ASSUME NEW S \in SUBSET Slot
  PROVE  IsFiniteSet(S) /\ Cardinality(S) \in 0 .. NumSlots
<1>1. IsFiniteSet(S) /\ Cardinality(S) <= NumSlots
  BY SlotsFinite, FS_Subset
<1>2. Cardinality(S) \in Nat
  BY <1>1, FS_CardinalityType
<1> QED
  BY <1>1, <1>2, HeapAssumption

(* Taking a vacant slot keeps the count right. *)
LEMMA OccupyTypeInv ==
  ASSUME TypeInv, NEW s \in Slot, NEW kind \in Kind, FirstVacant(s),
         Occupy(s, kind), UNCHANGED <<callstack, gcVars, status>>,
         retry' \in Kind \cup {NULL}
  PROVE  TypeInv'
<1> USE DEF TypeInv, TypeOK
<1>1. s \notin Occupied /\ Occupied' = Occupied \cup {s}
  BY DEF FirstVacant, Vacant, Occupied, Occupy
<1>2. Occupied \in SUBSET Slot /\ Occupied' \in SUBSET Slot
  BY <1>1 DEF Occupied
<1>3. Cardinality(Occupied') = Cardinality(Occupied) + 1
  BY <1>1, <1>2, CountInRange, FS_AddElement
<1>4. UsedSlotsCounted'
  BY <1>3 DEF UsedSlotsCounted, Occupy
<1>5. used_slots' \in 0 .. NumSlots
  BY <1>2, <1>4, CountInRange DEF UsedSlotsCounted
<1>6. TypeOK'
  BY <1>5 DEF Occupy, gcVars
<1> QED
  BY <1>4, <1>6

(* What marking starts from lies in the arena. *)
LEMMA RootsInSlot ==
  ASSUME TypeOK
  PROVE  Roots \in SUBSET Slot
<1>1. 0 \in Slot
  BY HeapAssumption DEF Slot
<1>2. \A i \in 1 .. Len(callstack) : callstack[i] \in Slot \cup {NULL}
  BY ElementOfSeq DEF TypeOK
<1> QED
  BY <1>1, <1>2 DEF Roots, Scopes

(* So does what a value points at. *)
LEMMA ChildrenInSlot ==
  ASSUME TypeOK
  PROVE  Graph \in [Slot -> SUBSET Slot] /\ \A s \in Slot : Graph[s] = Children(s)
BY DEF TypeOK, Graph, Children

(* The bootstrapped arena is well typed and counted. *)
LEMMA InitTypeInv == Init => TypeInv
<1> SUFFICES ASSUME Init PROVE TypeInv
  OBVIOUS
<1>1. 0 \in Slot /\ NumSlots \in Nat /\ 1 \in 0 .. NumSlots
  BY HeapAssumption DEF Slot
<1>2. Occupied = {0}
  BY <1>1 DEF Init, Occupied
<1>3. UsedSlotsCounted
  BY <1>2, FS_Singleton DEF Init, UsedSlotsCounted
<1>4. TypeOK
  BY <1>1, EmptySeq DEF Init, TypeOK
<1> QED
  BY <1>3, <1>4 DEF TypeInv

(* Leaving the arena alone leaves the count right; only types are left.    *)
LEMMA ArenaUnchanged ==
  ASSUME TypeInv, UNCHANGED arena
  PROVE  UsedSlotsCounted' /\ used_slots' \in 0 .. NumSlots
                           /\ freelist' \in [Slot -> BOOLEAN]
BY DEF TypeInv, TypeOK, UsedSlotsCounted, Occupied, arena


(* Every step keeps it so. *)
LEMMA NextTypeInv == TypeInv /\ [Next]_vars => TypeInv'
<1> SUFFICES ASSUME TypeInv, [Next]_vars PROVE TypeInv'
  OBVIOUS
<1> USE DEF TypeInv
<1>1. CASE Quiet
  BY <1>1, ArenaUnchanged DEF Quiet, arena, TypeOK
<1>2. ASSUME NEW kind \in Kind, NewVal(kind)
      PROVE  TypeInv'
  BY <1>2, OccupyTypeInv DEF NewVal, TypeOK
<1>3. ASSUME NEW kind \in Kind, NewValCollects(kind) \/ GcRun
      PROVE  TypeInv'
  <2>1. StartGC /\ retry' \in Kind \cup {NULL} /\ UNCHANGED status
    BY <1>3 DEF NewValCollects, GcRun, TypeOK
  <2>2. 0 \in 0 .. NumSlots
    BY HeapAssumption
  <2> QED
    BY <2>1, <2>2, ArenaUnchanged, RootsInSlot DEF StartGC, arena, TypeOK
<1>4. ASSUME NEW s \in Slot, MarkVal(s)
      PROVE  TypeInv'
  <2>1. Children(s) \in SUBSET Slot
    BY ChildrenInSlot
  <2> QED
    BY <1>4, <2>1, ArenaUnchanged DEF MarkVal, TypeOK, arena, values
<1>5. CASE StartSweep
  BY <1>5, ArenaUnchanged DEF StartSweep, TypeOK, arena, values
<1>6. CASE SweepSlot
  <2>1. cursor \in Slot /\ cursor + 1 \in 0 .. NumSlots /\ freelist[cursor]
    BY <1>6, HeapAssumption DEF SweepSlot, SweepEnds, Slot, TypeOK
  <2>2. CASE marked[cursor]
    BY <1>6, <2>1, <2>2, ArenaUnchanged DEF SweepSlot, TypeOK, arena, values
  <2>3. CASE ~ marked[cursor]
    <3>1. Occupied' = Occupied \ {cursor} /\ cursor \in Occupied
      BY <1>6, <2>1, <2>3 DEF SweepSlot, Occupied, TypeOK
    <3>2. Occupied \in SUBSET Slot /\ Occupied' \in SUBSET Slot
      BY <3>1 DEF Occupied
    <3>3. Cardinality(Occupied') = Cardinality(Occupied) - 1
      BY <3>1, <3>2, CountInRange, FS_RemoveElement
    <3>4. UsedSlotsCounted'
      BY <1>6, <2>3, <3>3 DEF SweepSlot, UsedSlotsCounted
    <3>5. used_slots' \in 0 .. NumSlots
      BY <3>2, <3>4, CountInRange DEF UsedSlotsCounted
    <3> QED
      BY <1>6, <2>1, <2>3, <3>4, <3>5 DEF SweepSlot, TypeOK, values
  <2> QED
    BY <2>2, <2>3
<1>7. CASE StopGC
  <2>1. 0 \in 0 .. NumSlots
    BY HeapAssumption
  <2> QED
    BY <1>7, <2>1, ArenaUnchanged DEF StopGC, TypeOK, arena, values
<1>8. CASE NewValRetries
  <2>1. NULL \notin Kind /\ retry \in Kind
    BY <1>8, HeapAssumption DEF NewValRetries
  <2> QED
    BY <1>8, <2>1, OccupyTypeInv DEF NewValRetries
<1>9. CASE OutOfMemory
  BY <1>9, ArenaUnchanged DEF OutOfMemory, TypeOK, arena, values, gcVars
<1>10. CASE UNCHANGED vars
  BY <1>10, ArenaUnchanged DEF vars, arena, TypeOK
<1>11. \E kind \in Kind : TRUE
  BY DEF Kind
<1> QED
  BY <1>1, <1>2, <1>3, <1>4, <1>5, <1>6, <1>7, <1>8, <1>9, <1>10, <1>11, StepCases

(* Every value of every variable stays in its type: cursor and used_slots  *)
(* never leave the arena (fh_malloc, fh_gc_sweep).                         *)
THEOREM TypeCorrect == Spec => []TypeOK
<1>1. TypeInv => TypeOK
  BY DEF TypeInv
<1> QED
  BY <1>1, InitTypeInv, NextTypeInv, PTL DEF Spec

(* used_slots is at every step the number of slots the freelist has taken. *)
THEOREM UsedSlotsCorrect == Spec => []UsedSlotsCounted
<1>1. TypeInv => UsedSlotsCounted
  BY DEF TypeInv
<1> QED
  BY <1>1, InitTypeInv, NextTypeInv, PTL DEF Spec

-----------------------------------------------------------------------------
(* The collector frees no reachable value.                                 *)

Marked == {s \in Slot : marked[s]}

(* While marking: every root and every pointer of a marked value is marked *)
(* or still to be followed, and nothing unreachable is.  While sweeping:   *)
(* what will be left is what is reachable.                                 *)
CollectorInv ==
  /\ gc_state = "MARK" /\ clean =>
       /\ Roots \subseteq Marked \cup pending
       /\ \A s \in Marked : Children(s) \subseteq Marked \cup pending
       /\ Marked \cup pending \subseteq Live
  /\ gc_state = "MARK" => cursor = 0
  /\ SweepKeepsLive

(* Steps of the collector change no pointer and no root.                   *)
LEMMA SameGraph ==
  ASSUME UNCHANGED <<values, callstack>>
  PROVE  Graph' = Graph /\ Roots' = Roots /\ Live' = Live
         /\ \A s : Children(s)' = Children(s)
BY DEF values, Graph, Children, Roots, Scopes, Live

(* The live values hold the roots, are closed, and lie in every closed set. *)
LEMMA LiveFacts ==
  ASSUME TypeOK
  PROVE  /\ Live \in SUBSET Slot
         /\ Roots \subseteq Live
         /\ \A s \in Live : Children(s) \subseteq Live
         /\ \A S \in SUBSET Slot :
              Roots \subseteq S /\ (\A s \in S : Children(s) \subseteq S)
              => Live \subseteq S
<1>1. Roots \in SUBSET Slot /\ Graph \in [Slot -> SUBSET Slot] /\ DOMAIN Graph = Slot
  BY RootsInSlot, ChildrenInSlot
<1>2. Live \in SUBSET Slot
  BY <1>1 DEF Live, ReachFrom
<1>3. Roots \subseteq Live
  BY <1>1, ReachRoots DEF Live
<1>4. \A s \in Live : Children(s) \subseteq Live
  BY <1>1, <1>2, ReachClosed, ChildrenInSlot DEF Live, Closed
<1>5. ASSUME NEW S \in SUBSET Slot, Roots \subseteq S,
             \A s \in S : Children(s) \subseteq S
      PROVE  Live \subseteq S
  BY <1>1, <1>5, ReachLeast, ChildrenInSlot DEF Live, Closed
<1> QED
  BY <1>2, <1>3, <1>4, <1>5

(* A collection begins with nothing marked and the roots to be followed.   *)
LEMMA StartGCInv ==
  ASSUME TypeOK, StartGC
  PROVE  CollectorInv'
<1>1. Roots' = Roots /\ Live' = Live
  BY SameGraph DEF StartGC, values
<1>2. clean' => Marked' = {}
  BY DEF StartGC, Marked
<1> QED
  BY <1>1, <1>2, LiveFacts DEF StartGC, CollectorInv, SweepKeepsLive

(* Between collections the collector has nothing to answer for. *)
LEMMA NoGCInv ==
  ASSUME gc_state' = "NONE"
  PROVE  CollectorInv'
BY DEF CollectorInv, SweepKeepsLive

(* Marking and sweeping keep the invariant of the collector. *)
LEMMA NextCollectorInv ==
  TypeOK /\ CollectorInv /\ [Next]_vars => CollectorInv'
<1> SUFFICES ASSUME TypeOK, CollectorInv, [Next]_vars PROVE CollectorInv'
  OBVIOUS
<1>1. CASE Quiet
  BY <1>1, NoGCInv DEF Quiet, Running
<1>2. CASE NewValRetries \/ OutOfMemory \/ StopGC \/ \E kind \in Kind : NewVal(kind)
  BY <1>2, NoGCInv DEF NewVal, Running, NewValRetries, OutOfMemory, StopGC, gcVars
<1>3. CASE GcRun \/ \E kind \in Kind : NewValCollects(kind)
  BY <1>3, StartGCInv DEF NewValCollects, GcRun
<1>4. ASSUME NEW s \in Slot, MarkVal(s)
      PROVE  CollectorInv'
  <2>1. /\ Roots' = Roots /\ Live' = Live
        /\ \A t : Children(t)' = Children(t)
    BY <1>4, SameGraph DEF MarkVal
  <2>2. Marked' = Marked \cup {s}
    BY <1>4 DEF MarkVal, Marked, TypeOK
  <2>3. pending' = (pending \ {s}) \cup (IF s \in Marked THEN {} ELSE Children(s))
    BY <1>4 DEF MarkVal, Marked
  <2>4. gc_state = "MARK" /\ gc_state' = "MARK" /\ s \in pending
        /\ cursor' = cursor /\ clean' = clean
    BY <1>4 DEF MarkVal
  <2>5. ASSUME clean
        PROVE  /\ Roots' \subseteq Marked' \cup pending'
               /\ \A t \in Marked' : Children(t)' \subseteq Marked' \cup pending'
               /\ Marked' \cup pending' \subseteq Live'
    <3>1. /\ Roots \subseteq Marked \cup pending
          /\ \A t \in Marked : Children(t) \subseteq Marked \cup pending
          /\ Marked \cup pending \subseteq Live
      BY <2>4, <2>5 DEF CollectorInv
    <3>2. Marked \cup pending \subseteq Marked' \cup pending'
      BY <2>2, <2>3
    <3>3. Children(s) \subseteq Marked' \cup pending'
      BY <2>2, <2>3, <3>1, <3>2
    <3>4. Children(s) \subseteq Live
      BY <2>4, <3>1, LiveFacts
    <3> QED
      BY <2>1, <2>2, <2>3, <2>4, <3>1, <3>2, <3>3, <3>4
  <2> QED
    BY <2>4, <2>5 DEF CollectorInv, SweepKeepsLive
<1>5. CASE StartSweep
  <2>1. Live' = Live /\ marked' = marked /\ cursor' = 0 /\ gc_state' = "SWEEP"
        /\ clean' = clean /\ gc_state = "MARK" /\ pending = {}
    BY <1>5, SameGraph DEF StartSweep, CollectorInv
  <2>2. Survivors' = Marked
    BY <2>1, HeapAssumption DEF Survivors, Marked, Slot
  <2>3. clean => Marked = Live
    BY <2>1, LiveFacts DEF CollectorInv, Marked
  <2> QED
    BY <2>1, <2>2, <2>3 DEF CollectorInv, SweepKeepsLive
<1>6. CASE SweepSlot
  <2>1. Live' = Live /\ gc_state' = "SWEEP" /\ gc_state = "SWEEP" /\ clean' = clean
    BY <1>6, SameGraph DEF SweepSlot
  <2>2. cursor \in Slot /\ freelist[cursor] /\ cursor' = cursor + 1
    BY <1>6, HeapAssumption DEF SweepSlot, SweepEnds, Slot, TypeOK
  <2>3. ASSUME NEW s \in Slot
        PROVE  (IF s < cursor' THEN freelist'[s] ELSE marked'[s])
               = (IF s < cursor THEN freelist[s] ELSE marked[s])
    <3>1. s \in Int /\ cursor \in Int
      BY <2>2, HeapAssumption DEF Slot
    <3>2. CASE s = cursor
      <4>1. s < cursor' /\ ~ (s < cursor)
        BY <2>2, <3>1, <3>2
      <4>2. freelist'[s] = marked[s]
        BY <1>6, <2>2, <3>2 DEF SweepSlot, TypeOK, arena
      <4> QED
        BY <4>1, <4>2
    <3>3. CASE s # cursor
      <4>1. freelist'[s] = freelist[s] /\ marked'[s] = marked[s]
        BY <1>6, <3>3 DEF SweepSlot, TypeOK, arena
      <4>2. s < cursor' <=> s < cursor
        BY <2>2, <3>1, <3>3
      <4> QED
        BY <4>1, <4>2
    <3> QED
      BY <3>2, <3>3
  <2>4. Survivors' = Survivors
    BY <2>3 DEF Survivors
  <2> QED
    BY <2>1, <2>4 DEF CollectorInv, SweepKeepsLive
<1>7. CASE UNCHANGED vars
  <2>1. Live' = Live /\ Roots' = Roots /\ \A s : Children(s)' = Children(s)
    BY <1>7, SameGraph DEF vars, values
  <2> QED
    BY <1>7, <2>1 DEF vars, CollectorInv, SweepKeepsLive, Survivors, Marked
<1> QED
  BY <1>1, <1>2, <1>3, <1>4, <1>5, <1>6, <1>7, StepCases

(* No collection is under way at first. *)
LEMMA InitCollectorInv == Init => CollectorInv
BY DEF Init, CollectorInv, SweepKeepsLive

(* The sweep of a collection that started with no mark left over keeps     *)
(* exactly the reachable values (fh_gc_mark, fh_gc_sweep).                 *)
THEOREM SweepCorrect == Spec => []SweepKeepsLive
<1>1. Init => TypeInv /\ CollectorInv
  BY InitTypeInv, InitCollectorInv
<1>2. (TypeInv /\ CollectorInv) /\ [Next]_vars => (TypeInv /\ CollectorInv)'
  BY NextTypeInv, NextCollectorInv DEF TypeInv
<1>3. TypeInv /\ CollectorInv => SweepKeepsLive
  BY DEF CollectorInv
<1> QED
  BY <1>1, <1>2, <1>3, PTL DEF Spec

(* Only the sweep frees, and only the slot it looks at.                    *)
LEMMA OnlySweepFrees ==
  ASSUME TypeOK, [Next]_vars, NEW s \in Freed
  PROVE  SweepSlot /\ s = cursor /\ ~ marked[cursor]
<1>1. s \in Slot /\ freelist[s] /\ ~ freelist'[s]
  BY DEF Freed
<1>2. ~ Quiet /\ ~ UNCHANGED vars
  BY <1>1 DEF Quiet, vars
<1>3. ~ NewValRetries /\ ~ \E kind \in Kind : NewVal(kind)
  BY <1>1 DEF NewValRetries, NewVal, Occupy, TypeOK
<1>4. ~ GcRun /\ ~ \E kind \in Kind : NewValCollects(kind)
  BY <1>1 DEF GcRun, NewValCollects, StartGC
<1>5. ~ StartSweep /\ ~ StopGC /\ ~ OutOfMemory /\ ~ \E t \in Slot : MarkVal(t)
  BY <1>1 DEF StartSweep, StopGC, OutOfMemory, MarkVal, arena
<1>6. SweepSlot
  BY <1>2, <1>3, <1>4, <1>5, StepCases
<1> QED
  BY <1>1, <1>6 DEF SweepSlot, TypeOK, arena

(* A step of a collection that started clean frees nothing live. *)
LEMMA CleanStep ==
  TypeOK /\ CollectorInv /\ [Next]_vars => (clean => Freed \cap Live = {})
<1> SUFFICES ASSUME TypeOK, CollectorInv, [Next]_vars, clean, NEW s \in Freed
             PROVE  s \notin Live
  OBVIOUS
<1>1. SweepSlot /\ s = cursor /\ ~ marked[s]
  BY OnlySweepFrees
<1>2. s \notin Survivors
  BY <1>1 DEF Survivors, TypeOK
<1> QED
  BY <1>1, <1>2 DEF SweepSlot, CollectorInv, SweepKeepsLive

(* A collection that started with no mark left over, whoever started it,   *)
(* frees no reachable value.                                               *)
THEOREM CleanCollectionSafe == Spec => CleanCollectionIsSafe
<1>1. Init => TypeInv /\ CollectorInv
  BY InitTypeInv, InitCollectorInv
<1>2. (TypeInv /\ CollectorInv) /\ [Next]_vars => (TypeInv /\ CollectorInv)'
  BY NextTypeInv, NextCollectorInv DEF TypeInv
<1>3. (TypeInv /\ CollectorInv) /\ [Next]_vars
      => [clean => Freed \cap Live = {}]_vars
  BY CleanStep DEF TypeInv
<1> QED
  BY <1>1, <1>2, <1>3, PTL DEF Spec, CleanCollectionIsSafe

-----------------------------------------------------------------------------
(* Collections started by a full arena alone: without gc.run().            *)

(* The arena is full when marking starts, so the sweep passes every slot,  *)
(* resets every mark, and finds no mark left over the next time.           *)
FullInv ==
  /\ clean
  /\ NoStaleMarks
  /\ gc_state # "NONE" => retry # NULL
  /\ gc_state = "MARK" => Vacant = {}
  /\ gc_state = "SWEEP" => \A s \in Slot : IF s < cursor THEN ~ marked[s]
                                                         ELSE freelist[s]
  /\ RetryFindsExactlyLive

HeapInv == TypeInv /\ CollectorInv /\ FullInv

(* The whole invariant holds of the bootstrapped heap. *)
LEMMA InitHeapInv == Init => HeapInv
<1>1. Init => FullInv
  BY DEF Init, FullInv, NoStaleMarks, RetryFindsExactlyLive
<1> QED
  BY <1>1, InitTypeInv, InitCollectorInv DEF HeapInv

(* Collections started by a full arena keep the stronger invariant. *)
LEMMA NextFullInv ==
  ASSUME ~ ExplicitRun, HeapInv, [Next]_vars
  PROVE  FullInv'
<1> USE DEF HeapInv, TypeInv, FullInv
<1>1. CASE Quiet
  BY <1>1 DEF Quiet, Running, NoStaleMarks, RetryFindsExactlyLive
<1>2. ASSUME NEW kind \in Kind, NewVal(kind)
      PROVE  FullInv'
  BY <1>2 DEF NewVal, Running, Occupy, gcVars, NoStaleMarks,
              RetryFindsExactlyLive, TypeOK
<1>3. ASSUME NEW kind \in Kind, NewValCollects(kind)
      PROVE  FullInv'
  <2>1. retry' = kind /\ kind # NULL /\ gc_state' = "MARK" /\ clean'
    BY <1>3, HeapAssumption
       DEF NewValCollects, StartGC, Running, NoStaleMarks
  <2>2. Vacant' = {}
    BY <1>3 DEF NewValCollects, StartGC, Vacant
  <2> QED
    BY <2>1, <2>2 DEF NoStaleMarks, RetryFindsExactlyLive
<1>4. CASE GcRun
  BY <1>4 DEF GcRun
<1>5. ASSUME NEW s \in Slot, MarkVal(s)
      PROVE  FullInv'
  BY <1>5 DEF MarkVal, arena, Vacant, NoStaleMarks, RetryFindsExactlyLive
<1>6. CASE StartSweep
  <2>1. cursor' = 0 /\ freelist' = freelist
    BY <1>6 DEF StartSweep, arena, CollectorInv
  <2>2. \A s \in Slot : ~ (s < 0) /\ freelist[s]
    BY <1>6, HeapAssumption DEF StartSweep, Vacant, Slot
  <2> QED
    BY <1>6, <2>1, <2>2 DEF StartSweep, NoStaleMarks, RetryFindsExactlyLive
<1>7. CASE SweepSlot
  <2>1. cursor \in Slot /\ cursor' = cursor + 1 /\ gc_state' = "SWEEP"
        /\ gc_state = "SWEEP" /\ UNCHANGED <<retry, clean>>
    BY <1>7, HeapAssumption DEF SweepSlot, SweepEnds, Slot, TypeOK
  <2>2. ASSUME NEW s \in Slot
        PROVE  IF s < cursor' THEN ~ marked'[s] ELSE freelist'[s]
    <3>1. s \in Int /\ cursor \in Int
      BY <2>1, HeapAssumption DEF Slot
    <3>2. CASE s = cursor
      BY <1>7, <2>1, <3>1, <3>2 DEF SweepSlot, TypeOK
    <3>3. CASE s # cursor
      <4>1. freelist'[s] = freelist[s] /\ marked'[s] = marked[s]
        BY <1>7, <3>3 DEF SweepSlot, TypeOK, arena
      <4>2. s < cursor' <=> s < cursor
        BY <2>1, <3>1, <3>3
      <4> QED
        BY <2>1, <4>1, <4>2
    <3> QED
      BY <3>2, <3>3
  <2> QED
    BY <2>1, <2>2 DEF NoStaleMarks, RetryFindsExactlyLive
<1>8. CASE StopGC
  <2>1. gc_state = "SWEEP" /\ gc_state' = "NONE"
        /\ UNCHANGED <<freelist, marked, retry, clean>>
    BY <1>8 DEF StopGC, arena
  <2>2. Live' = Live
    BY <1>8, SameGraph DEF StopGC
  <2>3. \A s \in Slot : s < cursor
    BY <1>8, <2>1, HeapAssumption DEF StopGC, SweepEnds, Slot, TypeOK
  <2>4. Occupied = Live
    BY <2>1, <2>3 DEF CollectorInv, SweepKeepsLive, Survivors, Occupied
  <2> QED
    BY <2>1, <2>2, <2>3, <2>4 DEF NoStaleMarks, RetryFindsExactlyLive, Occupied
<1>9. CASE NewValRetries
  BY <1>9 DEF NewValRetries, Occupy, gcVars, NoStaleMarks,
              RetryFindsExactlyLive, TypeOK
<1>10. CASE OutOfMemory
  BY <1>10, SameGraph DEF OutOfMemory, gcVars, arena, NoStaleMarks,
                          RetryFindsExactlyLive, Occupied
<1>11. CASE UNCHANGED vars
  <2>1. Live' = Live
    BY <1>11, SameGraph DEF vars, values
  <2> QED
    BY <1>11, <2>1 DEF vars, NoStaleMarks, RetryFindsExactlyLive, Occupied, Vacant
<1> QED
  BY <1>1, <1>2, <1>3, <1>4, <1>5, <1>6, <1>7, <1>8, <1>9, <1>10, <1>11, StepCases

(* The whole invariant is inductive without gc.run(). *)
LEMMA NextHeapInv == ~ ExplicitRun /\ HeapInv /\ [Next]_vars => HeapInv'
BY NextTypeInv, NextCollectorInv, NextFullInv DEF HeapInv, TypeInv

(* The invariant of a heap that no script collects, for every behaviour.   *)
THEOREM HeapInvariant == ASSUME ~ ExplicitRun PROVE Spec => []HeapInv
BY InitHeapInv, NextHeapInv, PTL DEF Spec

(* A full arena starts every collection on clean marks.                    *)
THEOREM NoStaleMarksCorrect == ASSUME ~ ExplicitRun PROVE Spec => []NoStaleMarks
<1>1. HeapInv => NoStaleMarks
  BY DEF HeapInv, FullInv
<1> QED
  BY <1>1, HeapInvariant, PTL

(* After a collection that fh_malloc started, the taken slots are exactly  *)
(* the reachable ones: nothing live was freed and no garbage is left.      *)
THEOREM RetryCorrect == ASSUME ~ ExplicitRun PROVE Spec => []RetryFindsExactlyLive
<1>1. HeapInv => RetryFindsExactlyLive
  BY DEF HeapInv, FullInv
<1> QED
  BY <1>1, HeapInvariant, PTL

(* Without gc.run() no collection ever frees a reachable value.            *)
THEOREM CollectionSafe == ASSUME ~ ExplicitRun PROVE Spec => CollectionIsSafe
<1>1. HeapInv /\ [Next]_vars => [Freed \cap Live = {}]_vars
  BY CleanStep DEF HeapInv, TypeInv, FullInv
<1> QED
  BY <1>1, HeapInvariant, PTL DEF Spec, CollectionIsSafe

-----------------------------------------------------------------------------
(* The arena implements the promise of module Collector.                   *)

(* The bootstrapped arena is an initial state of the abstract collector. *)
LEMMA InitPromise == Init => Promise!Init
<1> SUFFICES ASSUME Init PROVE Promise!Init
  OBVIOUS
<1>1. 0 \in Slot
  BY HeapAssumption DEF Slot
<1>2. Roots = {0} /\ Occupied = {0}
  BY <1>1 DEF Init, Roots, Scopes, Occupied
<1>3. Graph = [s \in Slot |-> {}]
  BY DEF Init, Graph, Children
<1> QED
  BY <1>1, <1>2, <1>3 DEF Promise!Init, Init

(* Nothing the promise speaks of changes. *)
LEMMA StutterPromise ==
  ASSUME UNCHANGED <<freelist, values, callstack, status>>
  PROVE  UNCHANGED Promise!vars
BY SameGraph DEF Promise!vars, Occupied

(* A constructor that finds a vacant slot is an abstract allocation. *)
LEMMA AllocatePromise ==
  ASSUME TypeOK, TypeOK', NEW s \in Slot, NEW kind \in Kind, FirstVacant(s),
         Occupy(s, kind), UNCHANGED <<callstack, status>>
  PROVE  Promise!Allocate(s)
<1>1. s \notin Occupied /\ Occupied' = Occupied \cup {s}
  BY DEF FirstVacant, Vacant, Occupied, Occupy, TypeOK
<1>2. \A t \in Slot : t # s => Children(t)' = Children(t)
  BY DEF Occupy, Children, TypeOK
<1>3. Graph' = [Graph EXCEPT ![s] = Children(s)']
  BY <1>2 DEF Graph
<1>4. Children(s)' \in SUBSET Slot
  BY DEF TypeOK, Children
<1>5. Roots' = Roots
  BY DEF Roots, Scopes
<1> QED
  BY <1>1, <1>3, <1>4, <1>5 DEF Promise!Allocate

(* The roots and the graph of the next state lie in the arena. *)
LEMMA RootsInSlotNext ==
  ASSUME TypeOK'
  PROVE  Roots' \in SUBSET Slot /\ Graph' \in [Slot -> SUBSET Slot]
<1>1. \A i \in 1 .. Len(callstack') : callstack'[i] \in Slot \cup {NULL}
  BY ElementOfSeq DEF TypeOK
<1>2. 0 \in Slot
  BY HeapAssumption DEF Slot
<1>3. Roots' \in SUBSET Slot
  BY <1>1, <1>2 DEF Roots, Scopes
<1>4. \A s \in Slot : Children(s)' \in SUBSET Slot
  BY DEF Children, TypeOK
<1> QED
  BY <1>3, <1>4 DEF Graph

(* The abstract collector and the heap agree on what is live. *)
LEMMA PromiseLive == Promise!Live = Live
BY DEF Promise!Live, Promise!ReachFrom, Promise!Closed, Live, ReachFrom, Closed

(* Every step of the heap is a step of the abstract collector, or none. *)
LEMMA StepPromise ==
  ASSUME ~ ExplicitRun, HeapInv, [Next]_vars
  PROVE  [Promise!Next]_(Promise!vars)
<1>1. TypeOK /\ TypeOK'
  BY NextTypeInv DEF HeapInv, TypeInv
<1>2. CASE Quiet
  <2>1. Promise!Mutate
    BY <1>1, <1>2, RootsInSlotNext DEF Promise!Mutate, Quiet, Occupied
  <2> QED
    BY <2>1 DEF Promise!Next
<1>3. ASSUME NEW kind \in Kind, NewVal(kind)
      PROVE  [Promise!Next]_(Promise!vars)
  BY <1>1, <1>3, AllocatePromise DEF NewVal, Promise!Next
<1>4. CASE NewValRetries
  BY <1>1, <1>4, AllocatePromise DEF NewValRetries, Promise!Next
<1>5. CASE \/ StartSweep \/ StopGC
           \/ \E kind \in Kind : NewValCollects(kind)
           \/ \E s \in Slot : MarkVal(s)
           \/ UNCHANGED vars
  <2>1. UNCHANGED <<freelist, values, callstack, status>>
    BY <1>5 DEF StartSweep, StopGC, NewValCollects, StartGC, MarkVal, vars, arena, values
  <2> QED
    BY <2>1, StutterPromise
<1>6. CASE GcRun
  BY <1>6 DEF GcRun
<1>7. CASE SweepSlot
  <2>1. cursor \in Slot /\ freelist[cursor]
    BY <1>1, <1>7, HeapAssumption DEF SweepSlot, SweepEnds, Slot, TypeOK
  <2>2. CASE marked[cursor]
    BY <1>7, <2>2, StutterPromise DEF SweepSlot, arena
  <2>3. CASE ~ marked[cursor]
    <3>1. Occupied' = Occupied \ {cursor} /\ cursor \in Occupied
      BY <1>1, <1>7, <2>1, <2>3 DEF SweepSlot, Occupied, TypeOK
    <3>2. cursor \in Freed
      BY <1>1, <1>7, <2>1, <2>3 DEF SweepSlot, Freed, TypeOK
    <3>3. cursor \notin Live
      BY <3>2, CleanStep DEF HeapInv, TypeInv, FullInv
    <3>4. cursor \notin Promise!Live
      BY <3>3, PromiseLive
    <3>5. Graph' = Graph /\ Roots' = Roots /\ status' = status
      BY <1>7, SameGraph DEF SweepSlot
    <3>6. Promise!Reclaim(cursor)
      BY <3>1, <3>4, <3>5 DEF Promise!Reclaim
    <3> QED
      BY <2>1, <3>6 DEF Promise!Next
  <2> QED
    BY <2>2, <2>3
<1>8. CASE OutOfMemory
  <2>1. Slot \subseteq Occupied /\ retry # NULL /\ gc_state = "NONE"
    BY <1>8, HeapAssumption DEF OutOfMemory, Vacant, Occupied
  <2>2. Slot \subseteq Occupied \cap Promise!Live
    BY <2>1, PromiseLive DEF HeapInv, FullInv, RetryFindsExactlyLive
  <2>3. Occupied' = Occupied /\ Graph' = Graph /\ Roots' = Roots
    BY <1>8, SameGraph DEF OutOfMemory, arena, Occupied
  <2>4. Promise!GiveUp
    BY <1>8, <2>2, <2>3 DEF OutOfMemory, Promise!GiveUp
  <2> QED
    BY <2>4 DEF Promise!Next
<1> QED
  BY <1>1, <1>2, <1>3, <1>4, <1>5, <1>6, <1>7, <1>8, StepCases

(* Without gc.run() the arena implements the abstract collector: slots are *)
(* taken back only when unreachable, and the process gives up only when    *)
(* every slot is reachable.                                                *)
THEOREM HeapImplementsCollector ==
  ASSUME ~ ExplicitRun PROVE Spec => ImplementsCollector
BY InitPromise, StepPromise, HeapInvariant, PTL
   DEF Spec, ImplementsCollector, Promise!Spec
=============================================================================
