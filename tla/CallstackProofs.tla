-------------------------- MODULE CallstackProofs --------------------------
(***************************************************************************)
(* Theorems about frames, calls and exceptions (Callstack.tla), for every  *)
(* bound and for the REPL and the script mode, and that the frames         *)
(* implement Unwinding.tla.                                                *)
(***************************************************************************)
EXTENDS Callstack, DataLemmas, TLAPS, SequenceTheorems

-----------------------------------------------------------------------------
(* Frames.                                                                 *)

(* Orphaning changes the owner of frames and nothing else. *)
LEMMA OrphanedFrames ==
  ASSUME NEW frames \in Seq(Frame), NEW d \in Nat
  PROVE  /\ Orphaned(frames, d) \in Seq(Frame)
         /\ Len(Orphaned(frames, d)) = Len(frames)
         /\ \A i \in 1 .. Len(frames) :
              /\ Orphaned(frames, d)[i].kind = frames[i].kind
              /\ Orphaned(frames, d)[i].act = IF frames[i].act >= d THEN 0 ELSE frames[i].act
<1>1. Len(frames) \in Nat /\ DOMAIN frames = 1 .. Len(frames)
  BY LenProperties
<1>2. \A i \in 1 .. Len(frames) : frames[i] \in Frame
  BY <1>1, ElementOfSeq
<1>3. \A i \in 1 .. Len(frames) : [frames[i] EXCEPT !.act = 0] \in Frame
  BY SMTT(40), <1>2, CallstackAssumption DEF Frame
<1>4. Orphaned(frames, d) \in [1 .. Len(frames) -> Frame]
  BY <1>1, <1>2, <1>3 DEF Orphaned
<1>5. \A i \in 1 .. Len(frames) :
        /\ Orphaned(frames, d)[i].kind = frames[i].kind
        /\ Orphaned(frames, d)[i].act = IF frames[i].act >= d THEN 0 ELSE frames[i].act
  BY <1>1, <1>2 DEF Orphaned, Frame
<1> QED
  BY <1>1, <1>4, <1>5, FunctionIsSeq

-----------------------------------------------------------------------------
(* The link between the two stacks.                                        *)

OwnerIn(acts, d) ==
  \/ acts[d].kind \in {"call", "throw", "body"}
  \/ acts[d].kind = "finally" /\ acts[d].catches = 0

KindIn(acts, d) == IF acts[d].kind \in TryBlock THEN "catch" ELSE "plain"

(* Every frame with an owner belongs to an activation that is still there, *)
(* frames have the order of their owners, and no owner misses its frame.   *)
Linked(frames, acts) ==
  /\ \A i \in 1 .. Len(frames) : frames[i].act # 0 =>
       /\ frames[i].act \in 1 .. Len(acts)
       /\ OwnerIn(acts, frames[i].act)
       /\ frames[i].kind = KindIn(acts, frames[i].act)
  /\ \A i, j \in 1 .. Len(frames) :
       i < j /\ frames[i].act # 0 /\ frames[j].act # 0 => frames[i].act < frames[j].act
  /\ \A d \in 1 .. Len(acts) : OwnerIn(acts, d) =>
       \E i \in 1 .. Len(frames) : frames[i].act = d

(* The owners of frames are numbers. *)
LEMMA ActsAreNumbers ==
  ASSUME NEW frames \in Seq(Frame)
  PROVE  \A i \in 1 .. Len(frames) : frames[i].act \in Nat
<1> SUFFICES ASSUME NEW i \in 1 .. Len(frames) PROVE frames[i].act \in Nat
  OBVIOUS
<1>1. frames[i] \in Frame
  BY ElementOfSeq
<1> QED
  BY <1>1, CallstackAssumption DEF Frame

(* An activation that pushes its frame. *)
LEMMA LinkPush ==
  ASSUME NEW frames \in Seq(Frame), NEW acts \in Seq(Activation), Linked(frames, acts),
         Len(acts) < MaxDepth, NEW a \in Activation, NEW kind \in {"plain", "catch"},
         a.kind \in {"call", "throw", "body"},
         kind = IF a.kind = "body" THEN "catch" ELSE "plain"
  PROVE  /\ Append(frames, [kind |-> kind, act |-> Len(acts) + 1]) \in Seq(Frame)
         /\ Linked(Append(frames, [kind |-> kind, act |-> Len(acts) + 1]), Append(acts, a))
<1> DEFINE f == [kind |-> kind, act |-> Len(acts) + 1]
           frames2 == Append(frames, f)
           acts2 == Append(acts, a)
<1>1. Len(acts) \in Nat /\ Len(frames) \in Nat
  BY LenProperties
<1>2. f \in Frame
  BY <1>1, CallstackAssumption DEF Frame
<1>3. /\ frames2 \in Seq(Frame) /\ Len(frames2) = Len(frames) + 1
      /\ \A i \in 1 .. Len(frames) : frames2[i] = frames[i]
      /\ frames2[Len(frames) + 1] = f
  BY <1>2, AppendProperties
<1>4. /\ Len(acts2) = Len(acts) + 1
      /\ \A i \in 1 .. Len(acts) : acts2[i] = acts[i]
      /\ acts2[Len(acts) + 1] = a
  BY AppendProperties
<1> HIDE DEF frames2, acts2
<1>types. /\ f.act = Len(acts) + 1 /\ f.kind = kind
      /\ \A i \in 1 .. Len(frames2) : i \in 1 .. Len(frames) \/ i = Len(frames) + 1
  BY <1>1, <1>3
<1>cover. \A d \in 1 .. Len(acts2) : d \in 1 .. Len(acts) \/ d = Len(acts) + 1
  BY <1>1, <1>4
<1> HIDE DEF f
<1>5. ASSUME NEW i \in 1 .. Len(frames2), frames2[i].act # 0
      PROVE  /\ frames2[i].act \in 1 .. Len(acts2)
             /\ OwnerIn(acts2, frames2[i].act)
             /\ frames2[i].kind = KindIn(acts2, frames2[i].act)
  <2>1. CASE i \in 1 .. Len(frames)
    <3>1. frames[i].act \in 1 .. Len(acts) /\ frames2[i] = frames[i]
      BY <1>3, <1>5, <2>1 DEF Linked
    <3>2. acts2[frames[i].act] = acts[frames[i].act]
      BY <1>4, <3>1
    <3> QED
      BY <1>1, <1>4, <1>5, <2>1, <3>1, <3>2 DEF Linked, OwnerIn, KindIn
  <2>2. CASE i = Len(frames) + 1
    BY <1>1, <1>3, <1>4, <1>types, <2>2 DEF OwnerIn, KindIn, TryBlock
  <2> QED
    BY <1>types, <2>1, <2>2
<1>6. ASSUME NEW i \in 1 .. Len(frames2), NEW j \in 1 .. Len(frames2),
             i < j, frames2[i].act # 0, frames2[j].act # 0
      PROVE  frames2[i].act < frames2[j].act
  <2>1. i \in 1 .. Len(frames) /\ frames2[i] = frames[i]
    BY <1>1, <1>3, <1>6
  <2>2. CASE j \in 1 .. Len(frames)
    BY <1>3, <1>6, <2>1, <2>2 DEF Linked
  <2>3. CASE j = Len(frames) + 1
    BY <1>1, <1>3, <1>6, <1>types, <2>1, <2>3 DEF Linked
  <2> QED
    BY <1>types, <2>2, <2>3
<1>7. ASSUME NEW d \in 1 .. Len(acts2), OwnerIn(acts2, d)
      PROVE  \E i \in 1 .. Len(frames2) : frames2[i].act = d
  <2>1. CASE d \in 1 .. Len(acts)
    <3>1. PICK i \in 1 .. Len(frames) : frames[i].act = d
      BY <1>4, <1>7, <2>1 DEF Linked, OwnerIn
    <3> QED
      BY <1>1, <1>3, <3>1
  <2>2. CASE d = Len(acts) + 1
    BY <1>1, <1>3, <1>types, <2>2
  <2> QED
    BY <1>cover, <2>1, <2>2
<1>8. Linked(frames2, acts2)
  BY <1>5, <1>6, <1>7 DEF Linked
<1> QED
  BY <1>3, <1>8 DEF frames2, acts2, f

(* An activation that pushes none: an eval, or fh_throw reporting. *)
LEMMA LinkEnter ==
  ASSUME NEW frames \in Seq(Frame), NEW acts \in Seq(Activation), Linked(frames, acts),
         NEW a \in Activation, a.kind \in {"eval", "report"}
  PROVE  Linked(frames, Append(acts, a))
<1> DEFINE acts2 == Append(acts, a)
<1>1. Len(acts) \in Nat /\ Len(frames) \in Nat
  BY LenProperties
<1>2. /\ Len(acts2) = Len(acts) + 1
      /\ \A i \in 1 .. Len(acts) : acts2[i] = acts[i]
      /\ acts2[Len(acts) + 1] = a
  BY AppendProperties
<1> HIDE DEF acts2
<1>3. \A d \in 1 .. Len(acts2) : OwnerIn(acts2, d) => d \in 1 .. Len(acts) /\ OwnerIn(acts, d)
  BY <1>1, <1>2 DEF OwnerIn
<1>4. \A d \in 1 .. Len(acts) :
        /\ d \in 1 .. Len(acts2)
        /\ OwnerIn(acts, d) => OwnerIn(acts2, d)
        /\ KindIn(acts2, d) = KindIn(acts, d)
  BY <1>1, <1>2 DEF OwnerIn, KindIn
<1>5. Linked(frames, acts2)
  BY <1>3, <1>4 DEF Linked
<1> QED
  BY <1>5 DEF acts2

(* A frame to throw from, which no activation outlives. *)
LEMMA LinkPlain ==
  ASSUME NEW frames \in Seq(Frame), NEW acts \in Seq(Activation), Linked(frames, acts)
  PROVE  /\ Append(frames, [kind |-> "plain", act |-> 0]) \in Seq(Frame)
         /\ Linked(Append(frames, [kind |-> "plain", act |-> 0]), acts)
<1> DEFINE f == [kind |-> "plain", act |-> 0]
           frames2 == Append(frames, f)
<1>1. Len(acts) \in Nat /\ Len(frames) \in Nat
  BY LenProperties
<1>2. f \in Frame
  BY CallstackAssumption DEF Frame
<1>3. /\ frames2 \in Seq(Frame) /\ Len(frames2) = Len(frames) + 1
      /\ \A i \in 1 .. Len(frames) : frames2[i] = frames[i]
      /\ frames2[Len(frames) + 1] = f
  BY <1>2, AppendProperties
<1> HIDE DEF frames2
<1>4. \A i \in 1 .. Len(frames2) : frames2[i].act # 0 =>
        i \in 1 .. Len(frames) /\ frames2[i] = frames[i]
  BY <1>1, <1>3
<1>5. \A d \in 1 .. Len(acts) : OwnerIn(acts, d) =>
        \E i \in 1 .. Len(frames2) : frames2[i].act = d
  <2> SUFFICES ASSUME NEW d \in 1 .. Len(acts), OwnerIn(acts, d)
               PROVE  \E i \in 1 .. Len(frames2) : frames2[i].act = d
    OBVIOUS
  <2>1. PICK i \in 1 .. Len(frames) : frames[i].act = d
    BY DEF Linked
  <2> QED
    BY <1>1, <1>3, <2>1
<1>6. Linked(frames2, acts)
  BY <1>4, <1>5 DEF Linked
<1> QED
  BY <1>3, <1>6 DEF frames2

(* A call returns, popping the head, which need not be its own frame.      *)
LEMMA LinkReturn ==
  ASSUME NEW frames \in Seq(Frame), NEW acts \in Seq(Activation), Linked(frames, acts),
         acts # <<>>, acts[Len(acts)].kind = "call"
  PROVE  /\ Len(frames) > 0
         /\ Linked(Orphaned(SubSeq(frames, 1, Len(frames) - 1), Len(acts)),
                   SubSeq(acts, 1, Len(acts) - 1))
<1> DEFINE n == Len(frames)
           d == Len(acts)
           rest == SubSeq(frames, 1, n - 1)
           frames2 == Orphaned(rest, d)
           acts2 == SubSeq(acts, 1, d - 1)
<1>1. n \in Nat /\ d \in Nat \ {0}
  BY LenProperties, EmptySeq
<1>2. PICK own \in 1 .. n : frames[own].act = d
  BY <1>1 DEF Linked, OwnerIn
<1>3. n > 0
  BY <1>1, <1>2
<1>4. rest \in Seq(Frame) /\ Len(rest) = n - 1 /\ \A i \in 1 .. n - 1 : rest[i] = frames[i]
  <2>1. n - 1 \in 0 .. Len(frames)
    BY <1>1, <1>3
  <2> HIDE DEF n
  <2> QED
    BY <2>1, Prefix
<1>5. /\ Len(frames2) = n - 1
      /\ \A i \in 1 .. n - 1 :
           /\ frames2[i].kind = frames[i].kind
           /\ frames2[i].act = IF frames[i].act >= d THEN 0 ELSE frames[i].act
  <2>1. rest \in Seq(Frame) /\ d \in Nat
    BY <1>1, <1>4
  <2> HIDE DEF n, d, rest
  <2>2. /\ Len(Orphaned(rest, d)) = Len(rest)
        /\ \A i \in 1 .. Len(rest) :
             /\ Orphaned(rest, d)[i].kind = rest[i].kind
             /\ Orphaned(rest, d)[i].act = IF rest[i].act >= d THEN 0 ELSE rest[i].act
    BY <2>1, OrphanedFrames
  <2> QED
    BY <1>4, <2>2
<1>6. Len(acts2) = d - 1 /\ \A i \in 1 .. d - 1 : acts2[i] = acts[i]
  <2>1. d - 1 \in 0 .. Len(acts)
    BY <1>1
  <2> HIDE DEF d
  <2> QED
    BY <2>1, Prefix
<1>types. \A i \in 1 .. n - 1 : i \in 1 .. Len(frames) /\ frames[i].act \in Nat
  BY <1>1, ActsAreNumbers
<1> HIDE DEF n, d, rest, frames2, acts2
<1>kept. \A i \in 1 .. n - 1 : frames2[i].act # 0 =>
        frames2[i].act = frames[i].act /\ frames[i].act < d
  BY <1>1, <1>5, <1>types
<1>7. ASSUME NEW i \in 1 .. Len(frames2), frames2[i].act # 0
      PROVE  /\ frames2[i].act \in 1 .. Len(acts2)
             /\ OwnerIn(acts2, frames2[i].act)
             /\ frames2[i].kind = KindIn(acts2, frames2[i].act)
  <2>1. /\ i \in 1 .. Len(frames) /\ i \in 1 .. n - 1
        /\ frames2[i].act = frames[i].act /\ frames[i].act < d
    BY <1>5, <1>7, <1>types, <1>kept
  <2>2. /\ frames[i].act \in 1 .. Len(acts) /\ OwnerIn(acts, frames[i].act)
        /\ frames[i].kind = KindIn(acts, frames[i].act)
    BY <1>7, <2>1 DEF Linked
  <2>3. frames[i].act \in 1 .. d - 1
    BY <1>1, <2>1, <2>2
  <2>4. acts2[frames[i].act] = acts[frames[i].act]
    BY <1>6, <2>3
  <2> QED
    BY <1>5, <1>6, <2>1, <2>2, <2>3, <2>4 DEF OwnerIn, KindIn
<1>8. \A i, j \in 1 .. Len(frames2) :
        i < j /\ frames2[i].act # 0 /\ frames2[j].act # 0 => frames2[i].act < frames2[j].act
  BY <1>5, <1>types, <1>kept DEF Linked
<1>9. ASSUME NEW e \in 1 .. Len(acts2), OwnerIn(acts2, e)
      PROVE  \E i \in 1 .. Len(frames2) : frames2[i].act = e
  <2>1. e \in 1 .. Len(acts) /\ e < d /\ OwnerIn(acts, e)
    BY <1>1, <1>6, <1>9 DEF OwnerIn, d
  <2>2. PICK i \in 1 .. Len(frames) : frames[i].act = e
    BY <2>1 DEF Linked
  <2>3. own \in 1 .. Len(frames) /\ ~ own < i /\ i # own
    BY SMTT(40), <1>1, <1>2, <2>1, <2>2 DEF Linked, n
  <2>4. i \in 1 .. n - 1
    BY <1>1, <1>2, <2>2, <2>3 DEF n
  <2>5. frames2[i].act = e
    BY <1>1, <1>5, <2>1, <2>2, <2>4
  <2> QED
    BY <1>5, <2>4, <2>5
<1>10. Linked(frames2, acts2)
  BY <1>7, <1>8, <1>9 DEF Linked
<1> QED
  BY <1>3, <1>10 DEF n, d, rest, frames2, acts2

(* An eval is left: no frame belongs to it. *)
LEMMA LinkLeaveEval ==
  ASSUME NEW frames \in Seq(Frame), NEW acts \in Seq(Activation), Linked(frames, acts),
         acts # <<>>, acts[Len(acts)].kind = "eval"
  PROVE  Linked(frames, SubSeq(acts, 1, Len(acts) - 1))
<1> DEFINE acts2 == SubSeq(acts, 1, Len(acts) - 1)
<1>1. Len(acts) \in Nat \ {0}
  BY LenProperties, EmptySeq
<1>2. Len(acts2) = Len(acts) - 1 /\ \A i \in 1 .. Len(acts) - 1 : acts2[i] = acts[i]
  <2>1. Len(acts) - 1 \in 0 .. Len(acts)
    BY <1>1
  <2> QED
    BY <2>1, Prefix
<1> HIDE DEF acts2
<1>3. \A d \in 1 .. Len(acts2) :
        /\ d \in 1 .. Len(acts)
        /\ OwnerIn(acts2, d) <=> OwnerIn(acts, d)
        /\ KindIn(acts2, d) = KindIn(acts, d)
  BY <1>1, <1>2 DEF OwnerIn, KindIn
<1>4. \A d \in 1 .. Len(acts) : OwnerIn(acts, d) => d \in 1 .. Len(acts2)
  BY <1>1, <1>2 DEF OwnerIn
<1>5. Linked(frames, acts2)
  BY <1>3, <1>4 DEF Linked
<1> QED
  BY <1>5 DEF acts2

(* A try statement is left, and its frame, if it is still there, orphaned. *)
LEMMA LinkLeaveTry ==
  ASSUME NEW frames \in Seq(Frame), NEW acts \in Seq(Activation), Linked(frames, acts),
         acts # <<>>
  PROVE  Linked(Orphaned(frames, Len(acts)), SubSeq(acts, 1, Len(acts) - 1))
<1> DEFINE d == Len(acts)
           frames2 == Orphaned(frames, d)
           acts2 == SubSeq(acts, 1, d - 1)
<1>1. d \in Nat \ {0} /\ Len(frames) \in Nat
  BY LenProperties, EmptySeq
<1>2. Len(acts2) = d - 1 /\ \A i \in 1 .. d - 1 : acts2[i] = acts[i]
  <2>1. d - 1 \in 0 .. Len(acts)
    BY <1>1
  <2> HIDE DEF d
  <2> QED
    BY <2>1, Prefix
<1>3. /\ Len(frames2) = Len(frames)
      /\ \A i \in 1 .. Len(frames) :
           /\ frames2[i].kind = frames[i].kind
           /\ frames2[i].act = IF frames[i].act >= d THEN 0 ELSE frames[i].act
  <2>1. d \in Nat
    BY <1>1
  <2> HIDE DEF d
  <2> QED
    BY <2>1, OrphanedFrames
<1>types. \A i \in 1 .. Len(frames) : frames[i].act \in Nat
  BY ActsAreNumbers
<1> HIDE DEF d, frames2, acts2
<1>kept. \A i \in 1 .. Len(frames) : frames2[i].act # 0 =>
           frames2[i].act = frames[i].act /\ frames[i].act < d
  BY <1>1, <1>3, <1>types
<1>4. \A e \in 1 .. Len(acts2) :
        /\ e \in 1 .. Len(acts) /\ e < d
        /\ OwnerIn(acts2, e) <=> OwnerIn(acts, e)
        /\ KindIn(acts2, e) = KindIn(acts, e)
  BY <1>1, <1>2 DEF OwnerIn, KindIn, d
<1>5. ASSUME NEW i \in 1 .. Len(frames2), frames2[i].act # 0
      PROVE  /\ frames2[i].act \in 1 .. Len(acts2)
             /\ OwnerIn(acts2, frames2[i].act)
             /\ frames2[i].kind = KindIn(acts2, frames2[i].act)
  <2>1. i \in 1 .. Len(frames) /\ frames2[i].act = frames[i].act /\ frames[i].act < d
    BY <1>3, <1>5, <1>kept
  <2>2. /\ frames[i].act \in 1 .. Len(acts) /\ OwnerIn(acts, frames[i].act)
        /\ frames[i].kind = KindIn(acts, frames[i].act)
    BY <1>5, <2>1 DEF Linked
  <2>3. frames[i].act \in 1 .. Len(acts2)
    BY <1>1, <1>2, <2>1, <2>2
  <2> QED
    BY <1>3, <1>4, <2>1, <2>2, <2>3
<1>6. \A i, j \in 1 .. Len(frames2) :
        i < j /\ frames2[i].act # 0 /\ frames2[j].act # 0 => frames2[i].act < frames2[j].act
  BY <1>3, <1>kept DEF Linked
<1>7. ASSUME NEW e \in 1 .. Len(acts2), OwnerIn(acts2, e)
      PROVE  \E i \in 1 .. Len(frames2) : frames2[i].act = e
  <2>1. PICK i \in 1 .. Len(frames) : frames[i].act = e
    BY <1>4, <1>7 DEF Linked
  <2>2. frames2[i].act = e
    BY <1>1, <1>3, <1>4, <2>1
  <2> QED
    BY <1>3, <2>2
<1>8. Linked(frames2, acts2)
  BY <1>5, <1>6, <1>7 DEF Linked
<1> QED
  BY <1>8 DEF d, frames2, acts2

(* A finally block begins: the frame stays if no throw has popped it.      *)
LEMMA LinkFinally ==
  ASSUME NEW frames \in Seq(Frame), NEW acts \in Seq(Activation), Linked(frames, acts),
         NEW d \in 1 .. Len(acts), NEW b \in Activation, b.kind = "finally",
         \/ acts[d].kind = "body" /\ b.catches = 0
         \/ acts[d].kind = "catch" /\ b.catches # 0
  PROVE  Linked(frames, [acts EXCEPT ![d] = b])
<1> DEFINE acts2 == [acts EXCEPT ![d] = b]
<1>1. /\ Len(acts2) = Len(acts)
      /\ \A e \in 1 .. Len(acts) : acts2[e] = IF e = d THEN b ELSE acts[e]
  BY ExceptSeq
<1> HIDE DEF acts2
<1>2. \A e \in 1 .. Len(acts) :
        /\ OwnerIn(acts2, e) <=> OwnerIn(acts, e)
        /\ KindIn(acts2, e) = KindIn(acts, e)
  BY <1>1 DEF OwnerIn, KindIn, TryBlock
<1>3. Linked(frames, acts2)
  BY <1>1, <1>2 DEF Linked
<1> QED
  BY <1>3 DEF acts2

(* A throw has found the frame j of an activation that is still there.     *)
LEMMA LinkJump ==
  ASSUME NEW frames \in Seq(Frame), NEW acts \in Seq(Activation), Linked(frames, acts),
         NEW j \in 1 .. Len(frames), NEW b \in Activation, b.kind = "catch",
         frames[j].act # 0
  PROVE  Linked(SubSeq(frames, 1, j - 1), [SubSeq(acts, 1, frames[j].act) EXCEPT ![frames[j].act] = b])
<1> DEFINE d == frames[j].act
           frames2 == SubSeq(frames, 1, j - 1)
           cut == SubSeq(acts, 1, d)
           acts2 == [cut EXCEPT ![d] = b]
<1>1. d \in 1 .. Len(acts) /\ Len(acts) \in Nat /\ Len(frames) \in Nat
  BY LenProperties DEF Linked
<1>2. Len(frames2) = j - 1 /\ \A i \in 1 .. j - 1 : frames2[i] = frames[i]
  <2>1. j - 1 \in 0 .. Len(frames)
    BY <1>1
  <2> QED
    BY <2>1, Prefix
<1>3. cut \in Seq(Activation) /\ Len(cut) = d /\ \A e \in 1 .. d : cut[e] = acts[e]
  <2>1. d \in 0 .. Len(acts)
    BY <1>1
  <2> HIDE DEF d
  <2> QED
    BY <2>1, Prefix
<1>4. Len(acts2) = d /\ \A e \in 1 .. d : acts2[e] = IF e = d THEN b ELSE acts[e]
  <2>1. d \in 1 .. Len(cut)
    BY <1>1, <1>3
  <2> HIDE DEF d, cut
  <2> QED
    BY <1>3, <2>1, ExceptSeq
<1>types. \A i \in 1 .. Len(frames) : frames[i].act \in Nat
  BY ActsAreNumbers
<1> HIDE DEF d, frames2, cut, acts2
<1>5. \A e \in 1 .. d :
        /\ OwnerIn(acts2, e) <=> e # d /\ OwnerIn(acts, e)
        /\ e # d => KindIn(acts2, e) = KindIn(acts, e)
  BY <1>4 DEF OwnerIn, KindIn
<1>6. ASSUME NEW i \in 1 .. Len(frames2), frames2[i].act # 0
      PROVE  /\ frames2[i].act \in 1 .. Len(acts2)
             /\ OwnerIn(acts2, frames2[i].act)
             /\ frames2[i].kind = KindIn(acts2, frames2[i].act)
  <2>1. i \in 1 .. Len(frames) /\ i < j /\ frames2[i] = frames[i]
    BY <1>1, <1>2
  <2>2. frames[i].act < d
    BY <1>6, <2>1 DEF Linked, d
  <2>3. /\ frames[i].act \in 1 .. Len(acts) /\ OwnerIn(acts, frames[i].act)
        /\ frames[i].kind = KindIn(acts, frames[i].act)
    BY <1>6, <2>1 DEF Linked
  <2>4. frames[i].act \in 1 .. d /\ frames[i].act # d
    BY <1>1, <2>2, <2>3
  <2> QED
    BY <1>4, <1>5, <2>1, <2>3, <2>4
<1>7. \A i, k \in 1 .. Len(frames2) :
        i < k /\ frames2[i].act # 0 /\ frames2[k].act # 0 => frames2[i].act < frames2[k].act
  BY SMTT(40), <1>1, <1>2 DEF Linked
<1>8. ASSUME NEW e \in 1 .. Len(acts2), OwnerIn(acts2, e)
      PROVE  \E i \in 1 .. Len(frames2) : frames2[i].act = e
  <2>1. e \in 1 .. Len(acts) /\ e < d /\ OwnerIn(acts, e)
    BY <1>1, <1>4, <1>5, <1>8
  <2>2. PICK i \in 1 .. Len(frames) : frames[i].act = e
    BY <2>1 DEF Linked
  <2>3. ~ j < i /\ i # j
    BY SMTT(40), <1>1, <2>1, <2>2 DEF Linked, d
  <2>4. i \in 1 .. j - 1
    BY <1>1, <2>3
  <2> QED
    BY <1>2, <2>2, <2>4
<1>9. Linked(frames2, acts2)
  BY <1>6, <1>7, <1>8 DEF Linked
<1> QED
  BY <1>9 DEF d, frames2, cut, acts2

-----------------------------------------------------------------------------
(* The C stack by itself.                                                  *)

(* How often the blocks of a try statement have been entered. *)
Counted(a) ==
  /\ a.kind = "body" => a.catches = 0 /\ a.finals = 0
  /\ a.kind = "catch" => a.catches = 1 /\ a.finals <= 1
  /\ a.kind = "finally" => a.catches <= 1 /\ a.finals <= a.catches + 1
  /\ a.kind \notin TryBlock => a.catches = 0

Counts(acts) == \A d \in 1 .. Len(acts) : Counted(acts[d])

Reports(acts) ==
  \A d \in 1 .. Len(acts) : acts[d].kind = "report" /\ acts[d].attached =>
    \A e \in 1 .. d : acts[e].kind # "body"

NoEval(acts) == \A d \in 1 .. Len(acts) : acts[d].kind # "eval"

(* The outermost eval has saved what main set, the ones inside it FALSE.   *)
Saves(acts) ==
  \A d \in 1 .. Len(acts) : acts[d].kind = "eval" =>
    (acts[d].saved <=> Repl /\ \A e \in 1 .. d - 1 : acts[e].kind # "eval")

(* Entering an activation keeps the facts about the C stack. *)
LEMMA EnterActs ==
  ASSUME NEW acts \in Seq(Activation), NEW a \in Activation,
         Counts(acts), Counted(a), Reports(acts),
         a.kind = "report" /\ a.attached => \A d \in 1 .. Len(acts) : acts[d].kind # "body"
  PROVE  /\ Append(acts, a) \in Seq(Activation)
         /\ Counts(Append(acts, a))
         /\ Reports(Append(acts, a))
         /\ NoEval(Append(acts, a)) <=> NoEval(acts) /\ a.kind # "eval"
         /\ Saves(acts) /\ (a.kind = "eval" => (a.saved <=> Repl /\ NoEval(acts)))
              => Saves(Append(acts, a))
<1> DEFINE acts2 == Append(acts, a)
           n == Len(acts)
<1>1. n \in Nat
  BY LenProperties
<1>2. /\ acts2 \in Seq(Activation)
      /\ Len(acts2) = n + 1
      /\ \A i \in 1 .. n : acts2[i] = acts[i]
      /\ acts2[n + 1] = a
  BY AppendProperties
<1> HIDE DEF acts2
<1>3. \A d \in 1 .. Len(acts2) : d \in 1 .. n \/ d = n + 1
  BY <1>1, <1>2
<1>4. Counts(acts2)
  BY <1>2, <1>3 DEF Counts
<1>5. ASSUME NEW d \in 1 .. Len(acts2), acts2[d].kind = "report", acts2[d].attached,
             NEW e \in 1 .. d
      PROVE  acts2[e].kind # "body"
  <2>1. CASE d \in 1 .. n
    <3>1. e \in 1 .. n /\ acts2[d] = acts[d] /\ acts2[e] = acts[e]
      BY <1>1, <1>2, <2>1
    <3> QED
      BY <1>5, <2>1, <3>1 DEF Reports
  <2>2. CASE d = n + 1
    <3>1. acts2[d] = a /\ (e \in 1 .. n \/ e = n + 1)
      BY <1>1, <1>2, <2>2
    <3>2. CASE e = n + 1
      BY <1>2, <1>5, <2>2, <3>2
    <3>3. CASE e \in 1 .. n
      BY <1>2, <1>5, <3>1, <3>3
    <3> QED
      BY <3>1, <3>2, <3>3
  <2> QED
    BY <1>3, <2>1, <2>2
<1>6. Reports(acts2)
  BY <1>5 DEF Reports
<1>7. NoEval(acts2) <=> NoEval(acts) /\ a.kind # "eval"
  BY <1>1, <1>2, <1>3 DEF NoEval
<1>8. ASSUME Saves(acts), a.kind = "eval" => (a.saved <=> Repl /\ NoEval(acts))
      PROVE  Saves(acts2)
  <2> SUFFICES ASSUME NEW d \in 1 .. Len(acts2), acts2[d].kind = "eval"
               PROVE  acts2[d].saved <=> Repl /\ \A e \in 1 .. d - 1 : acts2[e].kind # "eval"
    BY DEF Saves
  <2>1. CASE d \in 1 .. n
    <3>1. acts2[d] = acts[d] /\ \A e \in 1 .. d - 1 : acts2[e] = acts[e]
      BY <1>1, <1>2, <2>1
    <3> QED
      BY <1>8, <2>1, <3>1 DEF Saves
  <2>2. CASE d = n + 1
    <3>1. acts2[d] = a /\ d - 1 = n /\ \A e \in 1 .. n : acts2[e] = acts[e]
      BY <1>1, <1>2, <2>2
    <3> QED
      BY <1>8, <3>1 DEF NoEval
  <2> QED
    BY <1>3, <2>1, <2>2
<1> QED
  BY <1>2, <1>4, <1>6, <1>7, <1>8 DEF acts2

(* Leaving activations keeps them. *)
LEMMA PrefixActs ==
  ASSUME NEW acts \in Seq(Activation), NEW n \in 0 .. Len(acts), Counts(acts), Reports(acts)
  PROVE  /\ SubSeq(acts, 1, n) \in Seq(Activation)
         /\ Counts(SubSeq(acts, 1, n))
         /\ Reports(SubSeq(acts, 1, n))
         /\ NoEval(SubSeq(acts, 1, n)) <=> \A d \in 1 .. n : acts[d].kind # "eval"
         /\ Saves(acts) => Saves(SubSeq(acts, 1, n))
<1> DEFINE acts2 == SubSeq(acts, 1, n)
<1>1. Len(acts) \in Nat
  BY LenProperties
<1>2. acts2 \in Seq(Activation) /\ Len(acts2) = n /\ \A i \in 1 .. n : acts2[i] = acts[i]
  BY Prefix
<1> HIDE DEF acts2
<1>3. \A d \in 1 .. n : d \in 1 .. Len(acts) /\ 1 .. d \subseteq 1 .. n /\ 1 .. d - 1 \subseteq 1 .. n
  BY <1>1
<1>4. Counts(acts2)
  BY <1>2, <1>3 DEF Counts
<1>5. Reports(acts2)
  BY <1>2, <1>3 DEF Reports
<1>6. NoEval(acts2) <=> \A d \in 1 .. n : acts[d].kind # "eval"
  BY <1>2 DEF NoEval
<1>7. Saves(acts) => Saves(acts2)
  BY <1>2, <1>3 DEF Saves
<1> QED
  BY <1>2, <1>4, <1>5, <1>6, <1>7 DEF acts2

(* So does a try statement that moves to its catch or finally block. *)
LEMMA ReplaceActs ==
  ASSUME NEW acts \in Seq(Activation), NEW d \in 1 .. Len(acts), NEW b \in Activation,
         Counts(acts), Reports(acts),
         acts[d].kind \in TryBlock, b.kind \in {"catch", "finally"}, Counted(b)
  PROVE  /\ [acts EXCEPT ![d] = b] \in Seq(Activation)
         /\ Counts([acts EXCEPT ![d] = b])
         /\ Reports([acts EXCEPT ![d] = b])
         /\ NoEval([acts EXCEPT ![d] = b]) <=> NoEval(acts)
         /\ Saves(acts) => Saves([acts EXCEPT ![d] = b])
<1> DEFINE acts2 == [acts EXCEPT ![d] = b]
<1>1. Len(acts) \in Nat
  BY LenProperties
<1>2. /\ acts2 \in Seq(Activation) /\ Len(acts2) = Len(acts)
      /\ \A e \in 1 .. Len(acts) : acts2[e] = IF e = d THEN b ELSE acts[e]
  BY ExceptSeq
<1> HIDE DEF acts2
<1>3. /\ b.kind # "body" /\ b.kind # "report" /\ b.kind # "eval"
      /\ acts[d].kind # "report" /\ acts[d].kind # "eval"
  BY DEF TryBlock
<1>4. \A e \in 1 .. Len(acts) :
        e \in 1 .. Len(acts) /\ 1 .. e \subseteq 1 .. Len(acts) /\ 1 .. e - 1 \subseteq 1 .. Len(acts)
  BY <1>1
<1>5. Counts(acts2)
  BY <1>2 DEF Counts
<1>6. Reports(acts2)
  BY <1>2, <1>3, <1>4 DEF Reports
<1>7. \A e \in 1 .. Len(acts) : acts2[e].kind = "eval" <=> acts[e].kind = "eval"
  BY <1>2, <1>3
<1>8. NoEval(acts2) <=> NoEval(acts)
  BY <1>2, <1>7 DEF NoEval
<1>9. ASSUME Saves(acts) PROVE Saves(acts2)
  <2>1. \A e \in 1 .. Len(acts) : acts2[e].kind = "eval" => acts2[e].saved = acts[e].saved
    BY <1>2, <1>3
  <2> QED
    BY <1>2, <1>4, <1>7, <1>9, <2>1 DEF Saves
<1> QED
  BY <1>2, <1>5, <1>6, <1>8, <1>9 DEF acts2

-----------------------------------------------------------------------------
(* The inductive invariant.                                                *)

(* The part that speaks of the C stack alone. *)
StackInv ==
  /\ Counts(cstack)
  /\ Reports(cstack)
  /\ ~ crossed => Saves(cstack) /\ (interactive <=> Repl /\ NoEval(cstack))

IInv ==
  /\ TypeOK
  /\ StackInv
  /\ status = "running" => Linked(callstack, cstack)

(* What every activation starts from. *)
LEMMA BlankIsActivation ==
  /\ Blank \in Activation
  /\ Blank.kind = "call" /\ Blank.catches = 0 /\ Blank.finals = 0
<1>1. Blank \in Activation
  BY DEF Blank, Activation, Kind
<1> QED
  BY <1>1 DEF Blank

(* What the actions make of Blank. *)
LEMMA EnteredActivations ==
  ASSUME NEW a \in Activation, a.catches = 0, a.finals = 0,
         NEW x \in BOOLEAN
  PROVE  /\ LET b == [a EXCEPT !.kind = "throw"]
            IN  b \in Activation /\ b.kind = "throw" /\ b.catches = 0 /\ b.finals = 0
         /\ LET b == [a EXCEPT !.kind = "eval", !.saved = x]
            IN  b \in Activation /\ b.kind = "eval" /\ b.catches = 0 /\ b.saved = x
         /\ LET b == [a EXCEPT !.kind = "report", !.attached = x]
            IN  b \in Activation /\ b.kind = "report" /\ b.catches = 0 /\ b.attached = x
<1>2. LET b == [a EXCEPT !.kind = "throw"]
      IN  b \in Activation /\ b.kind = "throw" /\ b.catches = 0 /\ b.finals = 0
  BY DEF Activation, Kind
<1>3. LET b == [a EXCEPT !.kind = "eval", !.saved = x]
      IN  b \in Activation /\ b.kind = "eval" /\ b.catches = 0 /\ b.saved = x
  BY DEF Activation, Kind
<1>4. LET b == [a EXCEPT !.kind = "report", !.attached = x]
      IN  b \in Activation /\ b.kind = "report" /\ b.catches = 0 /\ b.attached = x
  BY DEF Activation, Kind
<1> QED
  BY <1>2, <1>3, <1>4

(* What EnterTry makes of it. *)
LEMMA TriedActivation ==
  ASSUME NEW a \in Activation, a.catches = 0, a.finals = 0,
         NEW handler \in BOOLEAN, NEW final \in BOOLEAN
  PROVE  LET b == [a EXCEPT !.kind = "body", !.handler = handler, !.final = final]
         IN  b \in Activation /\ b.kind = "body" /\ b.catches = 0 /\ b.finals = 0
  BY DEF Activation, Kind, TryBlock

(* What BeginFinally makes of the activation of a try statement. *)
LEMMA FinallyActivation ==
  ASSUME NEW a \in Activation, a.kind \in {"body", "catch"}, Counted(a)
  PROVE  LET b == [a EXCEPT !.kind = "finally", !.finals = @ + 1]
         IN  /\ b \in Activation /\ b.kind = "finally" /\ Counted(b)
             /\ b.catches = a.catches
<1> DEFINE b == [a EXCEPT !.kind = "finally", !.finals = @ + 1]
<1>1. a.finals + 1 \in 0 .. 2 /\ a.catches \in 0 .. 2 /\ a.finals <= a.catches
  <2>1. a.finals \in 0 .. 2 /\ a.catches \in 0 .. 2
    BY DEF Activation
  <2> QED
    BY <2>1 DEF Counted
<1>2. "finally" \in Kind
  BY DEF Kind, TryBlock
<1>3. b \in Activation
  BY <1>1, <1>2 DEF Activation
<1>4. b.kind = "finally" /\ b.finals = a.finals + 1 /\ b.catches = a.catches
  BY DEF Activation
<1>5. a.catches <= 1
  BY <1>1 DEF Counted
<1> HIDE DEF b
<1>6. Counted(b)
  BY <1>1, <1>4, <1>5 DEF Counted, TryBlock
<1> QED
  BY <1>3, <1>4, <1>6 DEF b

(* What a throw makes of it. *)
LEMMA CatchActivation ==
  ASSUME NEW a \in Activation, Counted(a), a.kind \in TryBlock, a.catches = 0
  PROVE  LET b == [a EXCEPT !.kind = "catch", !.catches = @ + 1]
         IN  b \in Activation /\ b.kind = "catch" /\ Counted(b)
<1> DEFINE b == [a EXCEPT !.kind = "catch", !.catches = @ + 1]
<1>1. a.finals \in 0 .. 2 /\ a.finals <= 1
  <2>1. a.finals \in 0 .. 2
    BY DEF Activation
  <2> QED
    BY <2>1 DEF Counted, TryBlock
<1>2. "catch" \in Kind /\ a.catches + 1 = 1 /\ a.catches + 1 \in 0 .. 2
  BY DEF Kind, TryBlock
<1>3. b \in Activation
  BY <1>2 DEF Activation
<1>4. b.kind = "catch" /\ b.catches = 1 /\ b.finals = a.finals
  BY <1>2 DEF Activation
<1> HIDE DEF b
<1>5. Counted(b)
  BY <1>1, <1>4 DEF Counted, TryBlock
<1> QED
  BY <1>3, <1>4, <1>5 DEF b

(* The invariant holds before the script is run. *)
LEMMA InitIInv == Init => IInv
<1> SUFFICES ASSUME Init PROVE IInv
  OBVIOUS
<1>1. callstack \in Seq(Frame) /\ Len(callstack) = 0 /\ cstack \in Seq(Activation) /\ Len(cstack) = 0
  BY EmptySeq DEF Init
<1>2. TypeOK
  BY <1>1, CallstackAssumption DEF Init, TypeOK
<1>3. 1 .. Len(cstack) = {} /\ 1 .. Len(callstack) = {}
  BY <1>1
<1>4. StackInv
  BY <1>3 DEF Init, StackInv, Counts, Reports, Saves, NoEval
<1>5. Linked(callstack, cstack)
  BY <1>3 DEF Linked
<1> QED
  BY <1>2, <1>4, <1>5 DEF IInv

(* An activation that pushes its frame. *)
LEMMA EnterWithFrame ==
  ASSUME IInv, status = "running", Room,
         NEW a \in Activation, a.kind \in {"call", "throw", "body"},
         a.catches = 0, a.finals = 0,
         callstack' = Pushed(IF a.kind = "body" THEN "catch" ELSE "plain", Depth + 1),
         cstack' = Append(cstack, a),
         UNCHANGED <<interactive, status, crossed>>
  PROVE  IInv'
<1>1. callstack \in Seq(Frame) /\ cstack \in Seq(Activation) /\ Linked(callstack, cstack)
  BY DEF IInv, TypeOK
<1>2. Counted(a) /\ a.kind # "report" /\ a.kind # "eval"
  BY DEF Counted, TryBlock
<1>3. callstack' \in Seq(Frame) /\ Linked(callstack', cstack')
  BY <1>1, LinkPush DEF Room, Pushed, Depth
<1>4. cstack' \in Seq(Activation) /\ StackInv'
  BY <1>1, <1>2, EnterActs DEF IInv, StackInv
<1> QED
  BY <1>3, <1>4 DEF IInv, TypeOK

(* An eval or a report, and possibly a frame that it was thrown from. *)
LEMMA EnterWithoutFrame ==
  ASSUME IInv, status = "running", UNCHANGED status,
         NEW a \in Activation, a.kind \in {"eval", "report"}, a.catches = 0,
         a.kind = "report" /\ a.attached => \A d \in 1 .. Depth : cstack[d].kind # "body",
         callstack' = callstack \/ callstack' = Pushed("plain", 0),
         cstack' = Append(cstack, a),
         crossed' = crossed,
         interactive' = IF a.kind = "eval" THEN FALSE ELSE interactive,
         a.kind = "eval" => a.saved = interactive
  PROVE  IInv'
<1>1. callstack \in Seq(Frame) /\ cstack \in Seq(Activation) /\ Linked(callstack, cstack)
  BY DEF IInv, TypeOK
<1>2. Counted(a)
  BY DEF Counted, TryBlock
<1>3. callstack' \in Seq(Frame) /\ Linked(callstack', cstack)
  BY <1>1, LinkPlain DEF Pushed
<1>4. Linked(callstack', cstack')
  BY <1>1, <1>3, LinkEnter
<1>5. /\ cstack' \in Seq(Activation)
      /\ Counts(cstack') /\ Reports(cstack')
      /\ NoEval(cstack') <=> NoEval(cstack) /\ a.kind # "eval"
      /\ Saves(cstack) /\ (a.kind = "eval" => (a.saved <=> Repl /\ NoEval(cstack)))
           => Saves(cstack')
  BY <1>1, <1>2, EnterActs DEF IInv, StackInv, Depth
<1>6. interactive \in BOOLEAN /\ interactive' \in BOOLEAN
  BY DEF IInv, TypeOK
<1>7. StackInv'
  <2>1. CASE a.kind = "eval"
    BY <1>5, <2>1 DEF IInv, StackInv
  <2>2. CASE a.kind # "eval"
    BY <1>5, <2>2 DEF IInv, StackInv
  <2> QED
    BY <2>1, <2>2
<1> QED
  BY <1>3, <1>4, <1>5, <1>6, <1>7 DEF IInv, TypeOK

(* A call returns, with whatever frame is the head. *)
LEMMA ReturnInv == IInv /\ Return => IInv'
<1> SUFFICES ASSUME IInv, Return PROVE IInv'
  OBVIOUS
<1>1. callstack \in Seq(Frame) /\ cstack \in Seq(Activation) /\ Linked(callstack, cstack)
  BY DEF IInv, TypeOK, Return
<1>2. cstack # <<>> /\ cstack[Len(cstack)].kind = "call" /\ Len(cstack) \in Nat \ {0}
  BY <1>1, LenProperties, EmptySeq DEF Return, Top, Depth
<1>3. Len(callstack) > 0 /\ Len(callstack) \in Nat
  BY <1>1, <1>2, LinkReturn, LenProperties
<1>4. Popped = SubSeq(callstack, 1, Len(callstack) - 1)
  BY <1>1, <1>3, EmptySeq DEF Popped
<1>5. Linked(callstack', cstack')
  BY <1>1, <1>2, <1>4, LinkReturn DEF Return, Depth
<1>6. callstack' \in Seq(Frame)
  <2>1. Len(callstack) - 1 \in 0 .. Len(callstack)
    BY <1>3
  <2>2. Popped \in Seq(Frame)
    BY <1>1, <1>4, <2>1, Prefix
  <2> QED
    BY <1>2, <2>2, OrphanedFrames DEF Return, Depth
<1>7. /\ cstack' \in Seq(Activation) /\ Counts(cstack') /\ Reports(cstack')
      /\ NoEval(cstack') <=> \A d \in 1 .. Len(cstack) - 1 : cstack[d].kind # "eval"
      /\ Saves(cstack) => Saves(cstack')
  <2>1. Len(cstack) - 1 \in 0 .. Len(cstack)
    BY <1>2
  <2> QED
    BY <1>1, <2>1, PrefixActs DEF IInv, StackInv, Return, Depth
<1>8. NoEval(cstack') <=> NoEval(cstack)
  <2>1. \A d \in 1 .. Len(cstack) : d \in 1 .. Len(cstack) - 1 \/ d = Len(cstack)
    BY <1>2
  <2>2. 1 .. Len(cstack) - 1 \subseteq 1 .. Len(cstack)
    BY <1>2
  <2> QED
    BY <1>2, <1>7, <2>1, <2>2 DEF NoEval
<1> QED
  BY <1>5, <1>6, <1>7, <1>8 DEF IInv, TypeOK, StackInv, Return

(* An eval is left normally and puts the setting back. *)
LEMMA LeaveEvalInv == IInv /\ LeaveEval => IInv'
<1> SUFFICES ASSUME IInv, LeaveEval PROVE IInv'
  OBVIOUS
<1>1. callstack \in Seq(Frame) /\ cstack \in Seq(Activation) /\ Linked(callstack, cstack)
  BY DEF IInv, TypeOK, LeaveEval
<1>2. cstack # <<>> /\ cstack[Len(cstack)].kind = "eval" /\ Len(cstack) \in Nat \ {0}
  BY <1>1, LenProperties, EmptySeq DEF LeaveEval, Top, Depth
<1>3. Linked(callstack', cstack')
  BY <1>1, <1>2, LinkLeaveEval DEF LeaveEval, Depth
<1>4. /\ cstack' \in Seq(Activation) /\ Counts(cstack') /\ Reports(cstack')
      /\ NoEval(cstack') <=> \A d \in 1 .. Len(cstack) - 1 : cstack[d].kind # "eval"
      /\ Saves(cstack) => Saves(cstack')
  <2>1. Len(cstack) - 1 \in 0 .. Len(cstack)
    BY <1>2
  <2> QED
    BY <1>1, <2>1, PrefixActs DEF IInv, StackInv, LeaveEval, Depth
<1>5. Len(cstack) \in 1 .. Len(cstack) /\ cstack[Len(cstack)] \in Activation
  BY <1>1, <1>2, ElementOfSeq
<1>6. interactive' = cstack[Len(cstack)].saved /\ interactive' \in BOOLEAN
  BY <1>5 DEF LeaveEval, Top, Depth, Activation
<1>7. ~ crossed => (interactive' <=> Repl /\ NoEval(cstack'))
  BY <1>2, <1>4, <1>5, <1>6 DEF IInv, StackInv, Saves
<1> QED
  BY <1>1, <1>3, <1>4, <1>6, <1>7 DEF IInv, TypeOK, StackInv, LeaveEval

(* A try statement is through and leaves its frame behind. *)
LEMMA LeaveTryInv == IInv /\ LeaveTry => IInv'
<1> SUFFICES ASSUME IInv, LeaveTry PROVE IInv'
  OBVIOUS
<1>1. callstack \in Seq(Frame) /\ cstack \in Seq(Activation) /\ Linked(callstack, cstack)
  BY DEF IInv, TypeOK, LeaveTry
<1>2. cstack # <<>> /\ cstack[Len(cstack)].kind # "eval" /\ Len(cstack) \in Nat \ {0}
  BY <1>1, LenProperties, EmptySeq DEF LeaveTry, Top, Depth
<1>3. Linked(callstack', cstack')
  BY <1>1, <1>2, LinkLeaveTry DEF LeaveTry, Depth
<1>4. callstack' \in Seq(Frame)
  BY <1>1, <1>2, OrphanedFrames DEF LeaveTry, Depth
<1>5. /\ cstack' \in Seq(Activation) /\ Counts(cstack') /\ Reports(cstack')
      /\ NoEval(cstack') <=> \A d \in 1 .. Len(cstack) - 1 : cstack[d].kind # "eval"
      /\ Saves(cstack) => Saves(cstack')
  <2>1. Len(cstack) - 1 \in 0 .. Len(cstack)
    BY <1>2
  <2> QED
    BY <1>1, <2>1, PrefixActs DEF IInv, StackInv, LeaveTry, Depth
<1>6. NoEval(cstack') <=> NoEval(cstack)
  <2>1. \A d \in 1 .. Len(cstack) : d \in 1 .. Len(cstack) - 1 \/ d = Len(cstack)
    BY <1>2
  <2>2. 1 .. Len(cstack) - 1 \subseteq 1 .. Len(cstack)
    BY <1>2
  <2> QED
    BY <1>2, <1>5, <2>1, <2>2 DEF NoEval
<1> QED
  BY <1>3, <1>4, <1>5, <1>6 DEF IInv, TypeOK, StackInv, LeaveTry

(* A try statement goes on to its finally block. *)
LEMMA BeginFinallyInv == IInv /\ BeginFinally => IInv'
<1> SUFFICES ASSUME IInv, BeginFinally PROVE IInv'
  OBVIOUS
<1> DEFINE b == [cstack[Depth] EXCEPT !.kind = "finally", !.finals = @ + 1]
<1>1. callstack \in Seq(Frame) /\ cstack \in Seq(Activation) /\ Linked(callstack, cstack)
  BY DEF IInv, TypeOK, BeginFinally
<1>2. cstack # <<>> /\ Depth \in 1 .. Len(cstack)
  BY <1>1, LenProperties, EmptySeq DEF BeginFinally, Depth
<1>3. cstack[Depth] \in Activation /\ cstack[Depth].kind \in {"body", "catch"} /\ Counted(cstack[Depth])
  BY <1>1, <1>2, ElementOfSeq DEF IInv, StackInv, Counts, BeginFinally, Top
<1>4. /\ b \in Activation /\ b.kind = "finally" /\ Counted(b)
      /\ b.catches = cstack[Depth].catches
  BY <1>3, FinallyActivation
<1>5. cstack' = [cstack EXCEPT ![Depth] = b]
  BY <1>1, <1>2, <1>3 DEF BeginFinally, Activation
<1>6. Linked(callstack', cstack')
  <2>1. \/ cstack[Depth].kind = "body" /\ b.catches = 0
        \/ cstack[Depth].kind = "catch" /\ b.catches # 0
    BY <1>3, <1>4 DEF Counted
  <2>2. callstack' = callstack
    BY DEF BeginFinally
  <2> HIDE DEF b
  <2> QED
    BY <1>1, <1>2, <1>4, <1>5, <2>1, <2>2, LinkFinally
<1>7. /\ cstack' \in Seq(Activation) /\ Counts(cstack') /\ Reports(cstack')
      /\ NoEval(cstack') <=> NoEval(cstack)
      /\ Saves(cstack) => Saves(cstack')
  <2>1. cstack[Depth].kind \in TryBlock /\ b.kind \in {"catch", "finally"}
    BY <1>3, <1>4 DEF TryBlock
  <2> HIDE DEF b
  <2> QED
    BY <1>1, <1>2, <1>4, <1>5, <2>1, ReplaceActs DEF IInv, StackInv
<1> QED
  BY <1>1, <1>6, <1>7 DEF IInv, TypeOK, StackInv, BeginFinally

(* fh_throw finds no handler.  Seen from a frame above all open bodies, no *)
(* body is open.                                                           *)
LEMMA NoHandlerNoBody ==
  ASSUME NEW frames \in Seq(Frame), NEW acts \in Seq(Activation), Linked(frames, acts),
         NEW i \in 1 .. Len(frames), Handlers(frames, i) = {},
         i = Len(frames) \/ (frames[i].act = Len(acts) /\ acts[Len(acts)].kind # "body")
  PROVE  \A d \in 1 .. Len(acts) : acts[d].kind # "body"
<1> SUFFICES ASSUME NEW d \in 1 .. Len(acts), acts[d].kind = "body" PROVE FALSE
  OBVIOUS
<1>1. Len(acts) \in Nat /\ Len(frames) \in Nat
  BY LenProperties
<1>2. PICK k \in 1 .. Len(frames) : frames[k].act = d
  BY DEF Linked, OwnerIn
<1>3. frames[k].act # 0
  BY <1>1, <1>2
<1>4. frames[k].kind = "catch"
  BY <1>2, <1>3 DEF Linked, KindIn, TryBlock
<1>5. k <= i
  <2>1. CASE i = Len(frames)
    BY <1>1, <2>1
  <2>2. CASE frames[i].act = Len(acts) /\ acts[Len(acts)].kind # "body"
    <3>1. d < Len(acts)
      BY <1>1, <2>2
    <3>2. ~ i < k
      BY <1>1, <1>2, <1>3, <2>2, <3>1 DEF Linked
    <3> QED
      BY <1>1, <3>2
  <2> QED
    BY <2>1, <2>2
<1>6. k \in Handlers(frames, i)
  BY <1>1, <1>4, <1>5 DEF Handlers
<1> QED
  BY <1>6

(* fh_throw jumps. *)
LEMMA JumpInv ==
  ASSUME IInv, status = "running", NEW frames \in Seq(Frame), Linked(frames, cstack),
         NEW j \in 1 .. Len(frames), frames[j].kind = "catch", JumpTo(frames, j)
  PROVE  IInv'
<1> DEFINE d == frames[j].act
           b == [cstack[d] EXCEPT !.kind = "catch", !.catches = @ + 1]
           cut == SubSeq(cstack, 1, d)
<1>1. cstack \in Seq(Activation) /\ interactive \in BOOLEAN /\ crossed \in BOOLEAN
  BY DEF IInv, TypeOK
<1>2. Len(frames) \in Nat /\ Len(cstack) \in Nat
  BY <1>1, LenProperties
<1>3. callstack' \in Seq(Frame) /\ interactive' \in BOOLEAN
  <2>1. j - 1 \in 0 .. Len(frames)
    BY <1>2
  <2> QED
    BY <1>1, <2>1, Prefix DEF JumpTo
<1>4. CASE status' # "running"
  <2>1. status' \in {"undefined", "crashed"} /\ UNCHANGED <<cstack, crossed, interactive>>
    BY <1>4 DEF JumpTo
  <2>2. StackInv'
    BY <2>1 DEF IInv, StackInv
  <2> QED
    BY <1>1, <1>3, <2>1, <2>2 DEF IInv, TypeOK
<1>5. CASE status' = "running"
  <2>1. /\ d # 0
        /\ cstack' = [SubSeq(cstack, 1, d) EXCEPT ![d].kind = "catch", ![d].catches = @ + 1]
        /\ crossed' = (crossed \/ \E e \in d + 1 .. Depth : cstack[e].kind = "eval")
    BY <1>5 DEF JumpTo
  <2>2. /\ d \in 1 .. Len(cstack) /\ OwnerIn(cstack, d) /\ cstack[d].kind \in TryBlock
        /\ cstack[d] \in Activation /\ Counted(cstack[d])
    <3>1. d \in 1 .. Len(cstack) /\ OwnerIn(cstack, d) /\ KindIn(cstack, d) = "catch"
      BY <2>1 DEF Linked
    <3>2. cstack[d].kind \in TryBlock
      BY <3>1 DEF KindIn
    <3> HIDE DEF d
    <3> QED
      BY <1>1, <3>1, <3>2, ElementOfSeq DEF IInv, StackInv, Counts
  <2>3. cstack[d].catches = 0
    BY <2>2 DEF OwnerIn, Counted, TryBlock
  <2>4. b \in Activation /\ b.kind = "catch" /\ Counted(b)
    BY <2>2, <2>3, CatchActivation
  <2>5. /\ cut \in Seq(Activation) /\ Len(cut) = d /\ cut[d] = cstack[d]
        /\ Counts(cut) /\ Reports(cut)
        /\ NoEval(cut) <=> \A e \in 1 .. d : cstack[e].kind # "eval"
        /\ Saves(cstack) => Saves(cut)
    <3>1. d \in 0 .. Len(cstack) /\ d \in 1 .. d
      BY <1>2, <2>2
    <3> HIDE DEF d
    <3> QED
      BY <1>1, <3>1, Prefix, PrefixActs DEF IInv, StackInv
  <2>6. cstack' = [cut EXCEPT ![d] = b]
    <3>1. d \in 1 .. Len(cut)
      BY <1>2, <2>2, <2>5
    <3> HIDE DEF d
    <3> QED
      BY <2>1, <2>2, <2>5, <3>1 DEF Activation
  <2>7. Linked(callstack', cstack')
    <3>1. Linked(SubSeq(frames, 1, j - 1), [cut EXCEPT ![d] = b])
      <4> HIDE DEF b
      <4> QED
        BY <1>1, <2>1, <2>4, LinkJump
    <3>2. callstack' = SubSeq(frames, 1, j - 1)
      BY DEF JumpTo
    <3> HIDE DEF b, cut, d
    <3> QED
      BY <2>6, <3>1, <3>2
  <2>8. /\ cstack' \in Seq(Activation) /\ Counts(cstack') /\ Reports(cstack')
        /\ NoEval(cstack') <=> NoEval(cut)
        /\ Saves(cut) => Saves(cstack')
    <3>1. d \in 1 .. Len(cut) /\ b.kind \in {"catch", "finally"} /\ cut[d].kind \in TryBlock
      BY <1>2, <2>2, <2>4, <2>5
    <3> HIDE DEF d, b, cut
    <3> QED
      BY <2>4, <2>5, <2>6, <3>1, ReplaceActs
  <2>9. ~ crossed' => (NoEval(cut) <=> NoEval(cstack))
    <3>1. \A e \in 1 .. Len(cstack) : e \in 1 .. d \/ e \in d + 1 .. Depth
      BY <1>2, <2>2 DEF Depth
    <3>2. 1 .. d \subseteq 1 .. Len(cstack)
      BY <1>2, <2>2
    <3> QED
      BY <2>1, <2>5, <3>1, <3>2 DEF NoEval
  <2>10. StackInv'
    BY <2>1, <2>5, <2>8, <2>9 DEF IInv, StackInv, JumpTo
  <2>11. crossed' \in BOOLEAN
    BY <2>1
  <2> QED
    BY <1>3, <1>5, <2>7, <2>8, <2>10, <2>11 DEF IInv, TypeOK
<1> QED
  BY <1>4, <1>5

(* Frame i was pushed inside every try body that is being executed. *)
Inside(frames, i) ==
  i = Len(frames) \/ (frames[i].act = Len(cstack) /\ cstack[Len(cstack)].kind # "body")

(* fh_throw, from a frame inside every open try body. *)
LEMMA ThrowInv ==
  ASSUME IInv, status = "running", NEW frames \in Seq(Frame), Linked(frames, cstack),
         frames = callstack \/ frames = Pushed("plain", 0),
         NEW i \in 1 .. Len(frames),
         Inside(frames, i),
         Throw(frames, i)
  PROVE  IInv'
<1>1. cstack \in Seq(Activation)
  BY DEF IInv, TypeOK
<1>2. CASE Handlers(frames, i) = {} /\ Unhandled(frames, TRUE)
  <2> DEFINE a == [Blank EXCEPT !.kind = "report", !.attached = TRUE]
  <2>1. a \in Activation /\ a.kind = "report" /\ a.catches = 0
    BY BlankIsActivation DEF Blank, Activation, Kind
  <2>2. \A d \in 1 .. Depth : cstack[d].kind # "body"
    BY <1>1, <1>2, NoHandlerNoBody DEF Depth, Inside
  <2>3. /\ callstack' = frames /\ cstack' = Append(cstack, a)
        /\ UNCHANGED <<interactive, status, crossed>>
    BY <1>2 DEF Unhandled
  <2> HIDE DEF a
  <2> QED
    BY <2>1, <2>2, <2>3, EnterWithoutFrame
<1>3. CASE \E j \in Handlers(frames, i) : JumpTo(frames, j)
  <2>1. PICK j \in Handlers(frames, i) : JumpTo(frames, j)
    BY <1>3
  <2>2. j \in 1 .. Len(frames) /\ frames[j].kind = "catch"
    BY LenProperties DEF Handlers
  <2> QED
    BY <2>1, <2>2, JumpInv
<1> QED
  BY <1>2, <1>3 DEF Throw

-----------------------------------------------------------------------------
(* Every step preserves the invariant.                                     *)

(* A function is called. *)
LEMMA CallInv == IInv /\ Call => IInv'
<1> SUFFICES ASSUME IInv, Call PROVE IInv'
  OBVIOUS
<1>1. Blank \in Activation /\ Blank.kind = "call" /\ Blank.catches = 0 /\ Blank.finals = 0
  BY BlankIsActivation
<1>2. callstack' = Pushed(IF Blank.kind = "body" THEN "catch" ELSE "plain", Depth + 1)
  BY <1>1 DEF Call
<1> QED
  BY <1>1, <1>2, EnterWithFrame DEF Call

(* A try statement is entered. *)
LEMMA EnterTryInv ==
  ASSUME NEW handler \in BOOLEAN, NEW final \in BOOLEAN, IInv, EnterTry(handler, final)
  PROVE  IInv'
<1> DEFINE a == [Blank EXCEPT !.kind = "body", !.handler = handler, !.final = final]
<1>1. a \in Activation /\ a.kind = "body" /\ a.catches = 0 /\ a.finals = 0
  BY BlankIsActivation, TriedActivation, ZenonT(40)
<1>2. /\ callstack' = Pushed("catch", Depth + 1) /\ cstack' = Append(cstack, a)
      /\ Room /\ status = "running" /\ UNCHANGED <<interactive, status, crossed>>
  BY DEF EnterTry, InScript
<1> HIDE DEF a
<1>3. callstack' = Pushed(IF a.kind = "body" THEN "catch" ELSE "plain", Depth + 1)
  BY <1>1, <1>2
<1> QED
  BY <1>1, <1>2, <1>3, EnterWithFrame

(* A throw statement is entered. *)
LEMMA BeginThrowInv == IInv /\ BeginThrow => IInv'
<1> SUFFICES ASSUME IInv, BeginThrow PROVE IInv'
  OBVIOUS
<1> DEFINE a == [Blank EXCEPT !.kind = "throw"]
<1>1. a \in Activation /\ a.kind = "throw" /\ a.catches = 0 /\ a.finals = 0
  BY BlankIsActivation, EnteredActivations
<1>2. /\ callstack' = Pushed("plain", Depth + 1) /\ cstack' = Append(cstack, a)
      /\ Room /\ status = "running" /\ UNCHANGED <<interactive, status, crossed>>
  BY DEF BeginThrow, InScript
<1> HIDE DEF a
<1>3. callstack' = Pushed(IF a.kind = "body" THEN "catch" ELSE "plain", Depth + 1)
  BY <1>1, <1>2
<1> QED
  BY <1>1, <1>2, <1>3, EnterWithFrame

(* An eval is entered and clears the setting. *)
LEMMA EnterEvalInv == IInv /\ EnterEval => IInv'
<1> SUFFICES ASSUME IInv, EnterEval PROVE IInv'
  OBVIOUS
<1> DEFINE a == [Blank EXCEPT !.kind = "eval", !.saved = interactive]
<1>1. interactive \in BOOLEAN
  BY DEF IInv, TypeOK
<1>2. a \in Activation /\ a.kind = "eval" /\ a.catches = 0 /\ a.saved = interactive
  BY <1>1, BlankIsActivation, EnteredActivations
<1>3. /\ cstack' = Append(cstack, a) /\ interactive' = FALSE /\ status = "running"
      /\ UNCHANGED <<callstack, status, crossed>>
  BY DEF EnterEval, InScript
<1> HIDE DEF a
<1> QED
  BY <1>2, <1>3, EnterWithoutFrame

(* fh_throw reports an error that it has no callstack for. *)
LEMMA UnhandledInv == IInv /\ status = "running" /\ Unhandled(callstack, FALSE) => IInv'
<1> SUFFICES ASSUME IInv, status = "running", Unhandled(callstack, FALSE) PROVE IInv'
  OBVIOUS
<1> DEFINE a == [Blank EXCEPT !.kind = "report", !.attached = FALSE]
<1>1. a \in Activation /\ a.kind = "report" /\ a.catches = 0 /\ a.attached = FALSE
  BY BlankIsActivation, EnteredActivations
<1>2. /\ callstack' = callstack /\ cstack' = Append(cstack, a)
      /\ UNCHANGED <<interactive, status, crossed>>
  BY DEF Unhandled
<1> HIDE DEF a
<1> QED
  BY <1>1, <1>2, EnterWithoutFrame

(* A throw statement or a native function throws. *)
LEMMA ThrowFromFrameInv == IInv /\ ThrowFromFrame => IInv'
<1> SUFFICES ASSUME IInv, ThrowFromFrame PROVE IInv'
  OBVIOUS
<1>1. /\ callstack \in Seq(Frame) /\ Linked(callstack, cstack) /\ status = "running"
      /\ cstack[Len(cstack)].kind # "body"
  BY DEF IInv, TypeOK, ThrowFromFrame, Top, Depth
<1>2. PICK i \in DOMAIN callstack : callstack[i].act = Len(cstack) /\ Throw(callstack, i)
  BY DEF ThrowFromFrame, Depth
<1>3. i \in 1 .. Len(callstack)
  BY <1>1, <1>2, LenProperties
<1>4. Inside(callstack, i)
  BY <1>1, <1>2 DEF Inside
<1> QED
  BY <1>1, <1>2, <1>3, <1>4, ThrowInv

(* ident, fh_eval or the parser throws. *)
LEMMA ThrowFromNewFrameInv == IInv /\ ThrowFromNewFrame => IInv'
<1> SUFFICES ASSUME IInv, ThrowFromNewFrame PROVE IInv'
  OBVIOUS
<1>1. /\ callstack \in Seq(Frame) /\ cstack \in Seq(Activation)
      /\ Linked(callstack, cstack) /\ status = "running"
  BY DEF IInv, TypeOK, ThrowFromNewFrame, InScript
<1>2. Pushed("plain", 0) \in Seq(Frame) /\ Linked(Pushed("plain", 0), cstack)
  BY <1>1, LinkPlain DEF Pushed
<1>3. Len(Pushed("plain", 0)) = Len(callstack) + 1 /\ Len(callstack) \in Nat
  <2>1. [kind |-> "plain", act |-> 0] \in Frame
    BY CallstackAssumption DEF Frame
  <2> QED
    BY <1>1, <2>1, AppendProperties, LenProperties DEF Pushed
<1>4. Len(callstack) + 1 \in 1 .. Len(Pushed("plain", 0))
  BY <1>3
<1>5. Inside(Pushed("plain", 0), Len(callstack) + 1)
  BY <1>3 DEF Inside
<1>6. Throw(Pushed("plain", 0), Len(callstack) + 1)
  BY DEF ThrowFromNewFrame
<1> QED
  BY <1>1, <1>2, <1>4, <1>5, <1>6, ThrowInv

(* The report of an uncaught error ends the line or the process. *)
LEMMA EndReportInv == IInv /\ EndReport => IInv'
<1> SUFFICES ASSUME IInv, EndReport PROVE IInv'
  OBVIOUS
<1>1. CASE interactive
  <2>1. callstack' = <<>> /\ cstack' = <<>> /\ UNCHANGED <<status, interactive, crossed>>
    BY <1>1 DEF EndReport
  <2>2. /\ callstack' \in Seq(Frame) /\ cstack' \in Seq(Activation)
        /\ 1 .. Len(callstack') = {} /\ 1 .. Len(cstack') = {}
    BY <2>1, EmptySeq
  <2>3. TypeOK'
    BY <2>1, <2>2 DEF IInv, TypeOK
  <2>4. ~ crossed => Repl
    BY <1>1 DEF IInv, StackInv
  <2>5. StackInv'
    BY <1>1, <2>1, <2>2, <2>4 DEF StackInv, Counts, Reports, Saves, NoEval
  <2>6. Linked(callstack, cstack)'
    BY <2>2 DEF Linked
  <2> QED
    BY <2>3, <2>5, <2>6 DEF IInv
<1>2. CASE ~ interactive
  <2>1. status' = "exited" /\ UNCHANGED <<callstack, cstack, interactive, crossed>>
    BY <1>2 DEF EndReport
  <2> QED
    BY <2>1 DEF IInv, TypeOK, StackInv
<1> QED
  BY <1>1, <1>2

(* The invariant is inductive. *)
LEMMA NextIInv == IInv /\ [Next]_vars => IInv'
<1> SUFFICES ASSUME IInv, [Next]_vars PROVE IInv'
  OBVIOUS
<1>1. CASE Call
  BY <1>1, CallInv
<1>2. CASE Return
  BY <1>2, ReturnInv
<1>3. CASE EnterEval
  BY <1>3, EnterEvalInv
<1>4. CASE LeaveEval
  BY <1>4, LeaveEvalInv
<1>5. CASE \E handler, final \in BOOLEAN : EnterTry(handler, final)
  BY <1>5, EnterTryInv
<1>6. CASE BeginFinally
  BY <1>6, BeginFinallyInv
<1>7. CASE LeaveTry
  BY <1>7, LeaveTryInv
<1>8. CASE BeginThrow
  BY <1>8, BeginThrowInv
<1>9. CASE ThrowFromFrame
  BY <1>9, ThrowFromFrameInv
<1>10. CASE ThrowFromNewFrame
  BY <1>10, ThrowFromNewFrameInv
<1>11. CASE ThrowDetached \/ ReadLine
  BY <1>11, UnhandledInv DEF ThrowDetached, ReadLine
<1>12. CASE EndReport
  BY <1>12, EndReportInv
<1>13. CASE Finish
  BY <1>13 DEF Finish, IInv, TypeOK, StackInv
<1>14. CASE Ended \/ UNCHANGED vars
  BY <1>14 DEF Ended, vars, IInv, TypeOK, StackInv
<1> QED
  BY <1>1, <1>2, <1>3, <1>4, <1>5, <1>6, <1>7, <1>8, <1>9, <1>10, <1>11, <1>12, <1>13, <1>14
  DEF Next

(* The inductive invariant holds in every state the interpreter reaches.   *)
THEOREM InvariantHolds == Spec => []IInv
  BY InitIInv, NextIInv, PTL DEF Spec

(* The two stacks stay well formed: an activation never counts a third     *)
(* entry of its catch or finally block, and no frame names an activation   *)
(* above the bound.                                                        *)
THEOREM TypeCorrect == Spec => []TypeOK
<1>1. IInv => TypeOK
  BY DEF IInv
<1> QED
  BY <1>1, InvariantHolds, PTL

(* Whatever frames try statements have left behind, the frame of a call, a *)
(* throw statement or a try body that is being executed is on the          *)
(* callstack: fh_pop_state, which takes off the head and not a frame named *)
(* by its caller, never frees one that a caller still uses.                *)
THEOREM ActiveFramesCorrect == Spec => []ActiveFramesSurvive
<1>1. IInv => ActiveFramesSurvive
  <2> SUFFICES ASSUME IInv, status = "running", NEW d \in 1 .. Depth, Owner(d)
               PROVE  \E i \in DOMAIN callstack :
                        /\ callstack[i].act = d
                        /\ callstack[i].kind = IF cstack[d].kind \in TryBlock THEN "catch" ELSE "plain"
    BY DEF ActiveFramesSurvive
  <2>1. callstack \in Seq(Frame) /\ cstack \in Seq(Activation) /\ Linked(callstack, cstack)
    BY DEF IInv, TypeOK
  <2>2. DOMAIN callstack = 1 .. Len(callstack) /\ Len(cstack) \in Nat
    BY <2>1, LenProperties
  <2>3. PICK i \in 1 .. Len(callstack) : callstack[i].act = d
    BY <2>1 DEF Linked, Owner, OwnerIn, Depth
  <2>4. d # 0
    BY <2>2 DEF Depth
  <2> QED
    BY <2>1, <2>2, <2>3, <2>4 DEF Linked, KindIn
<1> QED
  BY <1>1, InvariantHolds, PTL

(* No sequence of throws, nested or out of a finally block, enters the     *)
(* catch block of one execution of a try statement twice: its frame is     *)
(* popped before fh_throw jumps.                                           *)
THEOREM CatchOnceCorrect == Spec => []CatchRunsOnce
<1>1. IInv => CatchRunsOnce
  <2> SUFFICES ASSUME IInv, NEW d \in 1 .. Depth PROVE cstack[d].catches <= 1
    BY DEF CatchRunsOnce
  <2>1. cstack[d].catches \in 0 .. 2
    <3>1. cstack \in Seq(Activation) /\ d \in 1 .. Len(cstack)
      BY DEF IInv, TypeOK, Depth
    <3>2. cstack[d] \in Activation
      BY <3>1, ElementOfSeq
    <3> QED
      BY <3>2 DEF Activation
  <2>2. Counted(cstack[d])
    BY DEF IInv, StackInv, Counts, Depth
  <2> QED
    BY <2>1, <2>2 DEF Counted, TryBlock
<1> QED
  BY <1>1, InvariantHolds, PTL

(* An error that is thrown from a frame is never reported as uncaught      *)
(* while a try body is being executed around the throw.                    *)
THEOREM ReportedCorrect == Spec => []ReportedOnlyUnhandled
<1>1. IInv => ReportedOnlyUnhandled
  BY DEF IInv, StackInv, Reports, ReportedOnlyUnhandled, Depth
<1> QED
  BY <1>1, InvariantHolds, PTL

(* As long as no throw has jumped out of an fh_eval_string, the setting    *)
(* fh->opt_interactive is the one main chose, except inside an eval.       *)
THEOREM SettingCorrect == Spec => []SettingFollowsEval
<1>1. IInv => SettingFollowsEval
  BY DEF IInv, StackInv, NoEval, SettingFollowsEval, Depth
<1> QED
  BY <1>1, InvariantHolds, PTL

-----------------------------------------------------------------------------
(* The frames keep the promise of Unwinding.tla: every step maps to a step *)
(* of it or to a stutter.  First the mapping, for any two stacks.          *)

ControlOf(acts) == [d \in 1 .. Len(acts) |-> acts[d].kind]

StaleIn(frames, acts) ==
  \E i \in 1 .. Len(frames) :
    /\ frames[i].kind = "catch"
    /\ frames[i].act = 0 \/ acts[frames[i].act].kind # "body"

LEMMA ControlSeq ==
  ASSUME NEW acts \in Seq(Activation)
  PROVE  ControlOf(acts) \in Seq(Kind) /\ Len(ControlOf(acts)) = Len(acts)
<1>1. Len(acts) \in Nat /\ \A d \in 1 .. Len(acts) : acts[d] \in Activation
  BY LenProperties, ElementOfSeq
<1>2. ControlOf(acts) \in [1 .. Len(acts) -> Kind]
  BY <1>1 DEF ControlOf, Activation
<1> QED
  BY <1>1, <1>2, FunctionIsSeq

LEMMA ControlAppend ==
  ASSUME NEW acts \in Seq(Activation), NEW a \in Activation
  PROVE  ControlOf(Append(acts, a)) = Append(ControlOf(acts), a.kind)
<1>1. /\ Append(acts, a) \in Seq(Activation) /\ Len(Append(acts, a)) = Len(acts) + 1
      /\ Len(acts) \in Nat
      /\ \A d \in 1 .. Len(acts) : Append(acts, a)[d] = acts[d]
      /\ Append(acts, a)[Len(acts) + 1] = a
  BY AppendProperties, LenProperties
<1>2. /\ ControlOf(acts) \in Seq(Kind) /\ Len(ControlOf(acts)) = Len(acts)
      /\ ControlOf(Append(acts, a)) \in Seq(Kind)
      /\ Len(ControlOf(Append(acts, a))) = Len(acts) + 1
  BY <1>1, ControlSeq
<1>3. a.kind \in Kind
  BY DEF Activation
<1>4. /\ Append(ControlOf(acts), a.kind) \in Seq(Kind)
      /\ Len(Append(ControlOf(acts), a.kind)) = Len(acts) + 1
      /\ \A d \in 1 .. Len(acts) : Append(ControlOf(acts), a.kind)[d] = ControlOf(acts)[d]
      /\ Append(ControlOf(acts), a.kind)[Len(acts) + 1] = a.kind
  BY <1>2, <1>3, AppendProperties
<1>5. \A d \in 1 .. Len(acts) + 1 :
        ControlOf(Append(acts, a))[d] = Append(ControlOf(acts), a.kind)[d]
  <2> SUFFICES ASSUME NEW d \in 1 .. Len(acts) + 1
               PROVE  ControlOf(Append(acts, a))[d] = Append(ControlOf(acts), a.kind)[d]
    OBVIOUS
  <2>1. ControlOf(Append(acts, a))[d] = Append(acts, a)[d].kind
    BY <1>1 DEF ControlOf
  <2>2. CASE d \in 1 .. Len(acts)
    <3>1. ControlOf(acts)[d] = acts[d].kind
      BY <2>2 DEF ControlOf
    <3> QED
      BY <1>1, <1>4, <2>1, <2>2, <3>1
  <2>3. CASE d = Len(acts) + 1
    BY <1>1, <1>4, <2>1, <2>3
  <2>4. d \in 1 .. Len(acts) \/ d = Len(acts) + 1
    <3>1. Len(acts) \in Nat
      BY LenProperties
    <3> QED
      BY <3>1
  <2> QED
    BY <2>2, <2>3, <2>4
<1> QED
  BY <1>2, <1>4, <1>5, SeqEqual

LEMMA ControlPrefix ==
  ASSUME NEW acts \in Seq(Activation), NEW n \in 0 .. Len(acts)
  PROVE  ControlOf(SubSeq(acts, 1, n)) = SubSeq(ControlOf(acts), 1, n)
<1>1. /\ SubSeq(acts, 1, n) \in Seq(Activation) /\ Len(SubSeq(acts, 1, n)) = n
      /\ \A d \in 1 .. n : SubSeq(acts, 1, n)[d] = acts[d]
      /\ Len(acts) \in Nat
  BY Prefix, LenProperties
<1>2. /\ ControlOf(acts) \in Seq(Kind) /\ n \in 0 .. Len(ControlOf(acts))
      /\ ControlOf(SubSeq(acts, 1, n)) \in Seq(Kind)
      /\ Len(ControlOf(SubSeq(acts, 1, n))) = n
  BY <1>1, ControlSeq
<1>3. /\ SubSeq(ControlOf(acts), 1, n) \in Seq(Kind) /\ Len(SubSeq(ControlOf(acts), 1, n)) = n
      /\ \A d \in 1 .. n : SubSeq(ControlOf(acts), 1, n)[d] = ControlOf(acts)[d]
  BY <1>2, Prefix
<1>4. \A d \in 1 .. n :
        ControlOf(SubSeq(acts, 1, n))[d] = SubSeq(ControlOf(acts), 1, n)[d]
  BY <1>1, <1>3 DEF ControlOf
<1> QED
  BY <1>2, <1>3, <1>4, SeqEqual

LEMMA ControlReplace ==
  ASSUME NEW acts \in Seq(Activation), NEW d \in 1 .. Len(acts), NEW b \in Activation
  PROVE  ControlOf([acts EXCEPT ![d] = b]) = [ControlOf(acts) EXCEPT ![d] = b.kind]
<1>1. /\ Len([acts EXCEPT ![d] = b]) = Len(acts)
      /\ \A e \in 1 .. Len(acts) : [acts EXCEPT ![d] = b][e] = IF e = d THEN b ELSE acts[e]
  BY ExceptSeq
<1> DEFINE acts2 == [acts EXCEPT ![d] = b]
<1>2. DOMAIN ControlOf(acts) = 1 .. Len(acts)
  BY DEF ControlOf
<1>3. [ControlOf(acts) EXCEPT ![d] = b.kind]
        = [e \in 1 .. Len(acts) |-> IF e = d THEN b.kind ELSE acts[e].kind]
  BY <1>2 DEF ControlOf
<1> HIDE DEF acts2
<1>4. ControlOf(acts2) = [e \in 1 .. Len(acts) |-> acts2[e].kind]
  BY <1>1 DEF ControlOf, acts2
<1>5. \A e \in 1 .. Len(acts) : acts2[e].kind = IF e = d THEN b.kind ELSE acts[e].kind
  BY <1>1 DEF acts2
<1> QED
  BY <1>3, <1>4, <1>5 DEF acts2

(* What Callstack.tla maps. *)
LEMMA Mapping ==
  ASSUME callstack \in Seq(Frame)
  PROVE  /\ Stale <=> StaleIn(callstack, cstack)
         /\ [d \in 1 .. Depth |-> cstack[d].kind] = ControlOf(cstack)
<1>1. DOMAIN callstack = 1 .. Len(callstack)
  BY LenProperties
<1> QED
  BY <1>1 DEF Stale, StaleIn, ControlOf, Depth

-----------------------------------------------------------------------------
(* Stale handlers.                                                         *)

(* Neither an activation that pushes its frame nor the frame itself makes  *)
(* a handler stale.                                                        *)
LEMMA StalePush ==
  ASSUME NEW frames \in Seq(Frame), NEW acts \in Seq(Activation), Linked(frames, acts),
         NEW a \in Activation, NEW kind \in {"plain", "catch"},
         kind = "catch" => a.kind = "body", Len(acts) < MaxDepth
  PROVE  StaleIn(Append(frames, [kind |-> kind, act |-> Len(acts) + 1]), Append(acts, a))
           <=> StaleIn(frames, acts)
<1> DEFINE f == [kind |-> kind, act |-> Len(acts) + 1]
           frames2 == Append(frames, f)
           acts2 == Append(acts, a)
<1>1. Len(acts) \in Nat /\ Len(frames) \in Nat
  BY LenProperties
<1>2. f \in Frame /\ f.kind = kind /\ f.act = Len(acts) + 1
  BY <1>1, CallstackAssumption DEF Frame
<1> HIDE DEF f
<1>3. /\ Len(frames2) = Len(frames) + 1
      /\ \A i \in 1 .. Len(frames) : frames2[i] = frames[i]
      /\ frames2[Len(frames) + 1] = f
  BY <1>2, AppendProperties
<1>4. /\ \A d \in 1 .. Len(acts) : acts2[d] = acts[d]
      /\ acts2[Len(acts) + 1] = a
  BY AppendProperties
<1> HIDE DEF frames2, acts2
<1>5. \A i \in 1 .. Len(frames) :
        frames[i].act # 0 => acts2[frames[i].act] = acts[frames[i].act]
  BY <1>4 DEF Linked
<1>6. ASSUME StaleIn(frames, acts)
      PROVE  StaleIn(frames2, acts2)
  <2>1. PICK i \in 1 .. Len(frames) :
          frames[i].kind = "catch" /\ (frames[i].act = 0 \/ acts[frames[i].act].kind # "body")
    BY <1>6 DEF StaleIn
  <2>2. i \in 1 .. Len(frames2) /\ frames2[i] = frames[i]
    BY <1>1, <1>3
  <2> QED
    BY <1>5, <2>1, <2>2 DEF StaleIn
<1>7. ASSUME StaleIn(frames2, acts2)
      PROVE  StaleIn(frames, acts)
  <2>1. PICK i \in 1 .. Len(frames2) :
          frames2[i].kind = "catch" /\ (frames2[i].act = 0 \/ acts2[frames2[i].act].kind # "body")
    BY <1>7 DEF StaleIn
  <2>2. CASE i = Len(frames) + 1
    BY <1>1, <1>2, <1>3, <1>4, <2>1, <2>2
  <2>3. CASE i \in 1 .. Len(frames)
    BY <1>3, <1>5, <2>1, <2>3 DEF StaleIn
  <2> QED
    BY <1>1, <1>3, <2>2, <2>3
<1>8. StaleIn(frames2, acts2) <=> StaleIn(frames, acts)
  BY <1>6, <1>7
<1> QED
  BY <1>8 DEF f, frames2, acts2

(* Nor does an activation without a frame, *)
LEMMA StaleEnter ==
  ASSUME NEW frames \in Seq(Frame), NEW acts \in Seq(Activation), Linked(frames, acts),
         NEW a \in Activation
  PROVE  StaleIn(frames, Append(acts, a)) <=> StaleIn(frames, acts)
<1>1. \A d \in 1 .. Len(acts) : Append(acts, a)[d] = acts[d]
  BY AppendProperties
<1>2. \A i \in 1 .. Len(frames) :
        frames[i].act # 0 => Append(acts, a)[frames[i].act] = acts[frames[i].act]
  BY <1>1 DEF Linked
<1> QED
  BY <1>2 DEF StaleIn

(* or a frame to throw from. *)
LEMMA StalePlain ==
  ASSUME NEW frames \in Seq(Frame), NEW acts
  PROVE  StaleIn(Append(frames, [kind |-> "plain", act |-> 0]), acts) <=> StaleIn(frames, acts)
<1> DEFINE f == [kind |-> "plain", act |-> 0]
           frames2 == Append(frames, f)
<1>1. f \in Frame /\ f.kind = "plain"
  BY CallstackAssumption DEF Frame
<1> HIDE DEF f
<1>2. /\ Len(frames2) = Len(frames) + 1 /\ Len(frames) \in Nat
      /\ \A i \in 1 .. Len(frames) : frames2[i] = frames[i]
      /\ frames2[Len(frames) + 1] = f
  BY <1>1, AppendProperties, LenProperties
<1> HIDE DEF frames2
<1>3. \A i \in 1 .. Len(frames2) : i \in 1 .. Len(frames) \/ i = Len(frames) + 1
  BY <1>2
<1>4. 1 .. Len(frames) \subseteq 1 .. Len(frames2)
  BY <1>2
<1>5. StaleIn(frames2, acts) <=> StaleIn(frames, acts)
  BY <1>1, <1>2, <1>3, <1>4 DEF StaleIn
<1> QED
  BY <1>5 DEF f, frames2

(* A call that returns leaves no handler of its own. *)
LEMMA StaleReturn ==
  ASSUME NEW frames \in Seq(Frame), NEW acts \in Seq(Activation), Linked(frames, acts),
         acts # <<>>, acts[Len(acts)].kind = "call",
         StaleIn(Orphaned(SubSeq(frames, 1, Len(frames) - 1), Len(acts)),
                 SubSeq(acts, 1, Len(acts) - 1))
  PROVE  StaleIn(frames, acts)
<1> DEFINE n == Len(frames)
           d == Len(acts)
           rest == SubSeq(frames, 1, n - 1)
           frames2 == Orphaned(rest, d)
           acts2 == SubSeq(acts, 1, d - 1)
<1>1. n \in Nat /\ d \in Nat \ {0} /\ n > 0
  BY LenProperties, EmptySeq, LinkReturn
<1>2. rest \in Seq(Frame) /\ Len(rest) = n - 1 /\ \A i \in 1 .. n - 1 : rest[i] = frames[i]
  <2>1. n - 1 \in 0 .. Len(frames)
    BY <1>1
  <2> HIDE DEF n
  <2> QED
    BY <2>1, Prefix
<1>3. /\ Len(frames2) = n - 1
      /\ \A i \in 1 .. n - 1 :
           /\ frames2[i].kind = frames[i].kind
           /\ frames2[i].act = IF frames[i].act >= d THEN 0 ELSE frames[i].act
  <2>1. rest \in Seq(Frame) /\ d \in Nat
    BY <1>1, <1>2
  <2> HIDE DEF n, d, rest
  <2>2. /\ Len(Orphaned(rest, d)) = Len(rest)
        /\ \A i \in 1 .. Len(rest) :
             /\ Orphaned(rest, d)[i].kind = rest[i].kind
             /\ Orphaned(rest, d)[i].act = IF rest[i].act >= d THEN 0 ELSE rest[i].act
    BY <2>1, OrphanedFrames
  <2> QED
    BY <1>2, <2>2
<1>4. \A e \in 1 .. d - 1 : acts2[e] = acts[e]
  <2>1. d - 1 \in 0 .. Len(acts)
    BY <1>1
  <2> HIDE DEF d
  <2> QED
    BY <2>1, Prefix
<1>5. \A i \in 1 .. Len(frames) : frames[i].act \in Nat
  BY ActsAreNumbers
<1>6. PICK i \in 1 .. n - 1 :
        frames2[i].kind = "catch" /\ (frames2[i].act = 0 \/ acts2[frames2[i].act].kind # "body")
  <2>1. StaleIn(frames2, acts2)
    OBVIOUS
  <2> HIDE DEF frames2, acts2
  <2> QED
    BY <1>3, <2>1 DEF StaleIn
<1> HIDE DEF rest, frames2, acts2
<1>7. i \in 1 .. Len(frames) /\ frames[i].kind = "catch" /\ frames[i].act \in Nat
  BY <1>1, <1>3, <1>5, <1>6
<1>8. CASE frames[i].act = 0
  BY <1>7, <1>8 DEF StaleIn
<1>9. CASE frames[i].act # 0
  <2>1. /\ frames[i].act \in 1 .. Len(acts) /\ KindIn(acts, frames[i].act) = "catch"
    BY <1>7, <1>9 DEF Linked
  <2>2. frames[i].act # d
    BY <2>1 DEF KindIn, TryBlock
  <2>3. frames[i].act \in 1 .. d - 1 /\ ~ (frames[i].act >= d)
    BY <1>1, <2>1, <2>2
  <2>4. frames2[i].act = frames[i].act /\ acts2[frames[i].act] = acts[frames[i].act]
    BY <1>3, <1>4, <2>3
  <2> QED
    BY <1>6, <1>7, <1>9, <2>4 DEF StaleIn
<1> QED
  BY <1>8, <1>9

(* A try statement that is left orphans its frame, if a throw has not      *)
(* popped it: then its body has completed.                                 *)
LEMMA StaleLeaveTry ==
  ASSUME NEW frames \in Seq(Frame), NEW acts \in Seq(Activation), Linked(frames, acts),
         acts # <<>>, StaleIn(Orphaned(frames, Len(acts)), SubSeq(acts, 1, Len(acts) - 1))
  PROVE  StaleIn(frames, acts) \/ acts[Len(acts)].kind = "body"
<1> DEFINE d == Len(acts)
           frames2 == Orphaned(frames, d)
           acts2 == SubSeq(acts, 1, d - 1)
<1>1. d \in Nat \ {0} /\ Len(frames) \in Nat
  BY LenProperties, EmptySeq
<1>2. \A e \in 1 .. d - 1 : acts2[e] = acts[e]
  <2>1. d - 1 \in 0 .. Len(acts)
    BY <1>1
  <2> HIDE DEF d
  <2> QED
    BY <2>1, Prefix
<1>3. /\ Len(frames2) = Len(frames)
      /\ \A i \in 1 .. Len(frames) :
           /\ frames2[i].kind = frames[i].kind
           /\ frames2[i].act = IF frames[i].act >= d THEN 0 ELSE frames[i].act
  <2>1. d \in Nat
    BY <1>1
  <2> HIDE DEF d
  <2> QED
    BY <2>1, OrphanedFrames
<1>4. PICK i \in 1 .. Len(frames) :
        frames2[i].kind = "catch" /\ (frames2[i].act = 0 \/ acts2[frames2[i].act].kind # "body")
  <2>1. StaleIn(frames2, acts2)
    OBVIOUS
  <2> HIDE DEF frames2, acts2
  <2> QED
    BY <1>3, <2>1 DEF StaleIn
<1>5. frames[i].kind = "catch" /\ frames[i].act \in Nat
  BY <1>3, <1>4, ActsAreNumbers
<1> HIDE DEF frames2, acts2
<1>6. CASE frames[i].act = 0 \/ acts[frames[i].act].kind # "body"
  BY <1>5, <1>6 DEF StaleIn
<1>7. CASE frames[i].act # 0 /\ acts[frames[i].act].kind = "body"
  <2>1. frames[i].act \in 1 .. Len(acts)
    BY <1>7 DEF Linked
  <2>2. CASE frames[i].act = d
    BY <1>7, <2>2
  <2>3. CASE frames[i].act # d
    <3>1. frames[i].act \in 1 .. d - 1 /\ ~ (frames[i].act >= d)
      BY <1>1, <2>1, <2>3
    <3>2. frames2[i].act = frames[i].act /\ acts2[frames[i].act] = acts[frames[i].act]
      BY <1>2, <1>3, <3>1
    <3> QED
      BY <1>4, <1>7, <3>2
  <2> QED
    BY <2>2, <2>3
<1> QED
  BY <1>6, <1>7

(* An eval has no handler. *)
LEMMA StaleLeaveEval ==
  ASSUME NEW frames \in Seq(Frame), NEW acts \in Seq(Activation), Linked(frames, acts),
         acts # <<>>, acts[Len(acts)].kind = "eval",
         StaleIn(frames, SubSeq(acts, 1, Len(acts) - 1))
  PROVE  StaleIn(frames, acts)
<1>1. Len(acts) \in Nat \ {0}
  BY LenProperties, EmptySeq
<1>2. \A e \in 1 .. Len(acts) - 1 : SubSeq(acts, 1, Len(acts) - 1)[e] = acts[e]
  <2>1. Len(acts) - 1 \in 0 .. Len(acts)
    BY <1>1
  <2> QED
    BY <2>1, Prefix
<1>3. \A i \in 1 .. Len(frames) : frames[i].act # 0 => frames[i].act \in 1 .. Len(acts) - 1
  <2> SUFFICES ASSUME NEW i \in 1 .. Len(frames), frames[i].act # 0
               PROVE  frames[i].act \in 1 .. Len(acts) - 1
    OBVIOUS
  <2>1. frames[i].act \in 1 .. Len(acts) /\ OwnerIn(acts, frames[i].act)
    BY DEF Linked
  <2>2. frames[i].act # Len(acts)
    BY <2>1 DEF OwnerIn
  <2> QED
    BY <1>1, <2>1, <2>2
<1> QED
  BY <1>2, <1>3 DEF StaleIn

(* The handler of a body that goes on to its finally block stays. *)
LEMMA StaleFinally ==
  ASSUME NEW frames \in Seq(Frame), NEW acts \in Seq(Activation), Linked(frames, acts),
         NEW d \in 1 .. Len(acts), NEW b \in Activation,
         StaleIn(frames, [acts EXCEPT ![d] = b])
  PROVE  StaleIn(frames, acts) \/ acts[d].kind = "body"
<1> DEFINE acts2 == [acts EXCEPT ![d] = b]
<1>1. \A e \in 1 .. Len(acts) : acts2[e] = IF e = d THEN b ELSE acts[e]
  BY ExceptSeq
<1> HIDE DEF acts2
<1>2. PICK i \in 1 .. Len(frames) :
        frames[i].kind = "catch" /\ (frames[i].act = 0 \/ acts2[frames[i].act].kind # "body")
  BY DEF StaleIn, acts2
<1>3. CASE frames[i].act = 0 \/ acts[frames[i].act].kind # "body"
  BY <1>2, <1>3 DEF StaleIn
<1>4. CASE frames[i].act # 0 /\ acts[frames[i].act].kind = "body"
  BY <1>1, <1>2, <1>4 DEF Linked
<1> QED
  BY <1>3, <1>4

(* A throw pops handlers only. *)
LEMMA StaleJump ==
  ASSUME NEW frames \in Seq(Frame), NEW acts \in Seq(Activation), Linked(frames, acts),
         NEW j \in 1 .. Len(frames), NEW b \in Activation, frames[j].act # 0,
         StaleIn(SubSeq(frames, 1, j - 1),
                 [SubSeq(acts, 1, frames[j].act) EXCEPT ![frames[j].act] = b])
  PROVE  StaleIn(frames, acts)
<1> DEFINE d == frames[j].act
           frames2 == SubSeq(frames, 1, j - 1)
           cut == SubSeq(acts, 1, d)
           acts2 == [cut EXCEPT ![d] = b]
<1>1. d \in 1 .. Len(acts) /\ Len(acts) \in Nat /\ Len(frames) \in Nat
  BY LenProperties DEF Linked
<1>2. Len(frames2) = j - 1 /\ \A i \in 1 .. j - 1 : frames2[i] = frames[i]
  <2>1. j - 1 \in 0 .. Len(frames)
    BY <1>1
  <2> QED
    BY <2>1, Prefix
<1>3. cut \in Seq(Activation) /\ Len(cut) = d /\ \A e \in 1 .. d : cut[e] = acts[e]
  <2>1. d \in 0 .. Len(acts)
    BY <1>1
  <2> HIDE DEF d
  <2> QED
    BY <2>1, Prefix
<1>4. \A e \in 1 .. d : acts2[e] = IF e = d THEN b ELSE acts[e]
  <2>1. d \in 1 .. Len(cut)
    BY <1>1, <1>3
  <2> HIDE DEF d, cut
  <2> QED
    BY <1>3, <2>1, ExceptSeq
<1>5. PICK i \in 1 .. j - 1 :
        frames2[i].kind = "catch" /\ (frames2[i].act = 0 \/ acts2[frames2[i].act].kind # "body")
  <2>1. StaleIn(frames2, acts2)
    OBVIOUS
  <2> HIDE DEF frames2, acts2
  <2> QED
    BY <1>2, <2>1 DEF StaleIn
<1> HIDE DEF d, frames2, cut, acts2
<1>6. i \in 1 .. Len(frames) /\ i < j /\ frames2[i] = frames[i]
  BY <1>1, <1>2
<1>7. CASE frames[i].act = 0
  BY <1>5, <1>6, <1>7 DEF StaleIn
<1>8. CASE frames[i].act # 0
  <2>1. frames[i].act \in 1 .. Len(acts) /\ frames[i].act < d
    BY <1>6, <1>8 DEF Linked, d
  <2>2. frames[i].act \in 1 .. d /\ frames[i].act # d
    BY <1>1, <2>1
  <2>3. acts2[frames[i].act] = acts[frames[i].act]
    BY <1>4, <2>2
  <2> QED
    BY <1>5, <1>6, <1>8, <2>3 DEF StaleIn
<1> QED
  BY <1>7, <1>8

-----------------------------------------------------------------------------
(* The steps.                                                              *)

Control == [d \in 1 .. Depth |-> cstack[d].kind]

(* What a step starts from, and what it does to the mapped variables.      *)
LEMMA Types ==
  ASSUME IInv
  PROVE  /\ callstack \in Seq(Frame) /\ cstack \in Seq(Activation)
         /\ Depth \in Nat /\ Depth = Len(cstack)
         /\ Control = ControlOf(cstack) /\ (Stale <=> StaleIn(callstack, cstack))
         /\ Control \in Seq(Kind) /\ Len(Control) = Depth
         /\ \A d \in 1 .. Depth : Control[d] = cstack[d].kind
         /\ cstack # <<>> => Control # <<>> /\ Depth \in 1 .. Depth
<1>1. callstack \in Seq(Frame) /\ cstack \in Seq(Activation)
  BY DEF IInv, TypeOK
<1>2. Depth \in Nat /\ Depth = Len(cstack)
  BY <1>1, LenProperties DEF Depth
<1>3. Control = ControlOf(cstack) /\ (Stale <=> StaleIn(callstack, cstack))
  BY <1>1, Mapping DEF Control
<1>4. Control \in Seq(Kind) /\ Len(Control) = Depth
  BY <1>1, <1>2, <1>3, ControlSeq
<1>5. \A d \in 1 .. Depth : Control[d] = cstack[d].kind
  BY DEF Control
<1>6. cstack # <<>> => Control # <<>> /\ Depth \in 1 .. Depth
  BY <1>1, <1>2, <1>4, EmptySeq
<1> QED
  BY <1>1, <1>2, <1>3, <1>4, <1>5, <1>6

LEMMA After ==
  ASSUME IInv'
  PROVE  Control' = ControlOf(cstack') /\ (Stale' <=> StaleIn(callstack', cstack'))
<1>1. callstack' \in Seq(Frame)
  BY DEF IInv, TypeOK
<1>2. DOMAIN callstack' = 1 .. Len(callstack')
  BY <1>1, LenProperties
<1> QED
  BY <1>2 DEF Control, ControlOf, Stale, StaleIn, Depth

LEMMA StaleKept ==
  ASSUME IInv, IInv', StaleIn(callstack', cstack') <=> StaleIn(callstack, cstack)
  PROVE  Stale' = Stale
<1>1. Stale' <=> Stale
  BY Types, After
<1>2. Stale \in BOOLEAN /\ Stale' \in BOOLEAN
  BY DEF Stale
<1> QED
  BY <1>1, <1>2

(* Entering maps to Enter, or to Report. *)
LEMMA EnterPromise ==
  ASSUME IInv, IInv', status = "running", UNCHANGED status,
         NEW a \in Activation, cstack' = Append(cstack, a),
         StaleIn(callstack', cstack') <=> StaleIn(callstack, cstack),
         a.kind \in {"call", "throw", "eval", "body", "report"}
  PROVE  Promise!Next
<1>1. Control' = Append(Control, a.kind)
  BY Types, After, ControlAppend
<1>2. Stale' = Stale
  BY StaleKept
<1>3. CASE a.kind = "report"
  BY <1>1, <1>2, <1>3 DEF Promise!Next, Promise!Report, Control
<1>4. CASE a.kind \in Promise!Opened
  <2>1. Promise!Enter(a.kind)
    BY <1>1, <1>2 DEF Promise!Enter, Control
  <2> QED
    BY <1>4, <2>1 DEF Promise!Next
<1> QED
  BY <1>3, <1>4 DEF Promise!Opened

LEMMA LeavePromise ==
  ASSUME IInv, IInv', status = "running", UNCHANGED status, cstack # <<>>,
         cstack' = SubSeq(cstack, 1, Depth - 1),
         StaleIn(callstack', cstack') => StaleIn(callstack, cstack) \/ cstack[Depth].kind = "body"
  PROVE  Promise!Next
<1>1. Depth - 1 \in 0 .. Len(cstack)
  BY Types
<1>2. Control' = SubSeq(Control, 1, Depth - 1)
  BY <1>1, Types, After, ControlPrefix
<1>3. Stale' => Stale \/ Control[Depth] = "body"
  BY Types, After
<1>4. Control # <<>> /\ Len(Control) = Depth
  BY Types
<1>5. Promise!Leave
  BY <1>2, <1>3, <1>4 DEF Promise!Leave, Promise!Depth, Control
<1> QED
  BY <1>5 DEF Promise!Next

(* A report maps to Report, whatever frame it is thrown from. *)
LEMMA UnhandledPromise ==
  ASSUME IInv, IInv', status = "running", NEW attached \in BOOLEAN,
         NEW frames, Unhandled(frames, attached),
         StaleIn(frames, cstack) <=> StaleIn(callstack, cstack),
         frames \in Seq(Frame), Linked(frames, cstack)
  PROVE  Promise!Next
<1> DEFINE a == [Blank EXCEPT !.kind = "report", !.attached = attached]
<1>1. a \in Activation /\ a.kind = "report"
  BY BlankIsActivation, EnteredActivations
<1>2. callstack' = frames /\ cstack' = Append(cstack, a) /\ UNCHANGED status
  BY DEF Unhandled
<1> HIDE DEF a
<1>3. StaleIn(callstack', cstack') <=> StaleIn(callstack, cstack)
  BY <1>1, <1>2, Types, StaleEnter
<1> QED
  BY <1>1, <1>2, <1>3, EnterPromise

(* A throw that has found frame j.  Every open body has a frame, and those *)
(* of bodies inside j's try statement are in front of j: the search would  *)
(* have met them first.                                                    *)
LEMMA JumpPromise ==
  ASSUME IInv, IInv', status = "running",
         NEW frames \in Seq(Frame), Linked(frames, cstack),
         StaleIn(frames, cstack) <=> StaleIn(callstack, cstack),
         NEW i \in 1 .. Len(frames), Inside(frames, i),
         NEW j \in Handlers(frames, i), \A k \in Handlers(frames, i) : k <= j,
         JumpTo(frames, j)
  PROVE  Promise!Next
<1> DEFINE d == frames[j].act
           b == [cstack[d] EXCEPT !.kind = "catch", !.catches = @ + 1]
           cut == SubSeq(cstack, 1, d)
<1>1. /\ cstack \in Seq(Activation) /\ Depth \in Nat /\ Depth = Len(cstack)
      /\ Control = ControlOf(cstack) /\ Len(Control) = Depth
      /\ \A e \in 1 .. Depth : Control[e] = cstack[e].kind
      /\ Len(frames) \in Nat
  BY Types, LenProperties
<1>2. j \in 1 .. Len(frames) /\ j <= i /\ frames[j].kind = "catch"
  BY <1>1 DEF Handlers
<1>3. Stale <=> StaleIn(frames, cstack)
  BY Types
<1>4. CASE d = 0 /\ status' = "undefined" /\ UNCHANGED cstack
  <2>1. Stale
    BY <1>2, <1>3, <1>4 DEF StaleIn
  <2>2. UNCHANGED Control
    BY <1>4 DEF Control, Depth
  <2> QED
    BY <1>4, <2>1, <2>2 DEF Promise!Next, Promise!Done, Control
<1>5. ASSUME d # 0
      PROVE  /\ d \in 1 .. Depth /\ cstack[d].kind \in {"body", "finally"}
             /\ cstack[d] \in Activation /\ Counted(cstack[d]) /\ cstack[d].catches = 0
             /\ cstack[d].kind = "finally" => Stale
  <2>1. d \in 1 .. Len(cstack) /\ OwnerIn(cstack, d) /\ KindIn(cstack, d) = "catch"
    BY <1>2, <1>5 DEF Linked
  <2>2. cstack[d].kind \in {"body", "finally"}
    BY <2>1 DEF KindIn, OwnerIn, TryBlock
  <2>3. cstack[d] \in Activation /\ Counted(cstack[d])
    <3> HIDE DEF d
    <3> QED
      BY <1>1, <2>1, ElementOfSeq DEF IInv, StackInv, Counts
  <2>4. cstack[d].catches = 0
    BY <2>1, <2>2, <2>3 DEF OwnerIn, Counted, TryBlock
  <2>5. cstack[d].kind = "finally" => Stale
    BY <1>2, <1>3 DEF StaleIn
  <2> QED
    BY <1>1, <2>1, <2>2, <2>3, <2>4, <2>5
<1>6. CASE d # 0 /\ status' = "crashed" /\ UNCHANGED cstack
  <2>1. UNCHANGED Control
    BY <1>6 DEF Control, Depth
  <2>2. d \in 1 .. Len(Control) /\ Control[d] \in {"body", "finally"}
    BY <1>1, <1>5, <1>6
  <2>3. Stale' => Stale
    <3>1. callstack' = SubSeq(frames, 1, j - 1)
      BY DEF JumpTo
    <3>2. j - 1 \in 0 .. Len(frames)
      BY <1>1, <1>2
    <3>3. Len(callstack') = j - 1 /\ \A k \in 1 .. j - 1 : callstack'[k] = frames[k]
      BY <3>1, <3>2, Prefix
    <3>4. 1 .. j - 1 \subseteq 1 .. Len(frames)
      BY <1>1, <1>2
    <3>5. StaleIn(callstack', cstack) => StaleIn(frames, cstack)
      BY <3>3, <3>4 DEF StaleIn
    <3>6. Stale' <=> StaleIn(callstack', cstack')
      BY After
    <3> QED
      BY <1>3, <1>6, <3>5, <3>6
  <2>4. Promise!Done
    BY <1>6, <2>1, <2>2, <2>3 DEF Promise!Done, Promise!Depth, Control
  <2> QED
    BY <2>4 DEF Promise!Next
<1>7. CASE /\ d # 0 /\ UNCHANGED status
           /\ cstack' = [cut EXCEPT ![d].kind = "catch", ![d].catches = @ + 1]
  <2>1. b \in Activation /\ b.kind = "catch"
    BY <1>5, <1>7, CatchActivation DEF TryBlock
  <2>2. d \in 1 .. Depth /\ d \in 0 .. Len(cstack) /\ d \in 1 .. d
    BY <1>1, <1>5, <1>7
  <2>3. cut \in Seq(Activation) /\ Len(cut) = d /\ cut[d] = cstack[d]
    <3> HIDE DEF d
    <3> QED
      BY <1>1, <2>2, Prefix
  <2>4. cstack' = [cut EXCEPT ![d] = b]
    <3>1. cstack[d] \in Activation /\ d \in DOMAIN cut
      BY <1>5, <1>7, <2>2, <2>3, LenProperties
    <3> HIDE DEF d, cut
    <3> QED
      BY <1>7, <2>3, <3>1 DEF Activation
  <2>5. Control' = [SubSeq(Control, 1, d) EXCEPT ![d] = "catch"]
    <3>1. ControlOf(cut) = SubSeq(Control, 1, d)
      <4> HIDE DEF d
      <4> QED
        BY <1>1, <2>2, ControlPrefix
    <3>2. d \in 1 .. Len(cut)
      BY <2>2, <2>3
    <3>3. ControlOf([cut EXCEPT ![d] = b]) = [ControlOf(cut) EXCEPT ![d] = b.kind]
      <4> HIDE DEF cut, b, d
      <4> QED
        BY <2>1, <2>3, <3>2, ControlReplace
    <3>4. Control' = ControlOf(cstack')
      BY After
    <3> HIDE DEF cut, b, d
    <3> QED
      BY <2>1, <2>4, <3>1, <3>3, <3>4
  <2>6. \A e \in d + 1 .. Depth : Control[e] # "body"
    <3> SUFFICES ASSUME NEW e \in d + 1 .. Depth, Control[e] = "body"
                 PROVE  FALSE
      OBVIOUS
    <3>1. e \in 1 .. Len(cstack) /\ cstack[e].kind = "body" /\ d < e /\ e # 0
      BY <1>1, <2>2
    <3>2. PICK k \in 1 .. Len(frames) : frames[k].act = e
      BY <3>1 DEF Linked, OwnerIn
    <3>3. frames[k].kind = "catch"
      BY <3>1, <3>2 DEF Linked, KindIn, TryBlock
    <3>4. j < k
      <4>1. k # j /\ ~ (k < j)
        BY SMTT(40), <1>2, <1>7, <3>1, <3>2, <2>2 DEF Linked
      <4> QED
        BY <1>1, <1>2, <4>1
    <3>5. k <= i
      <4>1. CASE i = Len(frames)
        BY <1>1, <4>1
      <4>2. CASE i # Len(frames)
        <5>1. frames[i].act = Len(cstack) /\ e # Len(cstack)
          BY <3>1, <4>2 DEF Inside
        <5>2. frames[k].act < frames[i].act
          BY <1>1, <2>2, <3>1, <3>2, <5>1
        <5>3. frames[k].act # 0 /\ frames[i].act # 0
          BY <1>1, <2>2, <3>1, <3>2, <5>1
        <5>4. \A m \in 1 .. Len(frames) : frames[m].act \in Nat
          BY ActsAreNumbers
        <5>5. i # k /\ ~ (i < k)
          BY <3>2, <5>2, <5>3, <5>4 DEF Linked
        <5> QED
          BY <1>1, <3>2, <5>5
      <4> QED
        BY <4>1, <4>2
    <3>6. k \in Handlers(frames, i)
      BY <1>1, <3>3, <3>5 DEF Handlers
    <3> QED
      BY <1>1, <1>2, <3>4, <3>6
  <2>7. Stale' => Stale
    <3>1. callstack' = SubSeq(frames, 1, j - 1)
      BY DEF JumpTo
    <3>2. Stale' <=> StaleIn(callstack', cstack')
      BY After
    <3>3. StaleIn(SubSeq(frames, 1, j - 1), [SubSeq(cstack, 1, d) EXCEPT ![d] = b])
            => StaleIn(frames, cstack)
      <4> HIDE DEF b
      <4> QED
        BY <1>1, <1>2, <1>7, <2>1, StaleJump
    <3> HIDE DEF b
    <3> QED
      BY <1>3, <2>4, <3>1, <3>2, <3>3
  <2>8. Control[d] \in {"body"} \cup (IF Stale THEN {"finally"} ELSE {})
    BY <1>1, <1>5, <1>7
  <2>9. d \in 1 .. Len(Control)
    BY <1>1, <2>2
  <2> HIDE DEF d
  <2>10. Promise!Catch(d)
    BY <1>1, <1>7, <2>5, <2>6, <2>7, <2>8 DEF Promise!Catch, Promise!Depth, Control
  <2> QED
    BY <2>9, <2>10 DEF Promise!Next, Promise!Depth, Control
<1> QED
  BY <1>4, <1>6, <1>7 DEF JumpTo

LEMMA ThrowPromise ==
  ASSUME IInv, IInv', status = "running",
         NEW frames \in Seq(Frame), Linked(frames, cstack),
         StaleIn(frames, cstack) <=> StaleIn(callstack, cstack),
         NEW i \in 1 .. Len(frames), Inside(frames, i), Throw(frames, i)
  PROVE  Promise!Next
<1>1. CASE Unhandled(frames, TRUE)
  BY <1>1, UnhandledPromise
<1>2. CASE \E j \in Handlers(frames, i) :
             (\A k \in Handlers(frames, i) : k <= j) /\ JumpTo(frames, j)
  BY <1>2, JumpPromise
<1> QED
  BY <1>1, <1>2 DEF Throw

(* An activation that pushes its frame. *)
LEMMA PushPromise ==
  ASSUME IInv, IInv', status = "running", Room, UNCHANGED status,
         NEW a \in Activation, a.kind \in {"call", "throw", "body"},
         callstack' = Pushed(IF a.kind = "body" THEN "catch" ELSE "plain", Depth + 1),
         cstack' = Append(cstack, a)
  PROVE  Promise!Next
<1> DEFINE kind == IF a.kind = "body" THEN "catch" ELSE "plain"
<1>1. /\ callstack \in Seq(Frame) /\ cstack \in Seq(Activation)
      /\ Linked(callstack, cstack) /\ Len(cstack) < MaxDepth
  BY Types DEF IInv, Room, Depth
<1>2. kind \in {"plain", "catch"} /\ (kind = "catch" => a.kind = "body")
  OBVIOUS
<1>3. callstack' = Append(callstack, [kind |-> kind, act |-> Len(cstack) + 1])
  BY DEF Pushed, Depth
<1> HIDE DEF kind
<1>4. StaleIn(callstack', cstack') <=> StaleIn(callstack, cstack)
  <2>1. StaleIn(Append(callstack, [kind |-> kind, act |-> Len(cstack) + 1]), Append(cstack, a))
          <=> StaleIn(callstack, cstack)
    BY <1>1, <1>2, StalePush
  <2> QED
    BY <1>3, <2>1
<1> QED
  BY <1>4, EnterPromise

LEMMA CallPromise == IInv /\ IInv' /\ Call => Promise!Next
<1> SUFFICES ASSUME IInv, IInv', Call PROVE Promise!Next
  OBVIOUS
<1>1. Blank \in Activation /\ Blank.kind = "call"
  BY BlankIsActivation
<1>2. callstack' = Pushed(IF Blank.kind = "body" THEN "catch" ELSE "plain", Depth + 1)
  BY <1>1 DEF Call
<1> QED
  BY <1>1, <1>2, PushPromise DEF Call

LEMMA EnterTryPromise ==
  ASSUME NEW handler \in BOOLEAN, NEW final \in BOOLEAN, IInv, IInv', EnterTry(handler, final)
  PROVE  Promise!Next
<1> DEFINE a == [Blank EXCEPT !.kind = "body", !.handler = handler, !.final = final]
<1>1. a \in Activation /\ a.kind = "body"
  BY BlankIsActivation, TriedActivation
<1>2. /\ callstack' = Pushed("catch", Depth + 1) /\ cstack' = Append(cstack, a)
      /\ Room /\ status = "running" /\ UNCHANGED status
  BY DEF EnterTry, InScript
<1> HIDE DEF a
<1>3. callstack' = Pushed(IF a.kind = "body" THEN "catch" ELSE "plain", Depth + 1)
  BY <1>1, <1>2
<1> QED
  BY <1>1, <1>2, <1>3, PushPromise

LEMMA BeginThrowPromise == IInv /\ IInv' /\ BeginThrow => Promise!Next
<1> SUFFICES ASSUME IInv, IInv', BeginThrow PROVE Promise!Next
  OBVIOUS
<1> DEFINE a == [Blank EXCEPT !.kind = "throw"]
<1>1. a \in Activation /\ a.kind = "throw"
  BY BlankIsActivation, EnteredActivations
<1>2. /\ callstack' = Pushed("plain", Depth + 1) /\ cstack' = Append(cstack, a)
      /\ Room /\ status = "running" /\ UNCHANGED status
  BY DEF BeginThrow, InScript
<1> HIDE DEF a
<1>3. callstack' = Pushed(IF a.kind = "body" THEN "catch" ELSE "plain", Depth + 1)
  BY <1>1, <1>2
<1> QED
  BY <1>1, <1>2, <1>3, PushPromise

LEMMA EnterEvalPromise == IInv /\ IInv' /\ EnterEval => Promise!Next
<1> SUFFICES ASSUME IInv, IInv', EnterEval PROVE Promise!Next
  OBVIOUS
<1> DEFINE a == [Blank EXCEPT !.kind = "eval", !.saved = interactive]
<1>1. interactive \in BOOLEAN /\ Linked(callstack, cstack)
  BY DEF IInv, TypeOK, EnterEval, InScript
<1>2. a \in Activation /\ a.kind = "eval"
  BY <1>1, BlankIsActivation, EnteredActivations
<1>3. /\ cstack' = Append(cstack, a) /\ status = "running" /\ UNCHANGED <<callstack, status>>
  BY DEF EnterEval, InScript
<1> HIDE DEF a
<1>4. StaleIn(callstack', cstack') <=> StaleIn(callstack, cstack)
  BY <1>1, <1>2, <1>3, Types, StaleEnter
<1> QED
  BY <1>2, <1>3, <1>4, EnterPromise

LEMMA ReturnPromise == IInv /\ IInv' /\ Return => Promise!Next
<1> SUFFICES ASSUME IInv, IInv', Return PROVE Promise!Next
  OBVIOUS
<1>1. callstack \in Seq(Frame) /\ cstack \in Seq(Activation) /\ Linked(callstack, cstack)
  BY DEF IInv, TypeOK, Return
<1>2. cstack # <<>> /\ cstack[Len(cstack)].kind = "call"
  BY DEF Return, Top, Depth
<1>3. Len(callstack) > 0
  BY <1>1, <1>2, LinkReturn
<1>4. Popped = SubSeq(callstack, 1, Len(callstack) - 1)
  BY <1>1, <1>3, EmptySeq DEF Popped
<1>5. /\ callstack' = Orphaned(SubSeq(callstack, 1, Len(callstack) - 1), Len(cstack))
      /\ cstack' = SubSeq(cstack, 1, Len(cstack) - 1)
  BY <1>4 DEF Return, Depth
<1>6. StaleIn(callstack', cstack') => StaleIn(callstack, cstack)
  BY <1>1, <1>2, <1>5, StaleReturn
<1> QED
  BY <1>2, <1>6, LeavePromise DEF Return

LEMMA LeaveEvalPromise == IInv /\ IInv' /\ LeaveEval => Promise!Next
<1> SUFFICES ASSUME IInv, IInv', LeaveEval PROVE Promise!Next
  OBVIOUS
<1>1. callstack \in Seq(Frame) /\ cstack \in Seq(Activation) /\ Linked(callstack, cstack)
  BY DEF IInv, TypeOK, LeaveEval
<1>2. cstack # <<>> /\ cstack[Len(cstack)].kind = "eval"
  BY DEF LeaveEval, Top, Depth
<1>3. callstack' = callstack /\ cstack' = SubSeq(cstack, 1, Len(cstack) - 1)
  BY DEF LeaveEval, Depth
<1>4. StaleIn(callstack', cstack') => StaleIn(callstack, cstack)
  BY <1>1, <1>2, <1>3, StaleLeaveEval
<1> QED
  BY <1>2, <1>4, LeavePromise DEF LeaveEval

LEMMA LeaveTryPromise == IInv /\ IInv' /\ LeaveTry => Promise!Next
<1> SUFFICES ASSUME IInv, IInv', LeaveTry PROVE Promise!Next
  OBVIOUS
<1>1. callstack \in Seq(Frame) /\ cstack \in Seq(Activation) /\ Linked(callstack, cstack)
  BY DEF IInv, TypeOK, LeaveTry
<1>2. cstack # <<>>
  BY DEF LeaveTry
<1>3. /\ callstack' = Orphaned(callstack, Len(cstack))
      /\ cstack' = SubSeq(cstack, 1, Len(cstack) - 1)
  BY DEF LeaveTry, Depth
<1>4. StaleIn(callstack', cstack')
        => StaleIn(callstack, cstack) \/ cstack[Depth].kind = "body"
  BY <1>1, <1>2, <1>3, StaleLeaveTry DEF Depth
<1> QED
  BY <1>2, <1>4, LeavePromise DEF LeaveTry

LEMMA BeginFinallyPromise == IInv /\ IInv' /\ BeginFinally => Promise!Next
<1> SUFFICES ASSUME IInv, IInv', BeginFinally PROVE Promise!Next
  OBVIOUS
<1> DEFINE b == [cstack[Depth] EXCEPT !.kind = "finally", !.finals = @ + 1]
<1>1. /\ callstack \in Seq(Frame) /\ cstack \in Seq(Activation) /\ Linked(callstack, cstack)
      /\ status = "running" /\ UNCHANGED <<callstack, status>>
  BY DEF IInv, TypeOK, BeginFinally
<1>2. cstack # <<>> /\ Depth \in 1 .. Len(cstack)
  BY <1>1, LenProperties, EmptySeq DEF BeginFinally, Depth
<1>3. cstack[Depth] \in Activation /\ cstack[Depth].kind \in {"body", "catch"} /\ Counted(cstack[Depth])
  BY <1>1, <1>2, ElementOfSeq DEF IInv, StackInv, Counts, BeginFinally, Top
<1>4. b \in Activation /\ b.kind = "finally"
  BY <1>3, FinallyActivation
<1>5. cstack' = [cstack EXCEPT ![Depth] = b]
  BY <1>1, <1>2, <1>3 DEF BeginFinally, Activation
<1> HIDE DEF b
<1>6. Control' = [Control EXCEPT ![Depth] = "finally"]
  <2>1. ControlOf([cstack EXCEPT ![Depth] = b]) = [ControlOf(cstack) EXCEPT ![Depth] = b.kind]
    BY <1>1, <1>2, <1>4, ControlReplace
  <2>2. Control' = ControlOf(cstack') /\ Control = ControlOf(cstack)
    BY Types, After
  <2> QED
    BY <1>4, <1>5, <2>1, <2>2
<1>7. Stale' => Stale \/ cstack[Depth].kind = "body"
  BY <1>1, <1>2, <1>4, <1>5, Types, After, StaleFinally
<1>8. Control # <<>> /\ Len(Control) = Depth /\ Control[Depth] = cstack[Depth].kind
  BY <1>2, Types
<1>9. Promise!BeginFinally
  BY <1>1, <1>3, <1>6, <1>7, <1>8 DEF Promise!BeginFinally, Promise!Depth, Control
<1> QED
  BY <1>1, <1>9 DEF Promise!Next

LEMMA ThrowFromFramePromise == IInv /\ IInv' /\ ThrowFromFrame => Promise!Next
<1> SUFFICES ASSUME IInv, IInv', ThrowFromFrame PROVE Promise!Next
  OBVIOUS
<1>1. /\ callstack \in Seq(Frame) /\ Linked(callstack, cstack) /\ status = "running"
      /\ cstack[Len(cstack)].kind # "body"
  BY DEF IInv, TypeOK, ThrowFromFrame, Top, Depth
<1>2. PICK i \in DOMAIN callstack : callstack[i].act = Len(cstack) /\ Throw(callstack, i)
  BY DEF ThrowFromFrame, Depth
<1>3. i \in 1 .. Len(callstack)
  BY <1>1, <1>2, LenProperties
<1>4. Inside(callstack, i)
  BY <1>1, <1>2 DEF Inside
<1> QED
  BY <1>1, <1>2, <1>3, <1>4, ThrowPromise

LEMMA ThrowFromNewFramePromise == IInv /\ IInv' /\ ThrowFromNewFrame => Promise!Next
<1> SUFFICES ASSUME IInv, IInv', ThrowFromNewFrame PROVE Promise!Next
  OBVIOUS
<1> DEFINE frames == Pushed("plain", 0)
<1>1. /\ callstack \in Seq(Frame) /\ cstack \in Seq(Activation)
      /\ Linked(callstack, cstack) /\ status = "running"
  BY DEF IInv, TypeOK, ThrowFromNewFrame, InScript
<1>2. frames \in Seq(Frame) /\ Linked(frames, cstack)
  BY <1>1, LinkPlain DEF Pushed
<1>3. StaleIn(frames, cstack) <=> StaleIn(callstack, cstack)
  BY <1>1, StalePlain DEF Pushed
<1>4. Len(frames) = Len(callstack) + 1 /\ Len(callstack) \in Nat
  <2>1. [kind |-> "plain", act |-> 0] \in Frame
    BY CallstackAssumption DEF Frame
  <2> QED
    BY <1>1, <2>1, AppendProperties, LenProperties DEF Pushed
<1>5. Throw(frames, Len(callstack) + 1)
  BY DEF ThrowFromNewFrame
<1> HIDE DEF frames
<1>6. Len(callstack) + 1 \in 1 .. Len(frames) /\ Inside(frames, Len(callstack) + 1)
  BY <1>4 DEF Inside
<1> QED
  BY <1>1, <1>2, <1>3, <1>5, <1>6, ThrowPromise

LEMMA DetachedPromise ==
  ASSUME IInv, IInv', status = "running", Unhandled(callstack, FALSE)
  PROVE  Promise!Next
<1>1. callstack \in Seq(Frame) /\ Linked(callstack, cstack)
  BY DEF IInv, TypeOK
<1> QED
  BY <1>1, UnhandledPromise

LEMMA EndReportPromise == IInv /\ IInv' /\ EndReport => Promise!Next
<1> SUFFICES ASSUME IInv, IInv', EndReport PROVE Promise!Next
  OBVIOUS
<1>1. Control # <<>> /\ Len(Control) = Depth /\ Control[Depth] = "report" /\ status = "running"
  BY Types DEF EndReport, Top
<1>2. CASE interactive
  <2>1. callstack' = <<>> /\ cstack' = <<>> /\ UNCHANGED status
    BY <1>2 DEF EndReport
  <2>2. Len(cstack') = 0 /\ Len(callstack') = 0
    BY <2>1
  <2>3. Control' = <<>>
    <3>1. ControlOf(<<>>) \in Seq(Kind) /\ Len(ControlOf(<<>>)) = 0
      BY ControlSeq, EmptySeq
    <3> QED
      BY <2>1, <3>1, After, EmptySeq
  <2>4. Stale' = FALSE
    <3>1. ~ Stale'
      BY <2>2, After DEF StaleIn
    <3> QED
      BY <3>1 DEF Stale
  <2>5. Promise!Recover
    BY <1>1, <2>1, <2>3, <2>4 DEF Promise!Recover, Promise!Depth, Control
  <2> QED
    BY <1>1, <2>5 DEF Promise!Next
<1>3. CASE ~ interactive
  <2>1. status' = "exited" /\ UNCHANGED <<callstack, cstack>>
    BY <1>3 DEF EndReport
  <2>2. UNCHANGED <<Control, Stale>>
    BY <2>1 DEF Control, Stale, Depth
  <2>3. Promise!Exit
    BY <1>1, <2>1, <2>2 DEF Promise!Exit, Promise!Depth, Control
  <2> QED
    BY <1>1, <2>3 DEF Promise!Next
<1> QED
  BY <1>2, <1>3

LEMMA FinishPromise == IInv /\ Finish => Promise!Next
<1> SUFFICES ASSUME IInv, Finish PROVE Promise!Next
  OBVIOUS
<1>1. cstack = <<>> /\ status = "running" /\ status' = "done" /\ UNCHANGED <<callstack, cstack>>
  BY DEF Finish
<1>2. Control = <<>>
  BY <1>1, Types, EmptySeq
<1>3. UNCHANGED <<Control, Stale>>
  BY <1>1 DEF Control, Stale, Depth
<1>4. Promise!Done
  BY <1>1, <1>2, <1>3 DEF Promise!Done, Control
<1> QED
  BY <1>1, <1>4 DEF Promise!Next

(* The empty stacks map to no construct and no stale handler. *)
LEMMA InitPromise == Init => Promise!Init
<1> SUFFICES ASSUME Init PROVE Promise!Init
  OBVIOUS
<1>1. IInv
  BY InitIInv
<1>2. callstack = <<>> /\ cstack = <<>> /\ status = "running"
  BY DEF Init
<1>3. Control = <<>>
  BY <1>1, <1>2, Types, EmptySeq
<1>4. Stale = FALSE
  <2>1. Len(callstack) = 0
    BY <1>2
  <2>2. ~ Stale
    BY <1>1, <2>1, Types DEF StaleIn
  <2> QED
    BY <2>2 DEF Stale
<1> QED
  BY <1>2, <1>3, <1>4 DEF Promise!Init, Control

LEMMA StepPromise ==
  IInv /\ IInv' /\ [Next]_vars => [Promise!Next]_(Promise!vars)
<1> SUFFICES ASSUME IInv, IInv', [Next]_vars PROVE [Promise!Next]_(Promise!vars)
  OBVIOUS
<1>1. CASE Call
  BY <1>1, CallPromise
<1>2. CASE Return
  BY <1>2, ReturnPromise
<1>3. CASE EnterEval
  BY <1>3, EnterEvalPromise
<1>4. CASE LeaveEval
  BY <1>4, LeaveEvalPromise
<1>5. CASE \E handler, final \in BOOLEAN : EnterTry(handler, final)
  BY <1>5, EnterTryPromise
<1>6. CASE BeginFinally
  BY <1>6, BeginFinallyPromise
<1>7. CASE LeaveTry
  BY <1>7, LeaveTryPromise
<1>8. CASE BeginThrow
  BY <1>8, BeginThrowPromise
<1>9. CASE ThrowFromFrame
  BY <1>9, ThrowFromFramePromise
<1>10. CASE ThrowFromNewFrame
  BY <1>10, ThrowFromNewFramePromise
<1>11. CASE ThrowDetached \/ ReadLine
  BY <1>11, DetachedPromise DEF ThrowDetached, ReadLine
<1>12. CASE EndReport
  BY <1>12, EndReportPromise
<1>13. CASE Finish
  BY <1>13, FinishPromise
<1>14. CASE Ended \/ UNCHANGED vars
  BY <1>14 DEF Ended, vars, Promise!vars, Stale, Depth
<1> QED
  BY <1>1, <1>2, <1>3, <1>4, <1>5, <1>6, <1>7, <1>8, <1>9, <1>10, <1>11, <1>12, <1>13, <1>14
  DEF Next

(* The frames of flathead.c and eval.c keep the promise: an error goes to  *)
(* the innermost open try body, whatever frames completed try statements   *)
(* have left on the callstack, and only once there is such a frame may it  *)
(* go to a try statement that is past its body, or into nowhere.           *)
THEOREM CallstackImplementsUnwinding == Spec => ImplementsUnwinding
BY InitPromise, InitIInv, NextIInv, StepPromise, PTL
   DEF Spec, ImplementsUnwinding, Promise!Spec
=============================================================================
