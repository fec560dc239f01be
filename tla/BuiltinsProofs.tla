--------------------------- MODULE BuiltinsProofs ---------------------------
(***************************************************************************)
(* Theorems about Objects, for any number of objects and of open           *)
(* constructions: chains of prototypes end since an object is linked only  *)
(* to what existed before it.                                              *)
(*                                                                         *)
(* Theorems about Dates, for every clock, range, zone and argument: the    *)
(* arithmetic of module Calendar is that of the calendar's rules, for all  *)
(* times, and what the methods set and the texts show follows.             *)
(*                                                                         *)
(* Theorems about Primitives, for any operands, texts, patterns and        *)
(* bounds: values keep their types whatever a script does, operators agree *)
(* with one arithmetic and one order, slices with the characters between   *)
(* their bounds, and lengths follow their texts.                           *)
(***************************************************************************)
EXTENDS Objects, Dates, Primitives, DataLemmas, WellFoundedInduction, TLAPS

LEMMA Constants == /\ NumObjects \in Nat /\ NumObjects >= 2 /\ MaxNew \in Nat /\ Returns \in BOOLEAN
                   /\ object_proto \in Object /\ function_proto \in Object /\ NULL \notin Object
  BY ObjectsAssumption DEF object_proto, function_proto, Object, NULL

-----------------------------------------------------------------------------
(* Types.                                                                  *)

LEMMA CreatedType ==
  ASSUME TypeOK, NEW p \in Existing \cup {NULL}, Created(p)
  PROVE  /\ count \in Object /\ count' = count + 1 /\ count' \in 2 .. NumObjects
         /\ proto' \in [Object -> Object \cup {NULL}]
         /\ Existing \subseteq Existing'
        /\ \A o \in Object : prop[o].ptr < count'
<1>1. /\ count \in Object /\ count' = count + 1 /\ count' \in 2 .. NumObjects
      /\ Existing \subseteq Existing' /\ count \in Nat
  BY Constants DEF TypeOK, Created, Object, Existing
<1>2. proto' \in [Object -> Object \cup {NULL}]
  <2>1. p \in Object \cup {NULL}
    BY Constants DEF TypeOK, Existing, Object
  <2> QED
    BY <2>1 DEF TypeOK, Created
<1>3. \A o \in Object : prop[o].ptr \in Int /\ prop[o].ptr < count
  BY Constants DEF TypeOK, Property, Object, NULL
<1> QED
  BY <1>1, <1>2, <1>3

LEMMA PropertyType ==
  ASSUME NEW w \in Object \cup {NULL}, NEW c \in BOOLEAN
  PROVE  Present(w, c) \in Property
  BY DEF Present, Property

LEMMA InitType == Init => TypeOK
  BY Constants DEF Init, TypeOK, Existing, Object, Property, Absent, NULL, object_proto, function_proto, NewExp

LEMMA TypeStep == TypeOK /\ [Next]_vars => TypeOK'
<1> SUFFICES ASSUME TypeOK, [Next]_vars PROVE TypeOK'
  OBVIOUS
<1> USE Constants
<1>1. Existing \subseteq Object /\ \A o \in Object : prop[o].ptr \in Existing \cup {NULL}
  <2>1. \A o \in Object : prop[o].ptr \in Object \cup {NULL} /\ prop[o].ptr < count
    BY DEF TypeOK, Property
  <2> QED
    BY <2>1 DEF TypeOK, Existing, Object, NULL
<1>2. CASE NewObject
  <2>1. object_proto \in Existing
    BY <1>2 DEF TypeOK, Existing, object_proto
  <2>2. Created(object_proto) /\ UNCHANGED <<funcs, prop, news, sealed, status>>
    BY <1>2 DEF NewObject, Running
  <2> QED
    BY <2>1, <2>2, CreatedType DEF TypeOK
<1>3. CASE \E p \in Existing \cup {NULL} : Create(p)
  <2>1. PICK p \in Existing \cup {NULL} : Create(p)
    BY <1>3
  <2>2. Created(p) /\ UNCHANGED <<funcs, prop, news, sealed, status>>
    BY <2>1 DEF Create, Running
  <2> QED
    BY <2>1, <2>2, CreatedType DEF TypeOK
<1>4. CASE NewFunction
  <2>1. /\ count + 1 \in Object /\ count \in Object
        /\ count' = count + 2 /\ count' \in 2 .. NumObjects
        /\ Existing \subseteq Existing' /\ {count, count + 1, 0, 1} \subseteq Existing'
    BY <1>4 DEF NewFunction, TypeOK, Object, Existing
  <2>2. proto' \in [Object -> Object \cup {NULL}]
    BY <2>1, <1>4 DEF NewFunction, TypeOK, object_proto, function_proto
  <2>3. Present(count + 1, FALSE) \in Property /\ Present(count + 1, FALSE).ptr < count'
    <3>1. Present(count + 1, FALSE).ptr = count + 1 /\ count + 1 < count'
      BY <2>1 DEF Present, Object
    <3>2. Present(count + 1, FALSE) \in Property
      BY <2>1, PropertyType
    <3> QED
      BY <3>1, <3>2
  <2>4. prop' \in [Object -> Property] /\ \A o \in Object : prop'[o].ptr < count'
    <3>1. \A o \in Object : prop[o].ptr \in Int /\ prop[o].ptr < count /\ count < count'
      BY <2>1, <1>1 DEF Existing, NULL, Object
    <3>2. prop' = [prop EXCEPT ![count] = Present(count + 1, FALSE)]
      BY <1>4 DEF NewFunction
    <3>3. \A o \in Object : prop'[o] = IF o = count THEN Present(count + 1, FALSE) ELSE prop[o]
      BY <3>2 DEF TypeOK
    <3> QED
      <4>1. prop' \in [Object -> Property]
        BY <2>3, <3>2 DEF TypeOK
      <4>2. ASSUME NEW o \in Object PROVE prop'[o].ptr < count'
        <5>1. CASE o = count
          BY <2>3, <3>3, <5>1
        <5>2. CASE o # count
          <6>1. prop'[o] = prop[o]
            BY <3>3, <5>2
          <6>2. prop[o].ptr \in Int /\ prop[o].ptr < count /\ count < count'
            BY <3>1
          <6>3. count \in Int /\ count' \in Int
            BY <2>1 DEF Object
          <6>4. prop[o].ptr < count'
            BY <6>2, <6>3
          <6> QED
            BY <6>1, <6>4
        <5> QED
          BY <5>1, <5>2
      <4> QED
        BY <4>1, <4>2
  <2> QED
    <3>1. UNCHANGED <<news, sealed, status>> /\ funcs' = funcs \cup {count}
      BY <1>4 DEF NewFunction, Running
    <3>2. count' \in 2 .. NumObjects /\ funcs' \subseteq Existing' /\ sealed' \subseteq Existing'
      BY <2>1, <3>1 DEF TypeOK
    <3> QED
      BY <2>2, <2>4, <3>1, <3>2 DEF TypeOK
<1>5. CASE \E f \in funcs : BeginNew(f)
  <2>1. PICK f \in funcs : BeginNew(f)
    BY <1>5
  <2>2. Created(object_proto) /\ UNCHANGED <<funcs, prop, sealed, status>> /\ object_proto \in Existing
    BY <2>1 DEF BeginNew, Running, TypeOK, Existing, object_proto
  <2>3. [obj |-> count, proto |-> prop[f].ptr] \in NewExp
    BY <2>2, <1>1, CreatedType DEF NewExp, TypeOK
  <2>4. news' \in Seq(NewExp) /\ Len(news') <= MaxNew
    BY <2>1, <2>3 DEF BeginNew, TypeOK
  <2> QED
    BY <2>2, <2>4, CreatedType DEF TypeOK
<1>6. CASE \E o \in Existing : EndNew(o)
  <2>1. PICK o \in Existing : EndNew(o)
    BY <1>6
  <2>2. news' \in Seq(NewExp) /\ Len(news') <= MaxNew /\ Len(news) \in 1 .. Len(news)
    BY <2>1 DEF EndNew, TypeOK
  <2> QED
    <3>1. UNCHANGED <<count, funcs, prop, sealed, status>> /\ Existing' = Existing
      BY <2>1 DEF EndNew, Running, Existing
    <3>2. news # <<>> /\ Len(news) \in 1 .. Len(news) /\ news[Len(news)] \in NewExp
      BY <2>1 DEF EndNew, TypeOK
    <3>3. proto' \in [Object -> Object \cup {NULL}]
      BY <2>1, <3>2 DEF EndNew, TypeOK, NewExp
    <3> QED
      BY <2>2, <3>1, <3>3 DEF TypeOK
<1>7. CASE \E f \in funcs : \E w \in Existing \cup {NULL}, configurable \in BOOLEAN :
              Store(f, w) \/ Define(f, w, configurable)
  <2>1. PICK f \in funcs, w \in Existing \cup {NULL}, configurable \in BOOLEAN :
          Store(f, w) \/ Define(f, w, configurable)
    BY <1>7
  <2>2. /\ UNCHANGED <<count, funcs, proto, news, status>>
        /\ sealed' \subseteq sealed
        /\ \E c \in BOOLEAN : prop' = [prop EXCEPT ![f] = Present(w, c)]
    <3>1. prop[f].configurable \in BOOLEAN
      BY <1>1 DEF TypeOK, Property, Absent
    <3> QED
      BY <2>1, <3>1 DEF Store, Define, Running
  <2>3. PICK c \in BOOLEAN : prop' = [prop EXCEPT ![f] = Present(w, c)]
    BY <2>2
  <2>4. Present(w, c) \in Property /\ Present(w, c).ptr < count
    BY <1>1, PropertyType DEF Present, Existing, NULL, TypeOK
  <2> QED
    BY <2>2, <2>3, <2>4 DEF TypeOK, Existing
<1>8. CASE \E f \in funcs : Delete(f)
  <2>1. PICK f \in funcs : Delete(f)
    BY <1>8
  <2>2. Absent \in Property /\ Absent.ptr < count
    BY DEF Absent, Property, NULL, TypeOK
  <2> QED
    BY <2>1, <2>2 DEF Delete, TypeOK, Running, Existing
<1>9. CASE \E f \in funcs : Seal(f)
  <2>1. PICK f \in funcs : Seal(f)
    BY <1>9
  <2>2. f \in Existing /\ f \in Object
    BY <1>1 DEF TypeOK
  <2>3. /\ [prop[f] EXCEPT !.configurable = FALSE] \in Property
        /\ [prop[f] EXCEPT !.configurable = FALSE].ptr = prop[f].ptr
    BY <2>2 DEF TypeOK, Property
  <2> QED
    BY <2>1, <2>2, <2>3 DEF Seal, TypeOK, Running, Existing
<1>10. CASE Crashed \/ UNCHANGED vars
  BY <1>10 DEF Crashed, vars, TypeOK, Existing
<1> QED
  BY <1>2, <1>3, <1>4, <1>5, <1>6, <1>7, <1>8, <1>9, <1>10 DEF Next

(* The variables keep their types. *)
THEOREM TypeCorrect == Spec => []TypeOK
  BY InitType, TypeStep, PTL DEF Spec

-----------------------------------------------------------------------------
(* Chains of prototypes.                                                   *)

(* What is linked already and what open constructions will link is older   *)
(* than what it is, or will be, the prototype of.                          *)
Older ==
  /\ \A o \in Object : proto[o] < o
  /\ \A k \in 1 .. Len(news) : news[k].proto < news[k].obj

LEMMA InitOlder == Init => Older
  BY Constants DEF Init, Older, Object, NULL, object_proto, function_proto

LEMMA OlderStep ==
  ASSUME ~ Returns, TypeOK, Older, [Next]_vars
  PROVE  Older'
<1> USE Constants
<1>1. Existing \subseteq Object /\ \A o \in Object : prop[o].ptr < count
  BY DEF TypeOK, Existing, Object
<1>2. CASE NewObject \/ \E p \in Existing \cup {NULL} : Create(p)
  <2>1. PICK p \in Existing \cup {NULL} : Created(p) /\ UNCHANGED news
    BY <1>2 DEF NewObject, Create, TypeOK, Existing, object_proto
  <2>2. p < count
    BY DEF Existing, NULL, TypeOK
  <2> QED
    BY <2>1, <2>2 DEF Created, Older, TypeOK
<1>3. CASE NewFunction
  BY <1>3 DEF NewFunction, Older, TypeOK, object_proto, function_proto
<1>4. CASE \E f \in funcs : BeginNew(f)
  <2>1. PICK f \in funcs : BeginNew(f)
    BY <1>4
  <2>2. \A o \in Object : proto'[o] < o
    BY <2>1 DEF BeginNew, Created, Older, TypeOK, object_proto
  <2>3. prop[f].ptr < count
    BY <1>1 DEF TypeOK
  <2>4. \A k \in 1 .. Len(news') : news'[k].proto < news'[k].obj
    BY <2>1, <2>3, SMTT(30) DEF BeginNew, Older, TypeOK
  <2> QED
    BY <2>2, <2>4 DEF Older
<1>5. CASE \E o \in Existing : EndNew(o)
  <2>1. PICK o \in Existing : EndNew(o)
    BY <1>5
  <2> DEFINE new == news[Len(news)]
  <2>2. new \in NewExp /\ new.proto < new.obj /\ o >= new.obj
    BY <2>1 DEF EndNew, TypeOK, Older
  <2>3. new.proto < o
    BY SMTT(40), <2>2, <1>1 DEF NewExp, Object, NULL, Existing, TypeOK
  <2>4. \A p \in Object : proto'[p] < p
    BY <2>1, <2>3, <1>1 DEF EndNew, Older, TypeOK
  <2>5. \A k \in 1 .. Len(news') : k \in 1 .. Len(news) /\ news'[k] = news[k]
    BY <2>1 DEF EndNew, TypeOK
  <2> QED
    BY <2>4, <2>5 DEF Older
<1>6. CASE UNCHANGED <<proto, news>>
  BY <1>6 DEF Older
<1>7. CASE \E f \in funcs :
              \/ \E w \in Existing \cup {NULL}, configurable \in BOOLEAN :
                   Store(f, w) \/ Define(f, w, configurable)
              \/ Delete(f)
              \/ Seal(f)
  BY <1>6, <1>7 DEF Store, Define, Delete, Seal
<1> QED
  BY <1>2, <1>3, <1>4, <1>5, <1>6, <1>7 DEF Next, Crashed, vars

LEMMA OlderEnds ==
  ASSUME Older, TypeOK
  PROVE  ProtoChainsEnd
<1> SUFFICES ASSUME NEW S \in (SUBSET Object) \ {{}} PROVE \E o \in S : proto[o] \notin S
  BY DEF ProtoChainsEnd
<1>1. S \subseteq Nat /\ S # {}
  BY Constants DEF Object
<1>2. PICK o \in S : \A p \in S : <<p, o>> \notin OpToRel(<, Nat)
  BY <1>1, NatLessThanWellFounded, WFMin
<1>3. \A p \in S : ~ (p < o)
  BY <1>1, <1>2 DEF OpToRel
<1> QED
  BY <1>3 DEF Older

(* When constructors return no older object, chains of prototypes end. *)
THEOREM ChainsEnd == ~ Returns => (Spec => []ProtoChainsEnd)
<1> SUFFICES ASSUME ~ Returns PROVE Spec => []ProtoChainsEnd
  OBVIOUS
<1>1. Init => TypeOK /\ Older
  BY InitType, InitOlder
<1>2. TypeOK /\ Older /\ [Next]_vars => (TypeOK /\ Older)'
  BY TypeStep, OlderStep
<1>3. TypeOK /\ Older => ProtoChainsEnd
  BY OlderEnds
<1> QED
  BY <1>1, <1>2, <1>3, PTL DEF Spec

-----------------------------------------------------------------------------
(* When constructors return no older object, an object's prototype changes *)
(* at most once, and only in the construction it belongs to.               *)
THEOREM OthersKeep == ~ Returns => (Spec => OthersKeepProto)
<1> DEFINE Keep == \A o \in Existing :
                     proto'[o] # proto[o] =>
                       /\ proto[o] = object_proto
                       /\ news # <<>> /\ o >= news[Len(news)].obj
<1> SUFFICES ASSUME ~ Returns PROVE Spec => [][Keep]_vars
  BY DEF OthersKeepProto
<1>1. ASSUME TypeOK, [Next]_vars PROVE [Keep]_vars
  <2>1. count \notin Existing /\ count + 1 \notin Existing /\ Existing \subseteq Object
    BY <1>1, Constants DEF TypeOK, Existing, Object
  <2>2. CASE \E p \in Existing \cup {NULL} : Created(p)
    BY <1>1, <2>1, <2>2 DEF Created, TypeOK
  <2>3. CASE NewObject \/ (\E p \in Existing \cup {NULL} : Create(p)) \/ \E f \in funcs : BeginNew(f)
    <3>1. object_proto \in Existing
      BY <1>1 DEF TypeOK, Existing, object_proto
    <3>2. \E p \in Existing \cup {NULL} : Created(p)
      BY <2>3, <3>1 DEF NewObject, Create, BeginNew
    <3> QED
      BY <2>2, <3>2
  <2>4. CASE NewFunction
    BY <1>1, <2>1, <2>4 DEF NewFunction, TypeOK
  <2>5. CASE \E o \in Existing : EndNew(o)
    BY <1>1, <2>1, <2>5 DEF EndNew, TypeOK
  <2>6. CASE UNCHANGED proto
    BY <2>6
  <2>7. CASE \E f \in funcs :
                \/ \E w \in Existing \cup {NULL}, configurable \in BOOLEAN :
                     Store(f, w) \/ Define(f, w, configurable)
                \/ Delete(f)
                \/ Seal(f)
    BY <2>6, <2>7 DEF Store, Define, Delete, Seal
  <2> QED
    BY <1>1, <2>3, <2>4, <2>5, <2>6, <2>7 DEF Next, Crashed, vars
<1> QED
  BY <1>1, TypeCorrect, PTL DEF Spec

-----------------------------------------------------------------------------
(* A sealed property stays since its flag does. *)
Locked == \A o \in sealed : prop[o].there /\ ~ prop[o].configurable

LEMMA LockedStep == TypeOK /\ Locked /\ [Next]_vars => Locked'
<1> SUFFICES ASSUME TypeOK, Locked, [Next]_vars PROVE Locked'
  OBVIOUS
<1>1. /\ funcs \subseteq Object /\ sealed \subseteq Object /\ count \notin sealed
      /\ \A o \in Object : prop[o] \in Property
  BY Constants DEF TypeOK, Existing, Object
<1>2. CASE UNCHANGED <<prop, sealed>>
  BY <1>2 DEF Locked
<1>3. CASE NewFunction
  BY <1>1, <1>3 DEF NewFunction, Locked, TypeOK
<1>4. CASE \E f \in funcs : \E w \in Existing \cup {NULL} : Store(f, w)
  BY <1>1, <1>4 DEF Store, Locked, TypeOK, Present
<1>5. CASE \E f \in funcs : \E w \in Existing \cup {NULL}, configurable \in BOOLEAN :
              Define(f, w, configurable)
  BY <1>1, <1>5 DEF Define, Locked, TypeOK, Present
<1>6. CASE \E f \in funcs : Delete(f)
  BY <1>1, <1>6 DEF Delete, Locked, TypeOK
<1>7. CASE \E f \in funcs : Seal(f)
  <2>1. PICK f \in funcs : Seal(f)
    BY <1>7
  <2>2. prop'[f].there = prop[f].there /\ ~ prop'[f].configurable
    BY <1>1, <2>1 DEF Seal, Property, Absent, TypeOK
  <2> QED
    BY <1>1, <2>1, <2>2 DEF Seal, Locked, TypeOK
<1>8. CASE NewObject \/ (\E p \in Existing \cup {NULL} : Create(p)) \/ (\E f \in funcs : BeginNew(f))
           \/ \E o \in Existing : EndNew(o)
  BY <1>2, <1>8 DEF NewObject, Create, BeginNew, EndNew
<1> QED
  BY <1>2, <1>3, <1>4, <1>5, <1>6, <1>7, <1>8 DEF Next, Crashed, vars

(* A property that an object had when it was sealed stays, until it is     *)
(* defined to be configurable.                                             *)
THEOREM SealedCorrect == Spec => []SealedKeepsProperty
<1>1. Init => Locked
  BY DEF Init, Locked
<1>2. Locked => SealedKeepsProperty
  BY DEF Locked, SealedKeepsProperty
<1> QED
  BY <1>1, <1>2, LockedStep, TypeCorrect, PTL DEF Spec

-----------------------------------------------------------------------------
(* Dates, from here on.  Every step of the clock divides by a radix.       *)

LEMMA ClockRadices == /\ hr_per_day \in Radix /\ min_per_hr \in Radix /\ sec_per_min \in Radix
                 /\ ms_per_sec \in Radix /\ max_time \in Nat
  BY CalendarAssumption DEF Radix

-----------------------------------------------------------------------------
(* Years.                                                                  *)

LEMMA DaysOfYear ==
  ASSUME NEW y \in Int
  PROVE  /\ day_from_year(y) \in Int
         /\ days_in_year(y) \in {365, 366}
         /\ day_from_year(y + 1) = day_from_year(y) + days_in_year(y)
<1>1. day_from_year(y) \in Int /\ days_in_year(y) \in {365, 366}
  BY DEF day_from_year, days_in_year
<1>2. /\ (y - 1968) \div 4 = (y - 1969) \div 4 + (IF y % 4 = 0 THEN 1 ELSE 0)
      /\ (y - 1900) \div 100 = (y - 1901) \div 100 + (IF y % 100 = 0 THEN 1 ELSE 0)
      /\ (y - 1600) \div 400 = (y - 1601) \div 400 + (IF y % 400 = 0 THEN 1 ELSE 0)
  OBVIOUS
<1>3. /\ y % 400 = 0 => y % 100 = 0
      /\ y % 100 = 0 => y % 4 = 0
  OBVIOUS
<1>4. y + 1 - 1970 = y - 1970 + 1 /\ y + 1 - 1969 = y - 1968 /\ y + 1 - 1901 = y - 1900 /\ y + 1 - 1601 = y - 1600
  OBVIOUS
<1>5. day_from_year(y + 1) = 365 * (y - 1970 + 1) + (y - 1968) \div 4 - (y - 1900) \div 100 + (y - 1600) \div 400
  BY <1>4 DEF day_from_year
<1> QED
  BY <1>1, <1>2, <1>3, <1>5 DEF day_from_year, days_in_year

LEMMA YearsInOrder ==
  ASSUME NEW y \in Int, NEW z \in Int, y < z
  PROVE  day_from_year(y + 1) <= day_from_year(z)
<1>1. CASE z = y + 1
  BY <1>1, DaysOfYear
<1>2. CASE z > y + 1
  <2>1. /\ (z - 1969) \div 4 >= (y - 1968) \div 4
        /\ (z - 1601) \div 400 >= (y - 1600) \div 400
        /\ (z - 1901) \div 100 <= (y - 1900) \div 100 + (z - y)
    BY <1>2
  <2>2. day_from_year(y + 1) = 365 * (y - 1969) + (y - 1968) \div 4 - (y - 1900) \div 100 + (y - 1600) \div 400
    <3>1. y + 1 - 1970 = y - 1969 /\ y + 1 - 1969 = y - 1968 /\ y + 1 - 1901 = y - 1900 /\ y + 1 - 1601 = y - 1600
      OBVIOUS
    <3> QED
      BY <3>1 DEF day_from_year
  <2> QED
    BY <1>2, <2>1, <2>2 DEF day_from_year
<1> QED
  BY <1>1, <1>2

LEMMA DayRadix ==
  /\ ms_per_min \in Radix /\ ms_per_hr \in Radix /\ ms_per_day \in Radix
  /\ \A t \in Int : day(t) \in Int
<1>1. ms_per_min \in Radix
  BY ClockRadices, DivisionTwice DEF ms_per_min
<1>2. ms_per_hr \in Radix
  BY ClockRadices, <1>1, DivisionTwice DEF ms_per_hr
<1>3. ms_per_day \in Radix
  BY ClockRadices, <1>2, DivisionTwice DEF ms_per_day
<1>4. \A t \in Int : day(t) \in Int
  BY <1>3, Division DEF day
<1> QED
  BY <1>1, <1>2, <1>3, <1>4

(* Midnight of a day. *)
LEMMA Midnight ==
  ASSUME NEW d \in Int, NEW t \in Int
  PROVE  /\ d * ms_per_day \in Int
         /\ day(d * ms_per_day) = d
         /\ d * ms_per_day > t <=> d > day(t)
<1> DEFINE n == ms_per_day
           q == day(t)
           r == t % n
<1>0. n \in Radix
  BY DayRadix
<1>a. q \in Int /\ r \in 0 .. n - 1 /\ t = q * n + r
  BY <1>0, Division DEF day
<1>b. \A s \in Int : day(s) = s \div n
  BY DEF day
<1> HIDE DEF n, q, r
<1>1. n \in Nat /\ n >= 1 /\ d * n \in Int /\ q * n \in Int
  BY <1>0, <1>a DEF Radix
<1>2. day(d * n) = d
  <2>1. d * n = d * n + 0 /\ 0 \in 0 .. n - 1
    BY <1>1
  <2>2. (d * n) \div n = d
    BY <1>0, <1>1, <2>1, DivisionUnique
  <2> QED
    BY <1>1, <1>b, <2>2
<1>3. (d - q) * n = d * n - q * n /\ d - q \in Int
  BY <1>1, <1>a
<1>4. d * n > t <=> d > q
  <2>1. /\ d - q >= 1 => (d - q) * n >= n
        /\ d - q <= -1 => (d - q) * n <= -n
    BY <1>0, <1>3, ProductSign
  <2>2. d = q => d * n = q * n
    OBVIOUS
  <2> QED
    BY <1>1, <1>3, <1>a, <2>1, <2>2
<1> QED
  BY <1>1, <1>2, <1>4 DEF n, q

LEMMA YearStart ==
  ASSUME NEW y \in Int, NEW t \in Int
  PROVE  /\ time_from_year(y) \in Int
         /\ day(time_from_year(y)) = day_from_year(y)
         /\ time_from_year(y) > t <=> day_from_year(y) > day(t)
BY DaysOfYear, Midnight DEF time_from_year

(* A day lies between the years that dividing it by the lengths of a leap  *)
(* year and a common year gives.                                           *)
ByLeapYears(d) == d \div 366 + 1970
ByCommonYears(d) == d \div 365 + 1970

LEMMA Bracket ==
  ASSUME NEW d \in Int
  PROVE  LET a == ByLeapYears(d)
             b == ByCommonYears(d)
         IN  /\ a \in Int /\ b \in Int
             /\ b < a => day_from_year(b) <= d /\ d < day_from_year(a + 1)
             /\ ~ (b < a) => day_from_year(a) <= d /\ d < day_from_year(b + 1)
<1> DEFINE i == d \div 366
           j == d \div 365
           L(k) == (k + 1) \div 4 - (k + 69) \div 100 + (k + 369) \div 400
<1>1. /\ i \in Int /\ j \in Int
      /\ 366 * i <= d /\ d < 366 * (i + 1) /\ 365 * j <= d /\ d < 365 * (j + 1)
  OBVIOUS
<1>2. ASSUME NEW k \in Int PROVE day_from_year(k + 1970) = 365 * k + L(k) /\ L(k) \in Int
  <2>1. k + 1970 - 1970 = k /\ k + 1970 - 1969 = k + 1 /\ k + 1970 - 1901 = k + 69 /\ k + 1970 - 1601 = k + 369
    OBVIOUS
  <2> QED
    BY <2>1 DEF day_from_year
<1>3. ASSUME NEW k \in Int
      PROVE  IF k >= 0 THEN 0 <= L(k) /\ L(k) <= k ELSE k <= L(k) /\ L(k) <= 0
  OBVIOUS
<1> HIDE DEF i, j, L
<1>4. i + 1 \in Int /\ j + 1 \in Int /\ i + 1970 + 1 = (i + 1) + 1970 /\ j + 1970 + 1 = (j + 1) + 1970
  BY <1>1
<1>5. /\ day_from_year(i + 1970) = 365 * i + L(i) /\ L(i) \in Int
      /\ day_from_year(j + 1970) = 365 * j + L(j) /\ L(j) \in Int
      /\ day_from_year(i + 1970 + 1) = 365 * (i + 1) + L(i + 1) /\ L(i + 1) \in Int
      /\ day_from_year(j + 1970 + 1) = 365 * (j + 1) + L(j + 1) /\ L(j + 1) \in Int
  BY <1>1, <1>2, <1>4
<1>6. /\ IF i >= 0 THEN 0 <= L(i) /\ L(i) <= i ELSE i <= L(i) /\ L(i) <= 0
      /\ IF j >= 0 THEN 0 <= L(j) /\ L(j) <= j ELSE j <= L(j) /\ L(j) <= 0
      /\ IF i + 1 >= 0 THEN 0 <= L(i + 1) /\ L(i + 1) <= i + 1 ELSE i + 1 <= L(i + 1) /\ L(i + 1) <= 0
      /\ IF j + 1 >= 0 THEN 0 <= L(j + 1) /\ L(j + 1) <= j + 1 ELSE j + 1 <= L(j + 1) /\ L(j + 1) <= 0
  BY <1>1, <1>3, <1>4
<1>7. j + 1970 < i + 1970 => day_from_year(j + 1970) <= d /\ d < day_from_year(i + 1970 + 1)
  BY <1>1, <1>5, <1>6
<1>8. ~ (j + 1970 < i + 1970) => day_from_year(i + 1970) <= d /\ d < day_from_year(j + 1970 + 1)
  BY <1>1, <1>5, <1>6
<1> QED
  BY <1>1, <1>7, <1>8 DEF i, j, ByLeapYears, ByCommonYears

(* The search, as a function of its bounds. *)
SearchStep(f, b, t) ==
  LET lo  == b[1]
      hi  == b[2]
      mid == Half(hi + lo)
  IN  IF hi <= lo THEN lo
      ELSE IF time_from_year(mid) > t THEN f[<<lo, mid - 1>>]
      ELSE IF time_from_year(mid + 1) > t THEN mid
      ELSE f[<<mid + 1, hi>>]

SearchFunction(t) == CHOOSE f : f = [b \in Int \X Int |-> SearchStep(f, b, t)]

LEMMA YearIsSearched ==
  ASSUME NEW t
  PROVE  LET a == ByLeapYears(day(t))
             b == ByCommonYears(day(t))
         IN  year_from_time(t) = IF b < a THEN SearchFunction(t)[<<b, a>>]
                                 ELSE SearchFunction(t)[<<a, b>>]
BY DEF year_from_time, SearchFunction, SearchStep, ByLeapYears, ByCommonYears

LEMMA HalfBetween ==
  ASSUME NEW lo \in Int, NEW hi \in Int, lo < hi
  PROVE  Half(hi + lo) \in lo .. hi
BY DEF Half

LEMMA SearchRecursion ==
  ASSUME NEW t \in Int, NEW lo \in Int, NEW hi \in Int
  PROVE  SearchFunction(t)[<<lo, hi>>] = SearchStep(SearchFunction(t), <<lo, hi>>, t)
<1> DEFINE S == Int \X Int
           T == Int
           rank == [b \in S |-> IF b[2] > b[1] THEN b[2] - b[1] ELSE 0]
           step == [y \in S \X [S -> T] |-> SearchStep(y[2], y[1], t)]
           f == SearchFunction(t)
<1>1. rank \in [S -> Nat]
  <2>1. ASSUME NEW b \in S PROVE (IF b[2] > b[1] THEN b[2] - b[1] ELSE 0) \in Nat
    BY b[1] \in Int, b[2] \in Int
  <2> QED
    BY <2>1
<1>2. ASSUME NEW b \in S, b[1] < b[2]
      PROVE  LET mid == Half(b[2] + b[1])
             IN  /\ mid \in Int /\ <<b[1], mid - 1>> \in S /\ <<mid + 1, b[2]>> \in S
                 /\ rank[<<b[1], mid - 1>>] < rank[b]
                 /\ rank[<<mid + 1, b[2]>>] < rank[b]
  <2> DEFINE l == b[1]
             h == b[2]
             mid == Half(h + l)
  <2>1. l \in Int /\ h \in Int /\ l < h
    BY <1>2
  <2>a. rank[b] = IF h > l THEN h - l ELSE 0
    OBVIOUS
  <2> HIDE DEF l, h
  <2>2. mid \in l .. h
    BY <2>1, HalfBetween
  <2> HIDE DEF mid
  <2>3. <<l, mid - 1>> \in S /\ <<mid + 1, h>> \in S
    BY <2>1, <2>2
  <2>4. /\ rank[<<l, mid - 1>>] = IF mid - 1 > l THEN mid - 1 - l ELSE 0
        /\ rank[<<mid + 1, h>>] = IF h > mid + 1 THEN h - (mid + 1) ELSE 0
    BY <2>3
  <2> HIDE DEF rank, S
  <2>5. rank[<<l, mid - 1>>] < rank[b] /\ rank[<<mid + 1, h>>] < rank[b]
    BY <2>1, <2>2, <2>4, <2>a
  <2> QED
    BY <2>1, <2>2, <2>3, <2>5 DEF l, h, mid
<1>3. ASSUME NEW b \in S, NEW g \in [S -> T] PROVE SearchStep(g, b, t) \in T
  <2>1. CASE b[1] < b[2]
    <3> DEFINE mid == Half(b[2] + b[1])
    <3>1. mid \in Int /\ <<b[1], mid - 1>> \in S /\ <<mid + 1, b[2]>> \in S
      BY <1>2, <2>1
    <3> HIDE DEF S
    <3>2. g[<<b[1], mid - 1>>] \in Int /\ g[<<mid + 1, b[2]>>] \in Int
      BY <3>1
    <3>3. b[1] \in Int
      BY DEF S
    <3> QED
      BY <3>1, <3>2, <3>3 DEF SearchStep
  <2>2. CASE ~ (b[1] < b[2])
    <3>1. b[1] \in Int /\ b[2] \in Int /\ b[2] <= b[1]
      BY <2>2
    <3> QED
      BY <3>1 DEF SearchStep
  <2> QED
    BY <2>1, <2>2
<1>4. step \in [S \X [S -> T] -> T]
  <2>1. \A y \in S \X [S -> T] : SearchStep(y[2], y[1], t) \in T
    <3> HIDE DEF S, T
    <3> QED
      BY <1>3
  <2> QED
    BY <2>1
<1>5. LooksBelow(S, T, rank, step)
  <2> SUFFICES ASSUME NEW b \in S, NEW g \in [S -> T], NEW h \in [S -> T],
                      \A y \in S : rank[y] < rank[b] => g[y] = h[y]
               PROVE  SearchStep(g, b, t) = SearchStep(h, b, t)
    <3>1. \A x \in S, g \in [S -> T] : step[<<x, g>>] = SearchStep(g, x, t)
      OBVIOUS
    <3> HIDE DEF step, S, T, rank
    <3> QED
      BY <3>1 DEF LooksBelow
  <2>1. CASE b[1] < b[2]
    <3> DEFINE mid == Half(b[2] + b[1])
    <3>1. /\ <<b[1], mid - 1>> \in S /\ <<mid + 1, b[2]>> \in S
          /\ rank[<<b[1], mid - 1>>] < rank[b] /\ rank[<<mid + 1, b[2]>>] < rank[b]
      BY <1>2, <2>1
    <3> HIDE DEF S, rank
    <3>2. g[<<b[1], mid - 1>>] = h[<<b[1], mid - 1>>] /\ g[<<mid + 1, b[2]>>] = h[<<mid + 1, b[2]>>]
      BY <3>1
    <3> QED
      BY <3>2 DEF SearchStep
  <2>2. CASE ~ (b[1] < b[2])
    <3>1. b[2] <= b[1]
      BY <2>2, b[1] \in Int, b[2] \in Int
    <3> QED
      BY <3>1 DEF SearchStep
  <2> QED
    BY <2>1, <2>2
<1>6. \E g \in [S -> T] : \A b \in S : g[b] = step[<<b, g>>]
  <2>1. T # {}
    OBVIOUS
  <2> HIDE DEF S, T, rank, step
  <2>2. IsRecursion(S, T, rank, step)
    BY <1>1, <1>4, <1>5, <2>1 DEF IsRecursion
  <2> QED
    BY <2>2, Recursion
<1>7. PICK g \in [S -> T] : \A b \in S : g[b] = SearchStep(g, b, t)
  <2>1. \A b \in S, g \in [S -> T] : step[<<b, g>>] = SearchStep(g, b, t)
    OBVIOUS
  <2> HIDE DEF step, S, T
  <2> QED
    BY <1>6, <2>1
<1>8. g = [b \in S |-> SearchStep(g, b, t)]
  BY <1>7
<1>9. f = [b \in S |-> SearchStep(f, b, t)]
  <2> HIDE DEF S, T
  <2>1. SearchFunction(t) = CHOOSE h : h = [b \in S |-> SearchStep(h, b, t)]
    BY DEF SearchFunction, S
  <2> QED
    BY <1>8, <2>1
<1> HIDE DEF f
<1>10. <<lo, hi>> \in S
  OBVIOUS
<1> HIDE DEF S
<1>11. f[<<lo, hi>>] = SearchStep(f, <<lo, hi>>, t)
  BY <1>9, <1>10
<1> QED
  BY <1>11 DEF f

(* Day n is one of year y's. *)
InYear(n, y) == y \in Int /\ day_from_year(y) <= n /\ n < day_from_year(y + 1)

(* The search finds the year of any time that lies between its bounds. *)
LEMMA SearchFinds ==
  ASSUME NEW t \in Int, NEW lo \in Int, NEW hi \in Int,
         lo <= hi, day_from_year(lo) <= day(t), day(t) < day_from_year(hi + 1)
  PROVE  InYear(day(t), SearchFunction(t)[<<lo, hi>>])
<1> DEFINE f == SearchFunction(t)
           n == day(t)
           Misses(l, h) == /\ l <= h /\ day_from_year(l) <= n /\ n < day_from_year(h + 1)
                           /\ ~ InYear(n, f[<<l, h>>])
           Bad == {k \in Nat : \E l, h \in Int : h - l = k /\ Misses(l, h)}
<1>0. \A l, h \in Int : f[<<l, h>>] = SearchStep(f, <<l, h>>, t)
  BY SearchRecursion
<1>a. n \in Int /\ \A y \in Int : time_from_year(y) > t <=> day_from_year(y) > n
  BY DayRadix, YearStart
<1>b. \A y \in Int : day_from_year(y) \in Int
  BY DaysOfYear
<1> HIDE DEF n, f
<1> SUFFICES ASSUME Misses(lo, hi) PROVE FALSE
  BY DEF n, f
<1>1. hi - lo \in Bad
  <2>1. hi - lo \in Nat
    OBVIOUS
  <2> HIDE DEF Misses
  <2> QED
    BY <2>1
<1>2. PICK k \in Bad : \A j \in Bad : k <= j
  <2>1. Bad \in SUBSET Nat /\ Bad # {}
    BY <1>1
  <2> HIDE DEF Bad
  <2> QED
    BY <2>1, Least
<1>3. PICK l \in Int, h \in Int : h - l = k /\ Misses(l, h)
  BY <1>2
<1>4. ASSUME NEW x \in Int, NEW y \in Int, y - x < k, x <= y PROVE ~ Misses(x, y)
  <2> HIDE DEF Misses
  <2> SUFFICES ASSUME Misses(x, y) PROVE FALSE
    OBVIOUS
  <2>1. y - x \in Nat
    BY <1>4
  <2>2. y - x \in Bad
    BY <2>1
  <2> HIDE DEF Bad
  <2>3. k \in Int
    BY <1>3
  <2> QED
    BY <1>2, <1>4, <2>1, <2>2, <2>3
<1>5. f[<<l, h>>] = SearchStep(f, <<l, h>>, t)
  BY <1>0
<1>6. CASE l = h
  <2>1. f[<<l, h>>] = l
    BY <1>5, <1>6 DEF SearchStep
  <2> QED
    BY <1>3, <1>6, <2>1 DEF InYear
<1>7. CASE l < h
  <2> DEFINE mid == Half(h + l)
  <2>1. mid \in l .. h
    BY <1>7, HalfBetween
  <2>2. f[<<l, h>>] = IF time_from_year(mid) > t THEN f[<<l, mid - 1>>]
                      ELSE IF time_from_year(mid + 1) > t THEN mid
                      ELSE f[<<mid + 1, h>>]
    BY <1>5, <1>7 DEF SearchStep
  <2> HIDE DEF mid
  <2>a. mid \in Int /\ mid - 1 \in Int /\ mid + 1 \in Int /\ mid - 1 + 1 = mid
    BY <2>1
  <2>3. CASE day_from_year(mid) > n
    <3>1. f[<<l, h>>] = f[<<l, mid - 1>>]
      BY <1>a, <2>2, <2>3, <2>a
    <3>2. l <= mid - 1
      <4>1. mid # l
        BY <1>3, <1>a, <1>b, <2>3
      <4> QED
        BY <2>1, <4>1
    <3>3. Misses(l, mid - 1)
      BY <1>3, <1>a, <2>3, <2>a, <3>1, <3>2
    <3>4. mid - 1 - l < k
      BY <1>3, <2>1
    <3> HIDE DEF Misses
    <3> QED
      BY <1>4, <2>a, <3>2, <3>3, <3>4
  <2>4. CASE ~ (day_from_year(mid) > n) /\ day_from_year(mid + 1) > n
    <3>1. f[<<l, h>>] = mid
      BY <1>a, <2>2, <2>4, <2>a
    <3>2. InYear(n, mid)
      BY <1>a, <1>b, <2>4, <2>a DEF InYear
    <3> QED
      BY <1>3, <3>1, <3>2
  <2>5. CASE ~ (day_from_year(mid) > n) /\ ~ (day_from_year(mid + 1) > n)
    <3>1. f[<<l, h>>] = f[<<mid + 1, h>>]
      BY <1>a, <2>2, <2>5, <2>a
    <3>2. mid + 1 <= h
      <4>1. mid # h
        BY <1>3, <1>a, <1>b, <2>5
      <4> QED
        BY <2>1, <4>1
    <3>3. Misses(mid + 1, h)
      <4>1. day_from_year(mid + 1) <= n
        BY <1>a, <1>b, <2>5, <2>a
      <4> QED
        BY <1>3, <3>1, <3>2, <4>1
    <3>4. h - (mid + 1) < k
      BY <1>3, <2>1
    <3> HIDE DEF Misses
    <3> QED
      BY <1>4, <2>a, <3>2, <3>3, <3>4
  <2> QED
    BY <2>3, <2>4, <2>5
<1> QED
  BY <1>3, <1>6, <1>7

(* So year_from_time answers the year of its time. *)
LEMMA YearFound ==
  ASSUME NEW t \in Int
  PROVE  InYear(day(t), year_from_time(t))
<1> DEFINE n == day(t)
           a == ByLeapYears(n)
           b == ByCommonYears(n)
<1>1. n \in Int
  BY DayRadix
<1>2. year_from_time(t) = IF b < a THEN SearchFunction(t)[<<b, a>>] ELSE SearchFunction(t)[<<a, b>>]
  BY YearIsSearched
<1> HIDE DEF n
<1>3. /\ a \in Int /\ b \in Int
      /\ b < a => day_from_year(b) <= n /\ n < day_from_year(a + 1)
      /\ ~ (b < a) => day_from_year(a) <= n /\ n < day_from_year(b + 1)
  BY <1>1, Bracket
<1> HIDE DEF a, b
<1>4. CASE b < a
  BY <1>2, <1>3, <1>4, SearchFinds DEF n
<1>5. CASE ~ (b < a)
  BY <1>2, <1>3, <1>5, SearchFinds DEF n
<1> QED
  BY <1>4, <1>5 DEF n

LEMMA OneYear ==
  ASSUME NEW n \in Int, NEW y, NEW z, InYear(n, y), InYear(n, z)
  PROVE  y = z
<1>1. y \in Int /\ z \in Int
  BY DEF InYear
<1>2. /\ day_from_year(y) \in Int /\ day_from_year(z) \in Int
      /\ day_from_year(y + 1) \in Int /\ day_from_year(z + 1) \in Int
  BY <1>1, DaysOfYear
<1>3. /\ y < z => day_from_year(y + 1) <= day_from_year(z)
      /\ z < y => day_from_year(z + 1) <= day_from_year(y)
  BY <1>1, YearsInOrder
<1>4. ~ (y < z) /\ ~ (z < y)
  BY <1>2, <1>3 DEF InYear
<1> QED
  BY <1>1, <1>4

-----------------------------------------------------------------------------
(* Months.                                                                 *)

Leap(y) == IF days_in_year(y) = 366 THEN 1 ELSE 0

(* The day of the year on which month m starts, in a year with l leap days. *)
Start(m, l) ==
  IF m = 0 THEN 0 ELSE IF m = 12 THEN 365 + l
  ELSE MonthEnd[m - 1] + (IF m > 1 THEN l ELSE 0)

LEMMA MonthEnds ==
  /\ MonthEnd[0] = 31  /\ MonthEnd[1] = 59  /\ MonthEnd[2] = 90  /\ MonthEnd[3] = 120
  /\ MonthEnd[4] = 151 /\ MonthEnd[5] = 181 /\ MonthEnd[6] = 212 /\ MonthEnd[7] = 243
  /\ MonthEnd[8] = 273 /\ MonthEnd[9] = 304 /\ MonthEnd[10] = 334
<1> DEFINE s == <<31, 59, 90, 120, 151, 181, 212, 243, 273, 304, 334>>
<1>1. /\ s[1] = 31 /\ s[2] = 59 /\ s[3] = 90 /\ s[4] = 120 /\ s[5] = 151 /\ s[6] = 181
      /\ s[7] = 212 /\ s[8] = 243 /\ s[9] = 273 /\ s[10] = 304 /\ s[11] = 334
  OBVIOUS
<1>2. MonthEnd = [m \in 0 .. 10 |-> s[m + 1]]
  BY DEF MonthEnd
<1> HIDE DEF s
<1>3. \A m \in 0 .. 10 : MonthEnd[m] = s[m + 1]
  BY <1>2
<1> QED
  BY <1>1, <1>3

LEMMA Starts ==
  ASSUME NEW l \in {0, 1}
  PROVE  /\ Start(0, l) = 0        /\ Start(1, l) = 31       /\ Start(2, l) = 59 + l
         /\ Start(3, l) = 90 + l   /\ Start(4, l) = 120 + l  /\ Start(5, l) = 151 + l
         /\ Start(6, l) = 181 + l  /\ Start(7, l) = 212 + l  /\ Start(8, l) = 243 + l
         /\ Start(9, l) = 273 + l  /\ Start(10, l) = 304 + l /\ Start(11, l) = 334 + l
         /\ Start(12, l) = 365 + l
BY MonthEnds DEF Start

LEMMA StartsInOrder ==
  ASSUME NEW l \in {0, 1}, NEW i \in 0 .. 12, NEW j \in 0 .. 12, i < j
  PROVE  Start(i, l) \in Nat /\ Start(j, l) \in Nat /\ Start(i, l) < Start(j, l)
BY Starts

LEMMA MonthLengths ==
  ASSUME NEW y \in Int, NEW m \in 0 .. 11
  PROVE  /\ Leap(y) \in {0, 1}
         /\ days_in_year(y) = 365 + Leap(y)
         /\ DaysInMonth(m, y) = Start(m + 1, Leap(y)) - Start(m, Leap(y))
<1>1. Leap(y) \in {0, 1} /\ days_in_year(y) = 365 + Leap(y)
  BY DaysOfYear DEF Leap
<1>2. Leap(y) = 1 <=> y % 400 = 0 \/ (y % 4 = 0 /\ y % 100 # 0)
  <2>1. y % 400 = 0 => y % 4 = 0
    OBVIOUS
  <2> QED
    BY <2>1 DEF Leap, days_in_year
<1>3. CASE m = 1
  BY <1>1, <1>2, <1>3, Starts DEF DaysInMonth
<1>4. CASE m \in {3, 5, 8, 10}
  BY <1>1, <1>4, Starts DEF DaysInMonth
<1>5. CASE m \in {0, 2, 4, 6, 7, 9, 11}
  BY <1>1, <1>5, Starts DEF DaysInMonth
<1> QED
  BY <1>1, <1>3, <1>4, <1>5

LEMMA MonthOfDay ==
  ASSUME NEW l \in {0, 1}, NEW d \in Nat, d < 365 + l
  PROVE  \E m \in 0 .. 11 : Start(m, l) <= d /\ d < Start(m + 1, l)
<1>1. ASSUME NEW m \in 0 .. 11, Start(m, l) <= d, d < Start(m + 1, l)
      PROVE  \E k \in 0 .. 11 : Start(k, l) <= d /\ d < Start(k + 1, l)
  BY <1>1
<1> QED
  BY <1>1, Starts

(* Where a time lies in its year. *)
LEMMA WithinYear ==
  ASSUME NEW t \in Int
  PROVE  LET l == Leap(year_from_time(t))
         IN  /\ l \in {0, 1} /\ (in_leap_year(t) <=> l = 1)
             /\ day_within_year(t) \in 0 .. 364 + l
             /\ \E m \in 0 .. 11 : Start(m, l) <= day_within_year(t) /\ day_within_year(t) < Start(m + 1, l)
<1> DEFINE y == year_from_time(t)
           d == day_within_year(t)
           l == Leap(y)
<1>1. InYear(day(t), y) /\ day(t) \in Int
  BY YearFound, DayRadix
<1>2. d = day(t) - day_from_year(y)
  BY DEF day_within_year
<1>3. in_leap_year(t) <=> l = 1
  BY DEF in_leap_year, Leap
<1> HIDE DEF y, d
<1>4. /\ day_from_year(y) \in Int /\ day_from_year(y + 1) = day_from_year(y) + days_in_year(y)
      /\ l \in {0, 1} /\ days_in_year(y) = 365 + l
  BY <1>1, DaysOfYear, MonthLengths DEF InYear
<1> HIDE DEF l
<1>5. d \in 0 .. 364 + l
  BY <1>1, <1>2, <1>4 DEF InYear
<1>6. \E m \in 0 .. 11 : Start(m, l) <= d /\ d < Start(m + 1, l)
  BY <1>4, <1>5, MonthOfDay
<1> QED
  BY <1>3, <1>4, <1>5, <1>6 DEF y, d, l

LEMMA MonthFound ==
  ASSUME NEW t \in Int, NEW m \in 0 .. 11,
         Start(m, Leap(year_from_time(t))) <= day_within_year(t),
         day_within_year(t) < Start(m + 1, Leap(year_from_time(t)))
  PROVE  month_from_time(t) = m
<1> DEFINE d == day_within_year(t)
           l == Leap(year_from_time(t))
           leap == IF in_leap_year(t) THEN 1 ELSE 0
           Earlier(k) == d < MonthEnd[k] + (IF k > 0 THEN leap ELSE 0)
<1>1. l \in {0, 1} /\ leap = l /\ d \in 0 .. 364 + l /\ Start(m, l) <= d /\ d < Start(m + 1, l)
  BY WithinYear
<1>2. month_from_time(t) = IF d >= 0 /\ \E k \in 0 .. 10 : Earlier(k)
                           THEN CHOOSE k \in 0 .. 10 : Earlier(k) /\ (k = 0 \/ ~ Earlier(k - 1)) ELSE 11
  BY DEF month_from_time
<1> HIDE DEF d, l, leap
<1>3. ASSUME NEW k \in 0 .. 10 PROVE Earlier(k) <=> d < Start(k + 1, l)
  BY <1>1 DEF Start
<1> HIDE DEF Earlier
<1>4. ASSUME NEW k \in 0 .. 10 PROVE Earlier(k) <=> m <= k
  <2>1. CASE m <= k
    <3>1. Start(m + 1, l) \in Nat /\ Start(k + 1, l) \in Nat
      BY <1>1, StartsInOrder
    <3>2. Start(m + 1, l) <= Start(k + 1, l)
      <4>1. CASE m = k
        BY <3>1, <4>1
      <4>2. CASE m < k
        <5>1. m + 1 \in 0 .. 12 /\ k + 1 \in 0 .. 12 /\ m + 1 < k + 1
          BY <4>2
        <5> QED
          BY <1>1, <3>1, <5>1, StartsInOrder
      <4> QED
        BY <2>1, <4>1, <4>2
    <3> QED
      BY <1>1, <1>3, <2>1, <3>1, <3>2
  <2>2. CASE k < m
    <3>1. Start(m, l) \in Nat /\ Start(k + 1, l) \in Nat
      BY <1>1, StartsInOrder
    <3>2. Start(k + 1, l) <= Start(m, l)
      <4>1. CASE m = k + 1
        BY <3>1, <4>1
      <4>2. CASE k + 1 < m
        <5>1. k + 1 \in 0 .. 12 /\ m \in 0 .. 12
          OBVIOUS
        <5> QED
          BY <1>1, <3>1, <4>2, <5>1, StartsInOrder
      <4> QED
        BY <2>2, <4>1, <4>2
    <3> QED
      BY <1>1, <1>3, <2>2, <3>1, <3>2
  <2> QED
    BY <2>1, <2>2
<1>5. CASE m = 11
  <2>1. ~ \E k \in 0 .. 10 : Earlier(k)
    BY <1>4, <1>5
  <2> QED
    BY <1>2, <1>5, <2>1
<1>6. CASE m # 11
  <2>1. m \in 0 .. 10 /\ Earlier(m)
    BY <1>4, <1>6
  <2>2. m = 0 \/ ~ Earlier(m - 1)
    BY <1>4, <2>1
  <2>3. ASSUME NEW k \in 0 .. 10, Earlier(k), k = 0 \/ ~ Earlier(k - 1) PROVE k = m
    <3>1. m <= k
      BY <1>4, <2>3
    <3>2. k = 0 \/ ~ (m <= k - 1)
      <4>1. CASE k # 0
        <5>1. k - 1 \in 0 .. 10
          BY <4>1
        <5> QED
          BY <1>4, <2>3, <4>1, <5>1
      <4> QED
        BY <4>1
    <3> QED
      BY <3>1, <3>2
  <2>4. (CHOOSE k \in 0 .. 10 : Earlier(k) /\ (k = 0 \/ ~ Earlier(k - 1))) = m
    BY <2>1, <2>2, <2>3
  <2> QED
    BY <1>1, <1>2, <2>1, <2>4
<1> QED
  BY <1>5, <1>6

LEMMA MonthTables ==
  /\ MonthStart[1] = 31 /\ MonthStart[2] = 61 /\ MonthStart[3] = 92
  /\ MonthStart[4] = 122 /\ MonthStart[5] = 153 /\ MonthStart[6] = 184
  /\ MonthStart[7] = 214 /\ MonthStart[8] = 245 /\ MonthStart[9] = 275
  /\ MonthDays[1] = 31 /\ MonthDays[2] = 30 /\ MonthDays[3] = 31
  /\ MonthDays[4] = 30 /\ MonthDays[5] = 31 /\ MonthDays[6] = 31
  /\ MonthDays[7] = 30 /\ MonthDays[8] = 31 /\ MonthDays[9] = 30
BY DEF MonthStart, MonthDays

(* The guess from whole thirty days, for the d-th day after the start of   *)
(* March.                                                                  *)
AfterMarch(d) ==
  LET k == d \div 30
  IN  IF k = 0 THEN d + 1
      ELSE IF k > 9 THEN d - 275 + 1
      ELSE IF d < MonthStart[k] THEN d - MonthStart[k] + MonthDays[k] + 1
      ELSE d - MonthStart[k] + 1

LEMMA ThirtyDays ==
  ASSUME NEW d \in 0 .. 305, NEW m \in 2 .. 11,
         Start(m, 0) <= d + 59, d + 59 < Start(m + 1, 0)
  PROVE  AfterMarch(d) = d + 59 - Start(m, 0) + 1
<1> DEFINE k == d \div 30
<1>0. AfterMarch(d) = IF k = 0 THEN d + 1
                      ELSE IF k > 9 THEN d - 275 + 1
                      ELSE IF d < MonthStart[k] THEN d - MonthStart[k] + MonthDays[k] + 1
                      ELSE d - MonthStart[k] + 1
  BY DEF AfterMarch
<1>1. k \in 0 .. 10 /\ 30 * k <= d /\ d < 30 * k + 30
  OBVIOUS
<1> DEFINE s == Start(m, 0)
           e == Start(m + 1, 0)
<1>2. <<m, s, e>> \in {<<2, 59, 90>>, <<3, 90, 120>>, <<4, 120, 151>>, <<5, 151, 181>>,
                       <<6, 181, 212>>, <<7, 212, 243>>, <<8, 243, 273>>, <<9, 273, 304>>,
                       <<10, 304, 334>>, <<11, 334, 365>>}
  BY Starts
<1>3. s \in Int /\ e \in Int /\ s <= d + 59 /\ d + 59 < e
  BY <1>2
<1> HIDE DEF s, e, k
<1>4. CASE k = 0
  BY <1>0, <1>1, <1>2, <1>3, <1>4 DEF s
<1>5. CASE k = 10
  BY <1>0, <1>1, <1>2, <1>3, <1>5 DEF s
<1>6. CASE k \in 1 .. 9
  <2>1. CASE k \in 1 .. 3
    BY <1>0, <1>1, <1>2, <1>3, <2>1, MonthTables DEF s
  <2>2. CASE k \in 4 .. 6
    BY <1>0, <1>1, <1>2, <1>3, <2>2, MonthTables DEF s
  <2>3. CASE k \in 7 .. 9
    BY <1>0, <1>1, <1>2, <1>3, <2>3, MonthTables DEF s
  <2> QED
    BY <1>6, <2>1, <2>2, <2>3
<1> QED
  BY <1>1, <1>4, <1>5, <1>6

LEMMA DateFound ==
  ASSUME NEW t \in Int, NEW m \in 0 .. 11,
         Start(m, Leap(year_from_time(t))) <= day_within_year(t),
         day_within_year(t) < Start(m + 1, Leap(year_from_time(t)))
  PROVE  date_from_time(t) = day_within_year(t) - Start(m, Leap(year_from_time(t))) + 1
<1> DEFINE n == day_within_year(t)
           l == Leap(year_from_time(t))
           leap == in_leap_year(t)
           march == n - (31 + 28)
           d == IF leap THEN march - 1 ELSE march
<1>1. l \in {0, 1} /\ (leap <=> l = 1) /\ n \in 0 .. 364 + l /\ Start(m, l) <= n /\ n < Start(m + 1, l)
  BY WithinYear
<1>2. date_from_time(t) =
        IF march < -28 THEN march + 31 + 28 + 1
        ELSE IF march < 0 THEN march + 28 + 1
        ELSE IF leap /\ march = 0 THEN 29
        ELSE AfterMarch(d)
  BY DEF date_from_time, AfterMarch
<1> HIDE DEF n, l, leap
<1>3. march = n - 59 /\ d = IF l = 1 THEN n - 60 ELSE n - 59
  BY <1>1
<1>4. CASE m = 0
  BY <1>1, <1>2, <1>3, <1>4, Starts DEF n, l
<1>5. CASE m = 1
  BY <1>1, <1>2, <1>3, <1>5, Starts DEF n, l
<1>6. CASE m \in 2 .. 11
  <2>1. Start(m, l) = Start(m, 0) + l /\ Start(m + 1, l) = Start(m + 1, 0) + l
        /\ Start(m, 0) \in 59 .. 334 /\ Start(m + 1, 0) \in 59 .. 365
    BY <1>1, <1>6, Starts
  <2>2. d = n - 59 - l /\ d \in 0 .. 305 /\ Start(m, 0) <= d + 59 /\ d + 59 < Start(m + 1, 0)
    BY <1>1, <1>3, <2>1
  <2>3. ~ (march < -28) /\ ~ (march < 0) /\ ~ (leap /\ march = 0)
    BY <1>1, <1>3, <2>2
  <2> HIDE DEF march, d
  <2>4. AfterMarch(d) = d + 59 - Start(m, 0) + 1
    BY <1>6, <2>2, ThirtyDays
  <2>5. date_from_time(t) = d + 59 - Start(m, 0) + 1
    BY <1>2, <2>3, <2>4
  <2> QED
    BY <1>1, <2>1, <2>2, <2>5 DEF n, l
<1> QED
  BY <1>4, <1>5, <1>6

-----------------------------------------------------------------------------
(* A day and its year, month and date determine each other.                *)

Dated(n, y, m, dt) ==
  /\ y \in Int /\ m \in 0 .. 11 /\ dt \in 1 .. DaysInMonth(m, y)
  /\ n = day_from_year(y) + Start(m, Leap(y)) + dt - 1

LEMMA MonthSpan ==
  ASSUME NEW y \in Int, NEW m \in 0 .. 11
  PROVE  /\ DaysInMonth(m, y) \in 28 .. 31
         /\ Start(m, Leap(y)) \in Nat
         /\ Start(m + 1, Leap(y)) = Start(m, Leap(y)) + DaysInMonth(m, y)
         /\ Start(m + 1, Leap(y)) <= days_in_year(y)
         /\ m < 11 => m + 1 \in 0 .. 11
         /\ Start(0, Leap(y)) = 0
         /\ m = 11 => Start(m + 1, Leap(y)) = days_in_year(y)
<1>1. /\ Leap(y) \in {0, 1} /\ days_in_year(y) = 365 + Leap(y)
      /\ DaysInMonth(m, y) = Start(m + 1, Leap(y)) - Start(m, Leap(y))
  BY MonthLengths
<1> QED
  BY <1>1, Starts

LEMMA DatedYear ==
  ASSUME NEW n \in Int, NEW y, NEW m, NEW dt, Dated(n, y, m, dt)
  PROVE  InYear(n, y) /\ dt \in 1 .. 31
<1>1. y \in Int /\ m \in 0 .. 11 /\ dt \in 1 .. DaysInMonth(m, y)
      /\ n = day_from_year(y) + Start(m, Leap(y)) + dt - 1
  BY DEF Dated
<1>2. day_from_year(y) \in Int /\ day_from_year(y + 1) = day_from_year(y) + days_in_year(y)
      /\ days_in_year(y) \in {365, 366}
  BY <1>1, DaysOfYear
<1>3. /\ Start(m, Leap(y)) \in Nat /\ Start(m + 1, Leap(y)) = Start(m, Leap(y)) + DaysInMonth(m, y)
      /\ DaysInMonth(m, y) \in 28 .. 31 /\ Start(m + 1, Leap(y)) <= days_in_year(y)
  BY <1>1, MonthSpan
<1> QED
  BY <1>1, <1>2, <1>3 DEF InYear

(* The parts of a time are the date of its day. *)
LEMMA PartsAreDated ==
  ASSUME NEW t \in Int
  PROVE  Dated(day(t), year_from_time(t), month_from_time(t), date_from_time(t))
<1> DEFINE y == year_from_time(t)
           n == day(t)
           d == day_within_year(t)
           l == Leap(y)
<1>1. InYear(n, y) /\ n \in Int
  BY YearFound, DayRadix
<1>2. d = n - day_from_year(y)
  BY DEF day_within_year
<1>3. PICK m \in 0 .. 11 : Start(m, l) <= d /\ d < Start(m + 1, l)
  BY WithinYear
<1>4. month_from_time(t) = m /\ date_from_time(t) = d - Start(m, l) + 1
  BY <1>3, MonthFound, DateFound
<1> HIDE DEF y, n, d
<1>5. y \in Int /\ day_from_year(y) \in Int
  BY <1>1, DaysOfYear DEF InYear
<1>6. /\ Start(m, l) \in Nat /\ Start(m + 1, l) = Start(m, l) + DaysInMonth(m, y)
      /\ DaysInMonth(m, y) \in 28 .. 31
  BY <1>5, MonthSpan
<1> DEFINE dt == date_from_time(t)
<1>7. dt \in 1 .. DaysInMonth(m, y) /\ n = day_from_year(y) + Start(m, l) + dt - 1
  BY <1>1, <1>2, <1>3, <1>4, <1>5, <1>6
<1>8. Dated(n, y, m, dt)
  BY <1>5, <1>7 DEF Dated
<1> QED
  BY <1>4, <1>8 DEF y, n

(* And no other date is. *)
LEMMA DatedParts ==
  ASSUME NEW t \in Int, NEW y, NEW m, NEW dt, Dated(day(t), y, m, dt)
  PROVE  year_from_time(t) = y /\ month_from_time(t) = m /\ date_from_time(t) = dt
<1> DEFINE n == day(t)
           d == day_within_year(t)
<1>1. InYear(n, y) /\ n \in Int
  BY DatedYear, DayRadix
<1>2. year_from_time(t) = y
  BY <1>1, YearFound, OneYear
<1>3. d = n - day_from_year(y)
  BY <1>2 DEF day_within_year
<1>a. Dated(n, y, m, dt)
  OBVIOUS
<1> HIDE DEF n, d
<1>4. y \in Int /\ m \in 0 .. 11 /\ dt \in 1 .. DaysInMonth(m, y)
      /\ n = day_from_year(y) + Start(m, Leap(y)) + dt - 1 /\ day_from_year(y) \in Int
  BY <1>a, <1>1, DaysOfYear DEF Dated
<1>5. /\ Start(m, Leap(y)) \in Nat /\ Start(m + 1, Leap(y)) = Start(m, Leap(y)) + DaysInMonth(m, y)
      /\ DaysInMonth(m, y) \in 28 .. 31
  BY <1>4, MonthSpan
<1>6. Start(m, Leap(y)) <= d /\ d < Start(m + 1, Leap(y)) /\ d - Start(m, Leap(y)) + 1 = dt
  BY <1>1, <1>3, <1>4, <1>5
<1>7. month_from_time(t) = m /\ date_from_time(t) = d - Start(m, Leap(y)) + 1
  BY <1>2, <1>4, <1>6, MonthFound, DateFound DEF d
<1> QED
  BY <1>2, <1>6, <1>7

LEMMA DatedNext ==
  ASSUME NEW n \in Int, NEW y, NEW m, NEW dt, Dated(n, y, m, dt)
  PROVE  /\ dt < DaysInMonth(m, y) => Dated(n + 1, y, m, dt + 1)
         /\ dt >= DaysInMonth(m, y) /\ m < 11 => Dated(n + 1, y, m + 1, 1)
         /\ dt >= DaysInMonth(m, y) /\ ~ (m < 11) => Dated(n + 1, y + 1, 0, 1)
<1>1. y \in Int /\ m \in 0 .. 11 /\ dt \in 1 .. DaysInMonth(m, y)
      /\ n = day_from_year(y) + Start(m, Leap(y)) + dt - 1
  BY DEF Dated
<1>2. day_from_year(y) \in Int /\ day_from_year(y + 1) = day_from_year(y) + days_in_year(y)
      /\ days_in_year(y) \in {365, 366}
  BY <1>1, DaysOfYear
<1>3. /\ Start(m, Leap(y)) \in Nat /\ Start(m + 1, Leap(y)) = Start(m, Leap(y)) + DaysInMonth(m, y)
      /\ DaysInMonth(m, y) \in 28 .. 31 /\ (m < 11 => m + 1 \in 0 .. 11)
      /\ (m = 11 => Start(m + 1, Leap(y)) = days_in_year(y))
  BY <1>1, MonthSpan
<1>4. ASSUME dt < DaysInMonth(m, y) PROVE Dated(n + 1, y, m, dt + 1)
  BY <1>1, <1>2, <1>3, <1>4 DEF Dated
<1>5. ASSUME dt >= DaysInMonth(m, y), m < 11 PROVE Dated(n + 1, y, m + 1, 1)
  <2>1. m + 1 \in 0 .. 11 /\ DaysInMonth(m + 1, y) \in 28 .. 31
    BY <1>1, <1>3, <1>5, MonthSpan
  <2>2. n + 1 = day_from_year(y) + Start(m + 1, Leap(y)) + 1 - 1
    BY <1>1, <1>2, <1>3, <1>5
  <2> QED
    BY <1>1, <2>1, <2>2 DEF Dated
<1>6. ASSUME dt >= DaysInMonth(m, y), ~ (m < 11) PROVE Dated(n + 1, y + 1, 0, 1)
  <2>a. y + 1 \in Int /\ 0 \in 0 .. 11
    BY <1>1
  <2>1. DaysInMonth(0, y + 1) \in 28 .. 31 /\ Start(0, Leap(y + 1)) = 0
    BY <2>a, MonthSpan
  <2>2. n + 1 = day_from_year(y + 1) + 0 + 1 - 1 /\ day_from_year(y + 1) \in Int
    BY <1>1, <1>2, <1>3, <1>6
  <2> QED
    BY <2>a, <2>1, <2>2 DEF Dated
<1> QED
  BY <1>4, <1>5, <1>6

-----------------------------------------------------------------------------
(* The clock, digit by digit.                                              *)

Seconds(t) == t \div ms_per_sec
Minutes(t) == Seconds(t) \div sec_per_min
Hours(t)   == Minutes(t) \div min_per_hr

LEMMA MixedDigits ==
  ASSUME NEW t \in Int
  PROVE  /\ Seconds(t) \in Int /\ Minutes(t) \in Int /\ Hours(t) \in Int /\ day(t) \in Int
         /\ ms_from_time(t) = t % ms_per_sec
         /\ sec_from_time(t) = Seconds(t) % sec_per_min
         /\ min_from_time(t) = Minutes(t) % min_per_hr
         /\ hour_from_time(t) = Hours(t) % hr_per_day
         /\ day(t) = Hours(t) \div hr_per_day
<1>1. Seconds(t) \in Int
  BY ClockRadices, Division DEF Seconds
<1>2. Minutes(t) \in Int /\ t \div ms_per_min = Minutes(t)
  BY ClockRadices, <1>1, Division, DivisionTwice DEF Minutes, Seconds, ms_per_min
<1>3. Hours(t) \in Int
  BY ClockRadices, <1>2, Division DEF Hours
<1>4. t \div ms_per_hr = Hours(t)
  BY ClockRadices, DayRadix, <1>2, DivisionTwice DEF Hours, ms_per_hr
<1>5. day(t) = Hours(t) \div hr_per_day
  BY ClockRadices, DayRadix, <1>4, DivisionTwice DEF day, ms_per_day
<1>6. day(t) \in Int
  BY DayRadix
<1> QED
  BY <1>1, <1>2, <1>3, <1>4, <1>5, <1>6
     DEF ms_from_time, sec_from_time, min_from_time, hour_from_time, Seconds

ClockDigits(h, mi, s, ms) ==
  /\ h \in 0 .. hr_per_day - 1 /\ mi \in 0 .. min_per_hr - 1
  /\ s \in 0 .. sec_per_min - 1 /\ ms \in 0 .. ms_per_sec - 1

LEMMA DigitsInRange ==
  ASSUME NEW t \in Int
  PROVE  ClockDigits(hour_from_time(t), min_from_time(t), sec_from_time(t), ms_from_time(t))
BY ClockRadices, MixedDigits, Division DEF ClockDigits

(* make_date and make_time, as one sum of sums. *)
LEMMA TimeOfDigits ==
  ASSUME NEW n \in Int, NEW h \in Int, NEW mi \in Int, NEW s \in Int, NEW ms \in Int
  PROVE  make_date(n, make_time(h, mi, s, ms)) =
           (((n * hr_per_day + h) * min_per_hr + mi) * sec_per_min + s) * ms_per_sec + ms
<1> DEFINE H == hr_per_day
           N == min_per_hr
           S == sec_per_min
           M == ms_per_sec
<1>1. H \in Int /\ N \in Int /\ S \in Int /\ M \in Int
  BY ClockRadices DEF Radix
<1>2. make_date(n, make_time(h, mi, s, ms)) = n * (H * (N * (S * M))) + (((h * N + mi) * S + s) * M + ms)
  BY DEF make_date, make_time, ms_per_day, ms_per_hr, ms_per_min
<1> HIDE DEF H, N, S, M
<1>3. n * (H * (N * (S * M))) = (((n * H) * N) * S) * M
  BY <1>1
<1> DEFINE a == n * H
           b == a * N
           c == b * S
           d == c * M
           x == h * N + mi
           z == x * S + s
<1>4. a \in Int /\ b \in Int /\ c \in Int /\ d \in Int /\ x \in Int /\ z \in Int
  BY <1>1
<1>5. (a + h) * N + mi = b + x
  BY <1>1
<1> HIDE DEF a, b, x
<1>6. (b + x) * S + s = c + z
  BY <1>1, <1>4
<1> HIDE DEF c, z
<1>7. (c + z) * M + ms = d + (z * M + ms)
  BY <1>1, <1>4
<1> QED
  BY <1>2, <1>3, <1>5, <1>6, <1>7 DEF H, N, S, M, a, b, c, d, x, z

(* The parts of a time make it again. *)
LEMMA TimeIsMade ==
  ASSUME NEW t \in Int
  PROVE  make_date(day(t), make_time(hour_from_time(t), min_from_time(t),
                                     sec_from_time(t), ms_from_time(t))) = t
<1>1. /\ t = Seconds(t) * ms_per_sec + ms_from_time(t)
      /\ Seconds(t) = Minutes(t) * sec_per_min + sec_from_time(t)
      /\ Minutes(t) = Hours(t) * min_per_hr + min_from_time(t)
      /\ Hours(t) = day(t) * hr_per_day + hour_from_time(t)
  <2>1. t = Seconds(t) * ms_per_sec + (t % ms_per_sec)
    BY ClockRadices, Division DEF Seconds
  <2>2. Seconds(t) = Minutes(t) * sec_per_min + (Seconds(t) % sec_per_min)
    BY ClockRadices, MixedDigits, Division DEF Minutes
  <2>3. Minutes(t) = Hours(t) * min_per_hr + (Minutes(t) % min_per_hr)
    BY ClockRadices, MixedDigits, Division DEF Hours
  <2>4. Hours(t) = day(t) * hr_per_day + (Hours(t) % hr_per_day)
    BY ClockRadices, MixedDigits, Division
  <2> QED
    BY <2>1, <2>2, <2>3, <2>4, MixedDigits
<1>2. /\ day(t) \in Int /\ hour_from_time(t) \in Int /\ min_from_time(t) \in Int
      /\ sec_from_time(t) \in Int /\ ms_from_time(t) \in Int
  BY MixedDigits, DigitsInRange DEF ClockDigits
<1> QED
  BY <1>1, <1>2, TimeOfDigits

(* And no other digits do. *)
LEMMA DigitsUnique ==
  ASSUME NEW n \in Int, NEW h, NEW mi, NEW s, NEW ms, ClockDigits(h, mi, s, ms)
  PROVE  LET t == make_date(n, make_time(h, mi, s, ms))
         IN  /\ t \in Int /\ day(t) = n
             /\ hour_from_time(t) = h /\ min_from_time(t) = mi
             /\ sec_from_time(t) = s /\ ms_from_time(t) = ms
<1> DEFINE t == make_date(n, make_time(h, mi, s, ms))
           c == n * hr_per_day + h
           b == c * min_per_hr + mi
           a == b * sec_per_min + s
<1>0. /\ h \in 0 .. hr_per_day - 1 /\ mi \in 0 .. min_per_hr - 1
      /\ s \in 0 .. sec_per_min - 1 /\ ms \in 0 .. ms_per_sec - 1
  BY DEF ClockDigits
<1>a. /\ hr_per_day \in Int /\ min_per_hr \in Int /\ sec_per_min \in Int /\ ms_per_sec \in Int
      /\ h \in Int /\ mi \in Int /\ s \in Int /\ ms \in Int
  BY <1>0, ClockRadices DEF Radix
<1>1. t = a * ms_per_sec + ms
  BY <1>a, TimeOfDigits
<1> HIDE DEF t
<1>2. c \in Int /\ c \div hr_per_day = n /\ c % hr_per_day = h
  <2>1. c \in Int /\ c = n * hr_per_day + h
    BY <1>a
  <2> HIDE DEF c
  <2> QED
    BY <1>0, <2>1, ClockRadices, DivisionUnique
<1> HIDE DEF c
<1>3. b \in Int /\ b \div min_per_hr = c /\ b % min_per_hr = mi
  <2>1. b \in Int /\ b = c * min_per_hr + mi
    BY <1>a, <1>2
  <2> HIDE DEF b
  <2> QED
    BY <1>0, <1>2, <2>1, ClockRadices, DivisionUnique
<1> HIDE DEF b
<1>4. a \in Int /\ a \div sec_per_min = b /\ a % sec_per_min = s
  <2>1. a \in Int /\ a = b * sec_per_min + s
    BY <1>a, <1>3
  <2> HIDE DEF a
  <2> QED
    BY <1>0, <1>3, <2>1, ClockRadices, DivisionUnique
<1> HIDE DEF a
<1>5. t \in Int
  BY <1>1, <1>4, <1>a
<1>6. t \div ms_per_sec = a /\ t % ms_per_sec = ms
  BY <1>0, <1>1, <1>4, <1>5, ClockRadices, DivisionUnique
<1>7. Seconds(t) = a /\ Minutes(t) = b /\ Hours(t) = c
  BY <1>2, <1>3, <1>4, <1>6 DEF Seconds, Minutes, Hours
<1> QED
  BY <1>2, <1>3, <1>4, <1>5, <1>6, <1>7, MixedDigits DEF t

-----------------------------------------------------------------------------
(* The parts of a time.                                                    *)

(* What parts of a time are. *)
Proper(p) ==
  /\ p = [i \in 0 .. 6 |-> p[i]]
  /\ p[0] \in Int /\ p[1] \in 0 .. 11 /\ p[2] \in 1 .. DaysInMonth(p[1], p[0])
  /\ ClockDigits(p[3], p[4], p[5], p[6])

DayOf(p) == day_from_year(p[0]) + Start(p[1], Leap(p[0])) + p[2] - 1

LEMMA PartsAre ==
  ASSUME NEW t
  PROVE  /\ Parts(t) = [i \in 0 .. 6 |-> Parts(t)[i]]
         /\ Parts(t)[0] = year_from_time(t) /\ Parts(t)[1] = month_from_time(t)
         /\ Parts(t)[2] = date_from_time(t) /\ Parts(t)[3] = hour_from_time(t)
         /\ Parts(t)[4] = min_from_time(t) /\ Parts(t)[5] = sec_from_time(t)
         /\ Parts(t)[6] = ms_from_time(t)
         /\ \A i \in 0 .. 6 : Parts(t)[i] = make_part(t, i)
BY DEF Parts, make_part

LEMMA SameParts ==
  ASSUME NEW p, NEW q, p = [i \in 0 .. 6 |-> p[i]], q = [i \in 0 .. 6 |-> q[i]],
         p[0] = q[0], p[1] = q[1], p[2] = q[2], p[3] = q[3], p[4] = q[4], p[5] = q[5], p[6] = q[6]
  PROVE  p = q
<1>1. \A i \in 0 .. 6 : p[i] = q[i]
  OBVIOUS
<1>2. [i \in 0 .. 6 |-> p[i]] = [i \in 0 .. 6 |-> q[i]]
  BY <1>1
<1> QED
  BY <1>2

LEMMA PartsAreProper ==
  ASSUME NEW t \in Int
  PROVE  Proper(Parts(t)) /\ day(t) = DayOf(Parts(t))
<1>1. Dated(day(t), year_from_time(t), month_from_time(t), date_from_time(t))
  BY PartsAreDated
<1>2. ClockDigits(hour_from_time(t), min_from_time(t), sec_from_time(t), ms_from_time(t))
  BY DigitsInRange
<1> QED
  BY <1>1, <1>2, PartsAre DEF Proper, Dated, DayOf

LEMMA DayOfYearStart ==
  ASSUME NEW y \in Int, NEW m \in 0 .. 11
  PROVE  day_from_month(m, y) = Start(m, Leap(y))
<1> DEFINE l == Leap(y)
           s == time_from_year(y)
<1>1. s \in Int /\ day(s) = day_from_year(y)
  BY YearStart
<1>2. InYear(day(s), y)
  BY <1>1, DaysOfYear DEF InYear
<1>3. year_from_time(s) = y
  BY <1>1, <1>2, DayRadix, YearFound, OneYear
<1>4. in_leap_year(s) <=> l = 1
  BY <1>3 DEF in_leap_year, Leap
<1>5. l \in {0, 1}
  BY DEF Leap
<1>6. day_from_month(m, y) =
        m * 30 + (IF m >= 7 THEN m \div 2 - 1 ELSE IF m >= 2 THEN (m - 1) \div 2 - 1 ELSE m)
               + (IF m >= 2 /\ in_leap_year(s) THEN 1 ELSE 0)
  BY DEF day_from_month
<1> HIDE DEF s, l
<1>7. day_from_month(m, y) = Start(m, l)
  <2>1. CASE m \in 0 .. 3
    BY <1>4, <1>5, <1>6, <2>1, Starts
  <2>2. CASE m \in 4 .. 7
    BY <1>4, <1>5, <1>6, <2>2, Starts
  <2>3. CASE m \in 8 .. 11
    BY <1>4, <1>5, <1>6, <2>3, Starts
  <2> QED
    BY <2>1, <2>2, <2>3
<1> QED
  BY <1>7 DEF l

(* make_day, for the months of a year and the next one back. *)
LEMMA MakeDay ==
  ASSUME NEW y \in Int, NEW m \in -11 .. 11, NEW dt \in Int
  PROVE  LET z == IF m < 0 THEN y - 1 ELSE y
         IN  /\ m % 12 \in 0 .. 11 /\ z \in Int
             /\ make_day(y, m, dt) = day_from_year(z) + Start(m % 12, Leap(z)) + dt - 1
<1> DEFINE z == IF m < 0 THEN y - 1 ELSE y
           n == IF m < 0 THEN m + 12 ELSE m
<1>1. /\ fmod(m, 12) = m /\ y + m \div 12 = z /\ n = m % 12
      /\ m % 12 \in 0 .. 11 /\ z \in Int
  BY DEF fmod
<1>2. make_day(y, m, dt) = day(time_from_year(z)) + day_from_month(n, z) + dt - 1
  BY <1>1 DEF make_day
<1> HIDE DEF z, n
<1>3. day(time_from_year(z)) = day_from_year(z) /\ day_from_month(n, z) = Start(n, Leap(z))
  BY <1>1, YearStart, DayOfYearStart
<1> QED
  BY <1>1, <1>2, <1>3 DEF z

LEMMA MakeProperDay ==
  ASSUME NEW p, Proper(p)
  PROVE  make_day(p[0], p[1], p[2]) = DayOf(p)
<1> DEFINE y == p[0]
           m == p[1]
           dt == p[2]
<1>1. y \in Int /\ m \in 0 .. 11 /\ dt \in 1 .. DaysInMonth(m, y)
  BY DEF Proper
<1>2. DayOf(p) = day_from_year(y) + Start(m, Leap(y)) + dt - 1
  BY DEF DayOf
<1> HIDE DEF y, m, dt
<1>3. DaysInMonth(m, y) \in 28 .. 31
  BY <1>1, MonthSpan
<1>4. m \in -11 .. 11 /\ ~ (m < 0) /\ m % 12 = m /\ dt \in Int
  BY <1>1, <1>3
<1>5. make_day(y, m, dt) = DayOf(p)
  BY <1>1, <1>2, <1>4, MakeDay
<1> QED
  BY <1>5 DEF y, m, dt

(* Proper parts are those of the time they make. *)
LEMMA ComposedParts ==
  ASSUME NEW p, Proper(p)
  PROVE  Composed(p) \in Int /\ Parts(Composed(p)) = p /\ day(Composed(p)) = DayOf(p)
<1> DEFINE t == Composed(p)
           n == make_day(p[0], p[1], p[2])
<1>1. /\ p[0] \in Int /\ p[1] \in 0 .. 11 /\ p[2] \in 1 .. DaysInMonth(p[1], p[0])
      /\ ClockDigits(p[3], p[4], p[5], p[6]) /\ p = [i \in 0 .. 6 |-> p[i]]
  BY DEF Proper
<1>2. n = DayOf(p)
  BY MakeProperDay
<1>3. t = make_date(n, make_time(p[3], p[4], p[5], p[6]))
  BY DEF Composed
<1> HIDE DEF t, n
<1>4. n \in Int /\ Dated(n, p[0], p[1], p[2])
  <2>1. day_from_year(p[0]) \in Int /\ Start(p[1], Leap(p[0])) \in Nat /\ p[2] \in Int
    BY <1>1, DaysOfYear, MonthSpan
  <2> QED
    BY <1>1, <1>2, <2>1 DEF Dated, DayOf
<1>5. /\ t \in Int /\ day(t) = n
      /\ hour_from_time(t) = p[3] /\ min_from_time(t) = p[4]
      /\ sec_from_time(t) = p[5] /\ ms_from_time(t) = p[6]
  BY <1>1, <1>3, <1>4, DigitsUnique
<1>6. year_from_time(t) = p[0] /\ month_from_time(t) = p[1] /\ date_from_time(t) = p[2]
  BY <1>4, <1>5, DatedParts
<1>7. Parts(t) = p
  BY <1>1, <1>5, <1>6, PartsAre, SameParts
<1> QED
  BY <1>2, <1>5, <1>7 DEF t

(* The parts of a time make it. *)
LEMMA PartsCompose ==
  ASSUME NEW t \in Int
  PROVE  Composed(Parts(t)) = t
<1> DEFINE p == Parts(t)
<1>1. Proper(p) /\ day(t) = DayOf(p)
  BY PartsAreProper
<1>2. /\ p[3] = hour_from_time(t) /\ p[4] = min_from_time(t)
      /\ p[5] = sec_from_time(t) /\ p[6] = ms_from_time(t)
  BY PartsAre
<1> HIDE DEF p
<1>3. make_day(p[0], p[1], p[2]) = DayOf(p)
  BY <1>1, MakeProperDay
<1>4. Composed(p) = make_date(day(t), make_time(hour_from_time(t), min_from_time(t), sec_from_time(t), ms_from_time(t)))
  BY <1>1, <1>2, <1>3 DEF Composed
<1> QED
  BY <1>4, TimeIsMade DEF p

-----------------------------------------------------------------------------
(* The next day and the next millisecond.                                  *)

LEMMA DayAfterProper ==
  ASSUME NEW p, Proper(p)
  PROVE  LET q == DayAfter(p)
         IN  /\ q = [i \in 0 .. 6 |-> q[i]]
             /\ \A i \in 3 .. 6 : q[i] = p[i]
             /\ \A n \in Int : Dated(n, p[0], p[1], p[2]) => Dated(n + 1, q[0], q[1], q[2])
<1> DEFINE q == DayAfter(p)
           full == DaysInMonth(p[1], p[0])
<1>1. /\ p = [i \in 0 .. 6 |-> p[i]] /\ p[1] \in 0 .. 11 /\ p[2] \in 1 .. full /\ p[0] \in Int
  BY DEF Proper
<1>2. full \in 28 .. 31
  BY <1>1, MonthSpan
<1>3. q = IF p[2] < full THEN [p EXCEPT ![2] = @ + 1]
          ELSE IF p[1] < 11 THEN [p EXCEPT ![2] = 1, ![1] = @ + 1]
          ELSE [p EXCEPT ![2] = 1, ![1] = 0, ![0] = @ + 1]
  BY DEF DayAfter
<1>a. \A n \in Int : Dated(n, p[0], p[1], p[2]) =>
        /\ p[2] < full => Dated(n + 1, p[0], p[1], p[2] + 1)
        /\ p[2] >= full /\ p[1] < 11 => Dated(n + 1, p[0], p[1] + 1, 1)
        /\ p[2] >= full /\ ~ (p[1] < 11) => Dated(n + 1, p[0] + 1, 0, 1)
  BY DatedNext
<1> HIDE DEF q, full
<1>4. CASE p[2] < full
  <2>1. q = [p EXCEPT ![2] = @ + 1]
    BY <1>3, <1>4
  <2>2. q[0] = p[0] /\ q[1] = p[1] /\ q[2] = p[2] + 1 /\ DOMAIN q = 0 .. 6 /\ \A i \in 3 .. 6 : q[i] = p[i]
    BY <1>1, <2>1
  <2>3. q = [i \in 0 .. 6 |-> q[i]]
    BY <1>1, <2>1
  <2> QED
    BY <1>a, <1>4, <2>2, <2>3 DEF q
<1>5. CASE p[2] >= full /\ p[1] < 11
  <2>1. q = [p EXCEPT ![2] = 1, ![1] = @ + 1]
    BY <1>1, <1>2, <1>3, <1>5
  <2>2. q[0] = p[0] /\ q[1] = p[1] + 1 /\ q[2] = 1 /\ \A i \in 3 .. 6 : q[i] = p[i]
    BY <1>1, <2>1
  <2>3. q = [i \in 0 .. 6 |-> q[i]]
    BY <1>1, <2>1
  <2> QED
    BY <1>a, <1>5, <2>2, <2>3 DEF q
<1>6. CASE p[2] >= full /\ ~ (p[1] < 11)
  <2>1. q = [p EXCEPT ![2] = 1, ![1] = 0, ![0] = @ + 1]
    BY <1>1, <1>2, <1>3, <1>6
  <2>2. q[0] = p[0] + 1 /\ q[1] = 0 /\ q[2] = 1 /\ \A i \in 3 .. 6 : q[i] = p[i]
    BY <1>1, <2>1
  <2>3. q = [i \in 0 .. 6 |-> q[i]]
    BY <1>1, <2>1
  <2> QED
    BY <1>a, <1>6, <2>2, <2>3 DEF q
<1> QED
  BY <1>1, <1>2, <1>4, <1>5, <1>6

(* Parts whose day is the next one's. *)
LEMMA NextDayParts ==
  ASSUME NEW t \in Int, NEW u \in Int, day(u) = day(t) + 1, NEW p, Proper(p),
         \A i \in 0 .. 2 : p[i] = Parts(t)[i], \A i \in 3 .. 6 : p[i] = Parts(u)[i]
  PROVE  Parts(u) = DayAfter(p)
<1> DEFINE q == DayAfter(p)
<1>1. /\ q = [i \in 0 .. 6 |-> q[i]] /\ \A i \in 3 .. 6 : q[i] = p[i]
      /\ \A n \in Int : Dated(n, p[0], p[1], p[2]) => Dated(n + 1, q[0], q[1], q[2])
  BY DayAfterProper
<1> HIDE DEF q
<1>2. Dated(day(t), p[0], p[1], p[2]) /\ day(t) \in Int
  BY PartsAreDated, PartsAre, DayRadix
<1>3. Dated(day(u), q[0], q[1], q[2])
  BY <1>1, <1>2
<1>4. year_from_time(u) = q[0] /\ month_from_time(u) = q[1] /\ date_from_time(u) = q[2]
  BY <1>3, DatedParts
<1>5. Parts(u)[0] = q[0] /\ Parts(u)[1] = q[1] /\ Parts(u)[2] = q[2]
  BY <1>4, PartsAre
<1>6. Parts(u)[3] = q[3] /\ Parts(u)[4] = q[4] /\ Parts(u)[5] = q[5] /\ Parts(u)[6] = q[6]
  BY <1>1
<1>7. Parts(u) = [i \in 0 .. 6 |-> Parts(u)[i]]
  BY PartsAre
<1> QED
  BY <1>1, <1>5, <1>6, <1>7, SameParts DEF q

(* A day later the clock shows the same. *)
LEMMA DayLater ==
  ASSUME NEW t \in Int
  PROVE  LET u == t + ms_per_day
         IN  /\ u \in Int /\ day(u) = day(t) + 1
             /\ hour_from_time(u) = hour_from_time(t) /\ min_from_time(u) = min_from_time(t)
             /\ sec_from_time(u) = sec_from_time(t) /\ ms_from_time(u) = ms_from_time(t)
<1> DEFINE n == day(t)
           c == make_time(hour_from_time(t), min_from_time(t), sec_from_time(t), ms_from_time(t))
<1>1. n \in Int /\ n + 1 \in Int /\ ms_per_day \in Int
  BY DayRadix DEF Radix
<1>2. ClockDigits(hour_from_time(t), min_from_time(t), sec_from_time(t), ms_from_time(t))
  BY DigitsInRange
<1>3. make_date(n, c) = t
  BY TimeIsMade
<1>4. c \in Int
  BY <1>2, ClockRadices DEF ClockDigits, make_time, Radix
<1>5. /\ make_date(n + 1, c) \in Int /\ day(make_date(n + 1, c)) = n + 1
      /\ hour_from_time(make_date(n + 1, c)) = hour_from_time(t)
      /\ min_from_time(make_date(n + 1, c)) = min_from_time(t)
      /\ sec_from_time(make_date(n + 1, c)) = sec_from_time(t)
      /\ ms_from_time(make_date(n + 1, c)) = ms_from_time(t)
  BY <1>1, <1>2, DigitsUnique
<1> HIDE DEF n, c
<1>6. make_date(n + 1, c) = t + ms_per_day
  BY <1>1, <1>3, <1>4 DEF make_date
<1> QED
  BY <1>5, <1>6 DEF n

LEMMA NextDay ==
  ASSUME NEW t \in Int
  PROVE  /\ Parts(t + ms_per_day) = DayAfter(Parts(t))
         /\ week_day(t + ms_per_day) = (week_day(t) + 1) % 7
<1> DEFINE u == t + ms_per_day
<1>1. /\ u \in Int /\ day(u) = day(t) + 1 /\ day(t) \in Int
      /\ hour_from_time(u) = hour_from_time(t) /\ min_from_time(u) = min_from_time(t)
      /\ sec_from_time(u) = sec_from_time(t) /\ ms_from_time(u) = ms_from_time(t)
  BY DayLater, DayRadix
<1> HIDE DEF u
<1>2. \A i \in 3 .. 6 : Parts(t)[i] = Parts(u)[i]
  BY <1>1, PartsAre
<1>3. Parts(u) = DayAfter(Parts(t))
  BY <1>1, <1>2, PartsAreProper, NextDayParts
<1>4. week_day(u) = (week_day(t) + 1) % 7
  <2>1. \A n \in Int : (n + 1 + 4) % 7 = (((n + 4) % 7) + 1) % 7
    OBVIOUS
  <2> QED
    BY <1>1, <2>1 DEF week_day
<1> QED
  BY <1>3, <1>4 DEF u

LEMMA ClockNext ==
  ASSUME NEW t \in Int
  PROVE  LET u  == t + 1
             h  == hour_from_time(t)
             mi == min_from_time(t)
             s  == sec_from_time(t)
             ms == ms_from_time(t)
             Shows(n, a, b, c, d) ==
               /\ day(u) = n /\ hour_from_time(u) = a /\ min_from_time(u) = b
               /\ sec_from_time(u) = c /\ ms_from_time(u) = d
         IN  /\ ms < ms_per_sec - 1 => Shows(day(t), h, mi, s, ms + 1)
             /\ ~ (ms < ms_per_sec - 1) /\ s < sec_per_min - 1 => Shows(day(t), h, mi, s + 1, 0)
             /\ ~ (ms < ms_per_sec - 1) /\ ~ (s < sec_per_min - 1) /\ mi < min_per_hr - 1
                  => Shows(day(t), h, mi + 1, 0, 0)
             /\ ~ (ms < ms_per_sec - 1) /\ ~ (s < sec_per_min - 1) /\ ~ (mi < min_per_hr - 1)
                /\ h < hr_per_day - 1 => Shows(day(t), h + 1, 0, 0, 0)
             /\ ~ (ms < ms_per_sec - 1) /\ ~ (s < sec_per_min - 1) /\ ~ (mi < min_per_hr - 1)
                /\ ~ (h < hr_per_day - 1) => Shows(day(t) + 1, 0, 0, 0, 0)
<1> DEFINE u == t + 1
<1>0. u \in Int
  OBVIOUS
<1>1. /\ Seconds(t) \in Int /\ Minutes(t) \in Int /\ Hours(t) \in Int
      /\ ms_from_time(t) = t % ms_per_sec
      /\ sec_from_time(t) = Seconds(t) % sec_per_min
      /\ min_from_time(t) = Minutes(t) % min_per_hr
      /\ hour_from_time(t) = Hours(t) % hr_per_day
      /\ day(t) = Hours(t) \div hr_per_day
  BY MixedDigits
<1>2. /\ ms_from_time(u) = u % ms_per_sec
      /\ sec_from_time(u) = Seconds(u) % sec_per_min
      /\ min_from_time(u) = Minutes(u) % min_per_hr
      /\ hour_from_time(u) = Hours(u) % hr_per_day
      /\ day(u) = Hours(u) \div hr_per_day
  BY <1>0, MixedDigits
<1>3. IF ms_from_time(t) < ms_per_sec - 1
      THEN Seconds(u) = Seconds(t) /\ ms_from_time(u) = ms_from_time(t) + 1
      ELSE Seconds(u) = Seconds(t) + 1 /\ ms_from_time(u) = 0
  <2>1. IF t % ms_per_sec < ms_per_sec - 1
        THEN u \div ms_per_sec = t \div ms_per_sec /\ u % ms_per_sec = (t % ms_per_sec) + 1
        ELSE u \div ms_per_sec = t \div ms_per_sec + 1 /\ u % ms_per_sec = 0
    BY ClockRadices, DivisionNext
  <2> QED
    BY <1>1, <1>2, <2>1 DEF Seconds
<1>4. ASSUME Seconds(u) = Seconds(t) + 1
      PROVE  IF sec_from_time(t) < sec_per_min - 1
             THEN Minutes(u) = Minutes(t) /\ sec_from_time(u) = sec_from_time(t) + 1
             ELSE Minutes(u) = Minutes(t) + 1 /\ sec_from_time(u) = 0
  BY <1>1, <1>2, <1>4, ClockRadices, DivisionNext DEF Minutes
<1>5. ASSUME Minutes(u) = Minutes(t) + 1
      PROVE  IF min_from_time(t) < min_per_hr - 1
             THEN Hours(u) = Hours(t) /\ min_from_time(u) = min_from_time(t) + 1
             ELSE Hours(u) = Hours(t) + 1 /\ min_from_time(u) = 0
  BY <1>1, <1>2, <1>5, ClockRadices, DivisionNext DEF Hours
<1>6. ASSUME Hours(u) = Hours(t) + 1
      PROVE  IF hour_from_time(t) < hr_per_day - 1
             THEN day(u) = day(t) /\ hour_from_time(u) = hour_from_time(t) + 1
             ELSE day(u) = day(t) + 1 /\ hour_from_time(u) = 0
  BY <1>1, <1>2, <1>6, ClockRadices, DivisionNext
<1>7. /\ Seconds(u) = Seconds(t) => Minutes(u) = Minutes(t) /\ sec_from_time(u) = sec_from_time(t)
      /\ Minutes(u) = Minutes(t) => Hours(u) = Hours(t) /\ min_from_time(u) = min_from_time(t)
      /\ Hours(u) = Hours(t) => day(u) = day(t) /\ hour_from_time(u) = hour_from_time(t)
  BY <1>1, <1>2 DEF Minutes, Hours
<1> HIDE DEF u
<1> QED
  BY <1>3, <1>4, <1>5, <1>6, <1>7 DEF u

(* Tick, for the last digit that is not at its end. *)
LEMMA ClockMaxIs ==
  /\ ClockMax[3] = hr_per_day - 1 /\ ClockMax[4] = min_per_hr - 1
  /\ ClockMax[5] = sec_per_min - 1 /\ ClockMax[6] = ms_per_sec - 1
BY DEF ClockMax

LEMMA TickAt ==
  ASSUME NEW p, NEW f \in 3 .. 6, p[f] < ClockMax[f],
         \A i \in 3 .. 6 : i > f => ~ (p[i] < ClockMax[i])
  PROVE  Tick(p) = [i \in 0 .. 6 |-> IF i > f THEN 0 ELSE IF i = f THEN p[i] + 1 ELSE p[i]]
<1> DEFINE open == {i \in 3 .. 6 : p[i] < ClockMax[i]}
           from == IF open = {} THEN 2 ELSE CHOOSE i \in open : \A j \in open : j <= i
           q    == [i \in 0 .. 6 |-> IF i > from THEN 0 ELSE IF i = from /\ i > 2 THEN p[i] + 1 ELSE p[i]]
<1>1. Tick(p) = IF open = {} THEN DayAfter(q) ELSE q
  BY DEF Tick
<1>2. f \in open /\ \A i \in open : i <= f
  OBVIOUS
<1>3. \A i \in open : (\A j \in open : j <= i) => i = f
  <2> SUFFICES ASSUME NEW i \in open, \A j \in open : j <= i PROVE i = f
    OBVIOUS
  <2>1. i \in 3 .. 6 /\ i <= f /\ f <= i
    BY <1>2
  <2> QED
    BY <2>1
<1> HIDE DEF open
<1>4. from = f
  BY <1>2, <1>3
<1> HIDE DEF from
<1>5. q = [i \in 0 .. 6 |-> IF i > f THEN 0 ELSE IF i = f THEN p[i] + 1 ELSE p[i]]
  BY <1>4
<1> HIDE DEF q
<1> QED
  BY <1>1, <1>2, <1>5

LEMMA TickOver ==
  ASSUME NEW p, \A i \in 3 .. 6 : ~ (p[i] < ClockMax[i])
  PROVE  Tick(p) = DayAfter([i \in 0 .. 6 |-> IF i > 2 THEN 0 ELSE p[i]])
<1> DEFINE open == {i \in 3 .. 6 : p[i] < ClockMax[i]}
           from == IF open = {} THEN 2 ELSE CHOOSE i \in open : \A j \in open : j <= i
           q    == [i \in 0 .. 6 |-> IF i > from THEN 0 ELSE IF i = from /\ i > 2 THEN p[i] + 1 ELSE p[i]]
<1>1. Tick(p) = IF open = {} THEN DayAfter(q) ELSE q
  BY DEF Tick
<1>2. open = {}
  OBVIOUS
<1> HIDE DEF open
<1>3. q = [i \in 0 .. 6 |-> IF i > 2 THEN 0 ELSE p[i]]
  BY <1>2
<1> HIDE DEF q
<1> QED
  BY <1>1, <1>2, <1>3

(* Times of the same day have the same date. *)
LEMMA SameDay ==
  ASSUME NEW t \in Int, NEW u \in Int, day(u) = day(t)
  PROVE  Parts(u)[0] = Parts(t)[0] /\ Parts(u)[1] = Parts(t)[1] /\ Parts(u)[2] = Parts(t)[2]
<1>1. Dated(day(u), year_from_time(t), month_from_time(t), date_from_time(t))
  BY PartsAreDated
<1>2. year_from_time(u) = year_from_time(t) /\ month_from_time(u) = month_from_time(t)
      /\ date_from_time(u) = date_from_time(t)
  BY <1>1, DatedParts
<1> QED
  BY <1>2, PartsAre

LEMMA NextMillisecond ==
  ASSUME NEW t \in Int
  PROVE  Parts(t + 1) = Tick(Parts(t))
<1> DEFINE p == Parts(t)
           u == t + 1
           r == Parts(u)
           Shows(n, a, b, c, d) == day(u) = n /\ r[3] = a /\ r[4] = b /\ r[5] = c /\ r[6] = d
           n == day(t)
<1>0. u \in Int /\ n \in Int
  BY DayRadix
<1>1. /\ p[6] < ClockMax[6] => Shows(n, p[3], p[4], p[5], p[6] + 1)
      /\ ~ (p[6] < ClockMax[6]) /\ p[5] < ClockMax[5] => Shows(n, p[3], p[4], p[5] + 1, 0)
      /\ ~ (p[6] < ClockMax[6]) /\ ~ (p[5] < ClockMax[5]) /\ p[4] < ClockMax[4] => Shows(n, p[3], p[4] + 1, 0, 0)
      /\ ~ (p[6] < ClockMax[6]) /\ ~ (p[5] < ClockMax[5]) /\ ~ (p[4] < ClockMax[4]) /\ p[3] < ClockMax[3]
           => Shows(n, p[3] + 1, 0, 0, 0)
      /\ ~ (p[6] < ClockMax[6]) /\ ~ (p[5] < ClockMax[5]) /\ ~ (p[4] < ClockMax[4]) /\ ~ (p[3] < ClockMax[3])
           => Shows(n + 1, 0, 0, 0, 0)
  <2>1. /\ p[3] = hour_from_time(t) /\ p[4] = min_from_time(t) /\ p[5] = sec_from_time(t) /\ p[6] = ms_from_time(t)
        /\ r[3] = hour_from_time(u) /\ r[4] = min_from_time(u) /\ r[5] = sec_from_time(u) /\ r[6] = ms_from_time(u)
    BY PartsAre
  <2> QED
    BY <2>1, ClockNext, ClockMaxIs
<1>2. r = [i \in 0 .. 6 |-> r[i]]
  BY PartsAre
<1>3. day(u) = n => r[0] = p[0] /\ r[1] = p[1] /\ r[2] = p[2]
  BY <1>0, SameDay
<1>4. Proper(p)
  BY PartsAreProper
<1>t. \A f \in 3 .. 6 :
        p[f] < ClockMax[f] /\ (\A i \in 3 .. 6 : i > f => ~ (p[i] < ClockMax[i]))
        => Tick(p) = [i \in 0 .. 6 |-> IF i > f THEN 0 ELSE IF i = f THEN p[i] + 1 ELSE p[i]]
  BY TickAt
<1>d. (\A i \in 3 .. 6 : ~ (p[i] < ClockMax[i]))
        => Tick(p) = DayAfter([i \in 0 .. 6 |-> IF i > 2 THEN 0 ELSE p[i]])
  BY TickOver
<1>n. \A q : Proper(q) /\ day(u) = n + 1 /\ (\A i \in 0 .. 2 : q[i] = p[i]) /\ (\A i \in 3 .. 6 : q[i] = r[i])
             => r = DayAfter(q)
  BY <1>0, NextDayParts
<1> HIDE DEF p, u, r, n
<1> SUFFICES r = Tick(p)
  BY DEF p, u, r
<1>5. CASE p[6] < ClockMax[6]
  <2>1. Tick(p) = [i \in 0 .. 6 |-> IF i > 6 THEN 0 ELSE IF i = 6 THEN p[i] + 1 ELSE p[i]]
    BY <1>t, <1>5
  <2> QED
    BY <1>1, <1>2, <1>3, <1>5, <2>1, SameParts
<1>6. CASE ~ (p[6] < ClockMax[6]) /\ p[5] < ClockMax[5]
  <2>1. Tick(p) = [i \in 0 .. 6 |-> IF i > 5 THEN 0 ELSE IF i = 5 THEN p[i] + 1 ELSE p[i]]
    BY <1>t, <1>6
  <2> QED
    BY <1>1, <1>2, <1>3, <1>6, <2>1, SameParts
<1>7. CASE ~ (p[6] < ClockMax[6]) /\ ~ (p[5] < ClockMax[5]) /\ p[4] < ClockMax[4]
  <2>1. Tick(p) = [i \in 0 .. 6 |-> IF i > 4 THEN 0 ELSE IF i = 4 THEN p[i] + 1 ELSE p[i]]
    BY <1>t, <1>7
  <2> QED
    BY <1>1, <1>2, <1>3, <1>7, <2>1, SameParts
<1>8. CASE ~ (p[6] < ClockMax[6]) /\ ~ (p[5] < ClockMax[5]) /\ ~ (p[4] < ClockMax[4]) /\ p[3] < ClockMax[3]
  <2>1. Tick(p) = [i \in 0 .. 6 |-> IF i > 3 THEN 0 ELSE IF i = 3 THEN p[i] + 1 ELSE p[i]]
    BY <1>t, <1>8
  <2> QED
    BY <1>1, <1>2, <1>3, <1>8, <2>1, SameParts
<1>9. CASE ~ (p[6] < ClockMax[6]) /\ ~ (p[5] < ClockMax[5]) /\ ~ (p[4] < ClockMax[4]) /\ ~ (p[3] < ClockMax[3])
  <2> DEFINE q == [i \in 0 .. 6 |-> IF i > 2 THEN 0 ELSE p[i]]
  <2>1. Tick(p) = DayAfter(q)
    BY <1>d, <1>9
  <2>2. /\ q = [i \in 0 .. 6 |-> q[i]] /\ q[0] = p[0] /\ q[1] = p[1] /\ q[2] = p[2]
        /\ q[3] = 0 /\ q[4] = 0 /\ q[5] = 0 /\ q[6] = 0
    OBVIOUS
  <2> HIDE DEF q
  <2>3. Proper(q)
    BY <1>4, <2>2, ClockRadices DEF Proper, ClockDigits, Radix
  <2>4. \A i \in 0 .. 2 : q[i] = p[i]
    BY <2>2
  <2>5. \A i \in 3 .. 6 : q[i] = r[i]
    BY <1>1, <1>9, <2>2
  <2>6. r = DayAfter(q)
    BY <1>1, <1>9, <1>n, <2>3, <2>4, <2>5
  <2> QED
    BY <2>1, <2>6
<1> QED
  BY <1>5, <1>6, <1>7, <1>8, <1>9

-----------------------------------------------------------------------------
(* What the calls compute are whole numbers.                               *)

Number == Int \cup {NaN, Undefined}

LEMMA ValIsInt ==
  ASSUME NEW n \in Number
  PROVE  Val(n) \in Int
BY DEF Number, Val

LEMMA ArgIsInt ==
  ASSUME NEW args \in Seq(Number), NEW i \in Nat
  PROVE  Val(ARG(args, i)) \in Int
<1>1. Len(args) \in Nat
  BY LenProperties
<1>2. CASE i < Len(args)
  <2>1. i + 1 \in 1 .. Len(args)
    BY <1>1, <1>2
  <2>2. args[i + 1] \in Number
    BY <2>1, ElementOfSeq
  <2> QED
    BY <1>2, <2>2, ValIsInt DEF ARG
<1>3. CASE ~ (i < Len(args))
  BY <1>3, ValIsInt DEF ARG, Number
<1> QED
  BY <1>2, <1>3

LEMMA PartArgsAre == \A i : PartArgs(i) \subseteq Number
  BY DatesAssumption DEF PartArgs, Number

LEMMA ArgListsAre ==
  ASSUME NEW shift, NEW args \in ArgLists(shift)
  PROVE  args \in Seq(Number) /\ Len(args) \in 0 .. 2
<1>1. CASE args = <<>>
  BY <1>1
<1>2. CASE \E a \in PartArgs(shift) : args = <<a>>
  BY <1>2, PartArgsAre
<1>3. CASE \E a \in PartArgs(shift), b \in PartArgs(shift + 1) : args = <<a, b>>
  BY <1>3, PartArgsAre
<1> QED
  BY <1>1, <1>2, <1>3 DEF ArgLists

LEMMA NewListsAre == NewLists \subseteq Seq(Number)
<1> SUFFICES ASSUME NEW args \in NewLists PROVE args \in Seq(Number)
  OBVIOUS
<1>1. YearArgs \subseteq Number /\ MonthArgs \subseteq Number /\ DateArgs \subseteq Number
  BY DatesAssumption DEF Number
<1>2. CASE \E y \in YearArgs, m \in MonthArgs : args = <<y, m>>
  BY <1>1, <1>2
<1>3. CASE \E y \in YearArgs, m \in MonthArgs, d \in DateArgs : args = <<y, m, d>>
  BY <1>1, <1>3
<1> QED
  BY <1>2, <1>3 DEF NewLists

LEMMA DayFromMonthIsInt ==
  ASSUME NEW m \in Int, NEW y
  PROVE  day_from_month(m, y) \in Int
<1> DEFINE a == IF m >= 7 THEN m \div 2 - 1 ELSE IF m >= 2 THEN (m - 1) \div 2 - 1 ELSE m
           b == IF m >= 2 /\ in_leap_year(time_from_year(y)) THEN 1 ELSE 0
<1>1. a \in Int /\ b \in Int
  OBVIOUS
<1>2. day_from_month(m, y) = m * 30 + a + b
  BY DEF day_from_month
<1> HIDE DEF a, b
<1> QED
  BY <1>1, <1>2

LEMMA MakeDayIsInt ==
  ASSUME NEW y \in Int, NEW m \in Int, NEW dt \in Int
  PROVE  make_day(y, m, dt) \in Int
<1> DEFINE rem   == fmod(m, 12)
           year  == y + rem \div 12
           month == IF rem < 0 THEN rem + 12 ELSE rem
<1>1. rem \in Int
  BY DEF fmod
<1>2. make_day(y, m, dt) = day(time_from_year(year)) + day_from_month(month, year) + dt - 1
  BY DEF make_day
<1> HIDE DEF rem
<1>3. year \in Int /\ month \in Int
  BY <1>1
<1> HIDE DEF year, month
<1>4. day(time_from_year(year)) \in Int /\ day_from_month(month, year) \in Int
  BY <1>3, YearStart, DaysOfYear, DayFromMonthIsInt
<1> QED
  BY <1>2, <1>4

LEMMA MakeTimeIsInt ==
  ASSUME NEW h \in Int, NEW mi \in Int, NEW s \in Int, NEW ms \in Int
  PROVE  make_time(h, mi, s, ms) \in Int
BY ClockRadices DEF make_time, Radix

LEMMA ComposedIsInt ==
  ASSUME NEW p, \A i \in 0 .. 6 : p[i] \in Int
  PROVE  Composed(p) \in Int
<1> DEFINE n == make_day(p[0], p[1], p[2])
           c == make_time(p[3], p[4], p[5], p[6])
<1>0. /\ p[0] \in Int /\ p[1] \in Int /\ p[2] \in Int /\ p[3] \in Int
      /\ p[4] \in Int /\ p[5] \in Int /\ p[6] \in Int
  OBVIOUS
<1>1. n \in Int /\ c \in Int
  BY <1>0, MakeDayIsInt, MakeTimeIsInt
<1>2. Composed(p) = make_date(n, c)
  BY DEF Composed
<1> HIDE DEF n, c
<1> QED
  BY <1>1, <1>2, DayRadix DEF make_date, Radix

LEMMA PartIsInt ==
  ASSUME NEW t \in Int, NEW i \in 0 .. 6
  PROVE  make_part(t, i) \in Int
<1>1. Proper(Parts(t))
  BY PartsAreProper
<1> DEFINE p == Parts(t)
<1>2. p[i] = make_part(t, i)
  BY PartsAre
<1> HIDE DEF p
<1>3. p[0] \in Int /\ p[1] \in 0 .. 11 /\ p[2] \in 1 .. DaysInMonth(p[1], p[0]) /\ ClockDigits(p[3], p[4], p[5], p[6])
  BY <1>1 DEF Proper, p
<1>4. DaysInMonth(p[1], p[0]) \in 28 .. 31
  BY <1>3, MonthSpan
<1>5. p[1] \in Int /\ p[2] \in Int /\ p[3] \in Int /\ p[4] \in Int /\ p[5] \in Int /\ p[6] \in Int
  BY <1>3, <1>4, ClockRadices DEF ClockDigits, Radix
<1> QED
  BY <1>2, <1>3, <1>5

LEMMA ClipIsInRange ==
  ASSUME NEW t \in Int
  PROVE  time_clip(t) \in -max_time .. max_time
BY ClockRadices DEF time_clip

LEMMA NewTimeInRange ==
  ASSUME NEW args \in Seq(Number)
  PROVE  ms_from_args(args) \in -max_time .. max_time
<1> DEFINE parts == [i \in 0 .. 6 |->
             IF i = 0 THEN FullYear(Val(ARG(args, 0)))
             ELSE IF i = 2 /\ ~ Given(args, i) THEN 1 ELSE Val(ARG(args, i))]
<1>1. ms_from_args(args) = time_clip(Composed(parts))
  BY DEF ms_from_args
<1>2. \A i \in 0 .. 6 : parts[i] \in Int
  <2>1. \A i \in 0 .. 6 : Val(ARG(args, i)) \in Int
    BY ArgIsInt
  <2>2. FullYear(Val(ARG(args, 0))) \in Int
    BY <2>1 DEF FullYear
  <2> QED
    BY <2>1, <2>2
<1> HIDE DEF parts
<1> QED
  BY <1>1, <1>2, ComposedIsInt, ClipIsInRange

LEMMA SetTimeIsInt ==
  ASSUME NEW args \in Seq(Number), NEW t \in Int, NEW shift \in 0 .. 6, NEW max_args \in Int
  PROVE  make_date_from_args(args, t, shift, max_args) \in Int
<1> DEFINE parts == [i \in 0 .. 6 |->
             IF i - shift \in 0 .. max_args - 1 /\ (Given(args, i - shift) \/ i = shift)
             THEN Val(ARG(args, i - shift)) ELSE make_part(t, i)]
<1>1. make_date_from_args(args, t, shift, max_args) = Composed(parts)
  BY DEF make_date_from_args
<1>2. ASSUME NEW i \in 0 .. 6 PROVE parts[i] \in Int
  <2>1. make_part(t, i) \in Int
    BY PartIsInt
  <2>2. i - shift \in 0 .. max_args - 1 => Val(ARG(args, i - shift)) \in Int
    BY ArgIsInt
  <2> QED
    BY <2>1, <2>2
<1> HIDE DEF parts
<1> QED
  BY <1>1, <1>2, ComposedIsInt

-----------------------------------------------------------------------------
(* Types.                                                                  *)

LEMMA OffsetIs ==
  ASSUME zone \in Offsets, NEW t
  PROVE  /\ zone \in Int /\ dst_saving \in Nat
         /\ utc_offset(t) \in {zone, zone + dst_saving}
BY DatesAssumption DEF utc_offset

LEMMA TimesAreInts ==
  ASSUME DateTypeOK
  PROVE  utc \in Int /\ zone \in Int /\ zone \in Offsets /\ dst_saving \in Nat /\ local_time(utc) \in Int
<1>1. zone \in Offsets /\ zone \in Int /\ dst_saving \in Nat /\ utc \in Int
  BY DatesAssumption DEF DateTypeOK
<1>2. utc_offset(utc) \in {zone, zone + dst_saving}
  BY <1>1, OffsetIs
<1> QED
  BY <1>1, <1>2 DEF local_time

(* What a step stores: a time in the range of the code, one that local     *)
(* time brings back into it, or a number of the script's.                  *)
LEMMA RangeKept ==
  ASSUME DateTypeOK, zone' = zone, is_nan' \in BOOLEAN, NEW t \in -max_time .. max_time,
         utc' = t \/ utc' = utc_time(t)
  PROVE  DateTypeOK'
<1>1. zone \in Offsets /\ zone \in Int /\ dst_saving \in Nat /\ t \in Int /\ max_time \in Nat
  BY TimesAreInts, ClockRadices
<1>2. CASE utc' = t
  BY <1>1, <1>2 DEF DateTypeOK
<1>3. CASE utc' = utc_time(t)
  <2>1. PICK o \in {zone, zone + dst_saving} : utc' = t - o
    BY <1>1, <1>3, OffsetIs DEF utc_time
  <2>2. utc' \in Int /\ utc' + o = t
    BY <1>1, <2>1
  <2>3. \E x \in {utc', utc' + zone, utc' + zone + dst_saving} : x \in -max_time .. max_time
    <3>1. o = zone + dst_saving => utc' + o = utc' + zone + dst_saving
      BY <1>1, <2>2
    <3> QED
      BY <2>1, <2>2, <3>1
  <2> QED
    BY <1>1, <2>2, <2>3 DEF DateTypeOK
<1> QED
  BY <1>2, <1>3

LEMMA ZeroInRange == 0 \in -max_time .. max_time
  BY ClockRadices

LEMMA Reading ==
  ASSUME NEW text
  PROVE  LET t == Composed(ReadParts(text))
         IN  /\ ~ Readable(text) => date_parse_str(text) = NaN
             /\ Readable(text) /\ text.form = "loc" => date_parse_str(text) = time_clip(utc_time(t))
             /\ Readable(text) /\ text.form # "loc" => date_parse_str(text) = time_clip(t)
BY DEF date_parse_str

LEMMA ReadsInRange ==
  ASSUME DateTypeOK, NEW form \in Form
  PROVE  LET n == date_parse_str(Printed(form, utc)) IN n = NaN \/ n \in -max_time .. max_time
<1> DEFINE text == Printed(form, utc)
           p == ReadParts(text)
           t == Composed(p)
           n == date_parse_str(text)
<1>1. utc \in Int /\ local_time(utc) \in Int
  BY TimesAreInts
<1>2. text.parts \in {Parts(utc), LocalParts(utc)}
  BY DEF Printed
<1>p. p = [text.parts EXCEPT ![6] = IF text.form = "iso" THEN @ ELSE 0]
  BY DEF ReadParts
<1> HIDE DEF text, p
<1>3. n \in {NaN, time_clip(utc_time(t)), time_clip(t)}
  <2>1. /\ ~ Readable(text) => n = NaN
        /\ Readable(text) /\ text.form = "loc" => n = time_clip(utc_time(t))
        /\ Readable(text) /\ text.form # "loc" => n = time_clip(t)
    BY Reading DEF p
  <2> HIDE DEF n, t
  <2> QED
    BY <2>1
<1> HIDE DEF n
<1>4. /\ text.parts = [i \in 0 .. 6 |-> text.parts[i]]
      /\ \A i \in 0 .. 6 : text.parts[i] \in Int
  <2>1. \A u \in Int : Parts(u) = [i \in 0 .. 6 |-> Parts(u)[i]] /\ \A i \in 0 .. 6 : Parts(u)[i] \in Int
    BY PartsAre, PartIsInt
  <2> QED
    BY <1>1, <1>2, <2>1 DEF LocalParts
<1>5. \A i \in 0 .. 6 : p[i] \in Int
  <2> DEFINE r == text.parts
  <2>1. r = [i \in 0 .. 6 |-> r[i]] /\ \A i \in 0 .. 6 : r[i] \in Int
    BY <1>4
  <2>2. p = [r EXCEPT ![6] = IF text.form = "iso" THEN r[6] ELSE 0]
    BY <1>p
  <2> HIDE DEF r
  <2> QED
    BY <2>1, <2>2
<1>6. t \in Int
  BY <1>5, ComposedIsInt
<1> HIDE DEF t
<1>7. utc_time(t) \in Int
  BY <1>6, TimesAreInts, OffsetIs DEF utc_time
<1>8. time_clip(utc_time(t)) \in -max_time .. max_time /\ time_clip(t) \in -max_time .. max_time
  BY <1>6, <1>7, ClipIsInRange
<1>9. n = NaN \/ n \in -max_time .. max_time
  BY <1>3, <1>8
<1> QED
  BY <1>9 DEF n, text

LEMMA MethodsAre ==
  ASSUME NEW m \in Method
  PROVE  First[m] \in 0 .. 6 /\ Most[m] \in 1 .. 4
BY DEF Method, First, Most

LEMMA MethodTimeIsInt ==
  ASSUME NEW m \in Method, NEW args \in ArgLists(First[m]), NEW t \in Int
  PROVE  make_date_from_args(args, t, First[m], Most[m]) \in Int
<1> DEFINE f == First[m]
           k == Most[m]
<1>1. f \in 0 .. 6 /\ k \in Int
  BY MethodsAre
<1>2. args \in Seq(Number)
  BY ArgListsAre
<1> HIDE DEF f, k
<1>3. make_date_from_args(args, t, f, k) \in Int
  BY <1>1, <1>2, SetTimeIsInt
<1> QED
  BY <1>3 DEF f, k

LEMMA DateInitType == DateInit => DateTypeOK
<1> SUFFICES ASSUME DateInit PROVE DateTypeOK
  OBVIOUS
<1>1. zone \in Offsets /\ utc \in Moments /\ is_nan \in BOOLEAN
  BY DEF DateInit
<1> QED
  BY <1>1, DatesAssumption DEF DateTypeOK

LEMMA DateTypeStep == DateTypeOK /\ [DateNext]_date_vars => DateTypeOK'
<1> SUFFICES ASSUME DateTypeOK, [DateNext]_date_vars PROVE DateTypeOK'
  OBVIOUS
<1>0. utc \in Int /\ zone \in Int /\ local_time(utc) \in Int /\ is_nan \in BOOLEAN
  BY TimesAreInts DEF DateTypeOK
<1>a. ASSUME NEW n, Constructs(n) PROVE utc' = Val(n) /\ zone' = zone /\ is_nan' \in BOOLEAN
  BY <1>a DEF Constructs
<1>b. ASSUME NEW t, Sets(t) PROVE utc' = t /\ zone' = zone /\ is_nan' \in BOOLEAN
  BY <1>0, <1>b DEF Sets
<1>1. CASE NewFromNumber
  <2>1. PICK n \in Moments \cup {NaN} : Constructs(Val(n))
    BY <1>1 DEF NewFromNumber
  <2>2. utc' = Val(Val(n)) /\ zone' = zone /\ is_nan' \in BOOLEAN
    BY <1>a, <2>1
  <2>3. CASE n = NaN
    <3>1. utc' = 0
      BY <2>2, <2>3, DatesAssumption DEF Val
    <3> QED
      BY <2>2, <3>1, ZeroInRange, RangeKept
  <2>4. CASE n \in Moments
    <3>1. utc' = n /\ n \in Int
      BY <2>2, <2>4, DatesAssumption DEF Val
    <3> QED
      BY <2>2, <2>4, <3>1 DEF DateTypeOK
  <2> QED
    BY <2>3, <2>4
<1>10. CASE NewFromText
  <2>1. utc' = 0 /\ zone' = zone /\ is_nan' \in BOOLEAN
    BY <1>a, <1>10 DEF NewFromText, Val
  <2> QED
    BY <2>1, ZeroInRange, RangeKept
<1>2. CASE NewFromUTC
  <2>1. PICK args \in NewLists : Constructs(ms_from_args(args))
    BY <1>2 DEF NewFromUTC
  <2>2. ms_from_args(args) \in -max_time .. max_time
    BY NewListsAre, NewTimeInRange
  <2>3. Val(ms_from_args(args)) \in -max_time .. max_time
    BY <2>2, ZeroInRange DEF Val
  <2> QED
    BY <1>a, <2>1, <2>3, RangeKept
<1>3. CASE NewFromParts
  <2>1. PICK args \in NewLists : Constructs(utc_time(ms_from_args(args)))
    BY <1>3 DEF NewFromParts
  <2> DEFINE t == ms_from_args(args)
  <2>2. t \in -max_time .. max_time
    BY NewListsAre, NewTimeInRange
  <2>3. Val(utc_time(t)) \in {0, utc_time(t)}
    BY DEF Val
  <2>4. CASE Val(utc_time(t)) = 0
    BY <1>a, <2>1, <2>4, ZeroInRange, RangeKept
  <2>5. CASE Val(utc_time(t)) = utc_time(t)
    BY <1>a, <2>1, <2>2, <2>5, RangeKept
  <2> QED
    BY <2>3, <2>4, <2>5
<1>4. ASSUME NEW form \in Form, Reread(form) PROVE DateTypeOK'
  <2> DEFINE n == date_parse_str(Printed(form, utc))
  <2>1. n = NaN \/ n \in -max_time .. max_time
    BY ReadsInRange
  <2>2. Constructs(n)
    BY <1>4 DEF Reread
  <2> HIDE DEF n
  <2>3. Val(n) \in -max_time .. max_time
    BY <2>1, ZeroInRange DEF Val
  <2> QED
    BY <1>a, <2>2, <2>3, RangeKept
<1>5. ASSUME NEW m \in Method, NEW args \in ArgLists(First[m]), SetUTC(m, args) PROVE DateTypeOK'
  <2> DEFINE t == make_date_from_args(args, utc, First[m], Most[m])
  <2>1. t \in Int
    BY <1>0, MethodTimeIsInt
  <2>2. Sets(time_clip(t))
    BY <1>5 DEF SetUTC
  <2> HIDE DEF t
  <2> QED
    BY <1>b, <2>1, <2>2, ClipIsInRange, RangeKept
<1>6. ASSUME NEW m \in Method, NEW args \in ArgLists(First[m]), SetLocal(m, args) PROVE DateTypeOK'
  <2> DEFINE t == make_date_from_args(args, local_time(utc), First[m], Most[m])
  <2>1. t \in Int
    BY <1>0, MethodTimeIsInt
  <2>2. Sets(utc_time(time_clip(t)))
    BY <1>6 DEF SetLocal
  <2> HIDE DEF t
  <2> QED
    BY <1>b, <2>1, <2>2, ClipIsInRange, RangeKept
<1>7. CASE SetTime
  <2>1. PICK n \in Moments \cup {NaN, Undefined} : Sets(time_clip(Val(n)))
    BY <1>7 DEF SetTime
  <2>2. time_clip(Val(n)) \in -max_time .. max_time
    BY DatesAssumption, ValIsInt, ClipIsInRange DEF Number
  <2> QED
    BY <1>b, <2>1, <2>2, RangeKept
<1>8. ASSUME NEW y \in YearArgs, SetYear(y) PROVE DateTypeOK'
  <2> DEFINE args == <<FullYear(Val(y))>>
             t == make_date_from_args(args, local_time(utc), 0, 1)
  <2>1. args \in Seq(Number)
    <3>1. Val(y) \in Int
      BY DatesAssumption, ValIsInt DEF Number
    <3>2. FullYear(Val(y)) \in Int
      BY <3>1 DEF FullYear
    <3> QED
      BY <3>2 DEF Number
  <2>2. Sets(utc_time(time_clip(t)))
    BY <1>8 DEF SetYear
  <2> HIDE DEF args
  <2>3. t \in Int
    BY <1>0, <2>1, SetTimeIsInt
  <2> HIDE DEF t
  <2> QED
    BY <1>b, <2>2, <2>3, ClipIsInRange, RangeKept
<1>9. CASE UNCHANGED date_vars
  BY <1>9 DEF date_vars, DateTypeOK
<1> QED
  BY <1>1, <1>2, <1>3, <1>4, <1>5, <1>6, <1>7, <1>8, <1>9, <1>10 DEF DateNext

(* A date's time is in the range of the code, but for the offset that      *)
(* local methods add after the clipping, or it is the number that          *)
(* new Date(n) was given, which is not clipped (Date.c:682-683).           *)
THEOREM DateTypeCorrect == DateSpec => []DateTypeOK
  BY DateInitType, DateTypeStep, PTL DEF DateSpec

-----------------------------------------------------------------------------
(* The calendar.                                                           *)

LEMMA CalendarHolds == DateTypeOK => PartsFollowCalendar
<1> SUFFICES ASSUME DateTypeOK PROVE PartsFollowCalendar
  OBVIOUS
<1>1. utc \in Int /\ local_time(utc) \in Int
  BY TimesAreInts
<1>2. LastOfDay(utc) \in Int
  BY <1>1, DayRadix DEF LastOfDay, Radix
<1>3. ASSUME NEW t \in Int
      PROVE  /\ Parts(t + 1) = Tick(Parts(t))
             /\ Parts(t + ms_per_day) = DayAfter(Parts(t))
             /\ week_day(t + ms_per_day) = (week_day(t) + 1) % 7
             /\ Composed(Parts(t)) = t
  BY NextMillisecond, NextDay, PartsCompose
<1> QED
  BY <1>1, <1>2, <1>3 DEF PartsFollowCalendar

(* The parts of any time follow the calendar. *)
THEOREM CalendarFollowed == DateSpec => []PartsFollowCalendar
  BY DateTypeCorrect, CalendarHolds, PTL

-----------------------------------------------------------------------------
(* The methods that set parts.                                             *)

LEMMA PartsSetAre ==
  ASSUME NEW m \in Method
  PROVE  PartsSet[m] = First[m] .. First[m] + Most[m] - 1
<1>1. CASE m = "FullYear"
  <2>1. PartsSet[m] = 0 .. 2 /\ First[m] = 0 /\ Most[m] = 3
    BY <1>1 DEF PartsSet, First, Most
  <2> QED
    BY <2>1
<1>2. CASE m = "Month"
  <2>1. PartsSet[m] = 1 .. 2 /\ First[m] = 1 /\ Most[m] = 2
    BY <1>2 DEF PartsSet, First, Most
  <2> QED
    BY <2>1
<1>3. CASE m = "Date"
  <2>1. PartsSet[m] = {2} /\ First[m] = 2 /\ Most[m] = 1
    BY <1>3 DEF PartsSet, First, Most
  <2> QED
    BY <2>1
<1>4. CASE m = "Hours"
  <2>1. PartsSet[m] = 3 .. 6 /\ First[m] = 3 /\ Most[m] = 4
    BY <1>4 DEF PartsSet, First, Most
  <2> QED
    BY <2>1
<1>5. CASE m = "Minutes"
  <2>1. PartsSet[m] = 4 .. 6 /\ First[m] = 4 /\ Most[m] = 3
    BY <1>5 DEF PartsSet, First, Most
  <2> QED
    BY <2>1
<1>6. CASE m = "Seconds"
  <2>1. PartsSet[m] = 5 .. 6 /\ First[m] = 5 /\ Most[m] = 2
    BY <1>6 DEF PartsSet, First, Most
  <2> QED
    BY <2>1
<1>7. CASE m = "Milliseconds"
  <2>1. PartsSet[m] = {6} /\ First[m] = 6 /\ Most[m] = 1
    BY <1>7 DEF PartsSet, First, Most
  <2> QED
    BY <2>1
<1> QED
  BY <1>1, <1>2, <1>3, <1>4, <1>5, <1>6, <1>7 DEF Method

LEMMA AskedIs ==
  ASSUME NEW m \in Method, NEW args \in ArgLists(First[m]), InReach(m, args), NEW t \in Int
  PROVE  /\ make_date_from_args(args, t, First[m], Most[m]) = Composed(Asked(m, args, Parts(t)))
         /\ Asked(m, args, Parts(t)) = [i \in 0 .. 6 |-> Asked(m, args, Parts(t))[i]]
         /\ \A i \in 0 .. 6 : Asked(m, args, Parts(t))[i] \in Int
         /\ Asked(m, args, Parts(t))[1] \in -11 .. 11
<1> DEFINE f == First[m]
           k == Most[m]
           p == Asked(m, args, Parts(t))
           q == [i \in 0 .. 6 |-> IF i - f \in 0 .. k - 1 /\ (Given(args, i - f) \/ i = f)
                                  THEN Val(ARG(args, i - f)) ELSE make_part(t, i)]
<1>1. f \in 0 .. 6 /\ k \in 1 .. 4 /\ PartsSet[m] = f .. f + k - 1
  BY MethodsAre, PartsSetAre
<1>2. args \in Seq(Number) /\ Len(args) \in 1 .. 2
  <2>1. args \in Seq(Number) /\ Len(args) \in 0 .. 2
    BY ArgListsAre
  <2>2. Len(args) # 0
    BY DEF InReach, Given, ARG
  <2> QED
    BY <2>1, <2>2
<1>g. Given(args, 0)
  BY DEF InReach
<1>3. make_date_from_args(args, t, f, k) = Composed(q)
  BY DEF make_date_from_args
<1>4. p = [i \in 0 .. 6 |-> IF i \in PartsSet[m] /\ Given(args, i - f)
                            THEN Val(ARG(args, i - f)) ELSE Parts(t)[i]]
  BY DEF Asked
<1>r. \A i \in 1 .. Len(args) : f + i = 2 => Val(args[i]) \in -11 .. 11
  BY DEF InReach
<1> HIDE DEF f, k, p
<1>5. ASSUME NEW i \in 0 .. 6 PROVE p[i] = q[i]
  <2>1. i \in PartsSet[m] <=> i - f \in 0 .. k - 1
    BY <1>1
  <2>2. i = f => Given(args, i - f)
    BY <1>1, <1>g
  <2>3. Parts(t)[i] = make_part(t, i)
    BY PartsAre
  <2> QED
    BY <1>4, <2>1, <2>2, <2>3
<1>6. p = q
  BY <1>4, <1>5
<1>7. ASSUME NEW i \in 0 .. 6 PROVE q[i] \in Int
  <2>1. make_part(t, i) \in Int
    BY PartIsInt
  <2>2. i - f \in 0 .. k - 1 => Val(ARG(args, i - f)) \in Int
    BY <1>1, <1>2, ArgIsInt
  <2> QED
    BY <2>1, <2>2
<1>8. p[1] \in -11 .. 11
  <2>1. CASE 1 \in PartsSet[m] /\ Given(args, 1 - f)
    <3>1. 1 - f \in Nat /\ 1 - f + 1 \in 1 .. Len(args) /\ f + (1 - f + 1) = 2
      BY <1>1, <1>2, <2>1 DEF Given, ARG
    <3>2. ARG(args, 1 - f) = args[1 - f + 1]
      BY <2>1 DEF Given, ARG
    <3>3. p[1] = Val(ARG(args, 1 - f))
      BY <1>4, <2>1
    <3> QED
      BY <1>r, <3>1, <3>2, <3>3
  <2>2. CASE ~ (1 \in PartsSet[m] /\ Given(args, 1 - f))
    <3>1. p[1] = Parts(t)[1]
      BY <1>4, <2>2
    <3>2. Parts(t)[1] \in 0 .. 11
      BY PartsAreProper DEF Proper
    <3> QED
      BY <3>1, <3>2
  <2> QED
    BY <2>1, <2>2
<1> HIDE DEF q
<1>9. p = [i \in 0 .. 6 |-> p[i]] /\ \A i \in 0 .. 6 : p[i] \in Int
  BY <1>4, <1>5, <1>7
<1> QED
  BY <1>3, <1>6, <1>8, <1>9 DEF f, k, p

(* Whatever parts a time is composed of, they name it. *)
LEMMA ComposedIsNamed ==
  ASSUME NEW p, p = [i \in 0 .. 6 |-> p[i]], \A i \in 0 .. 6 : p[i] \in Int, p[1] \in -11 .. 11
  PROVE  Names(p, Composed(p))
<1> DEFINE z == IF p[1] < 0 THEN p[0] - 1 ELSE p[0]
           m == p[1] % 12
           first == [i \in 0 .. 6 |->
             CASE i = 0 -> IF p[1] < 0 THEN p[0] - 1 ELSE p[0]
               [] i = 1 -> p[1] % 12
               [] i = 2 -> 1
               [] OTHER -> 0]
           rest == (p[2] - 1) * ms_per_day + p[3] * ms_per_hr + p[4] * ms_per_min
                   + p[5] * ms_per_sec + p[6]
           t == Composed(p)
           n == day_from_year(z) + Start(m, Leap(z))
<1>1. /\ p[0] \in Int /\ p[2] \in Int /\ p[3] \in Int /\ p[4] \in Int /\ p[5] \in Int /\ p[6] \in Int
      /\ z \in Int /\ m \in 0 .. 11
  BY MakeDay
<1>2. make_day(p[0], p[1], p[2]) = n + p[2] - 1
  BY <1>1, MakeDay
<1>3. n \in Int
  BY <1>1, DaysOfYear, MonthSpan
<1>4. t = (n + p[2] - 1) * ms_per_day + make_time(p[3], p[4], p[5], p[6])
  BY <1>2 DEF Composed, make_date
<1>5. /\ first = [i \in 0 .. 6 |-> first[i]]
      /\ first[0] = z /\ first[1] = m /\ first[2] = 1
      /\ first[3] = 0 /\ first[4] = 0 /\ first[5] = 0 /\ first[6] = 0
  OBVIOUS
<1>6. make_time(p[3], p[4], p[5], p[6])
        = p[3] * ms_per_hr + p[4] * ms_per_min + p[5] * ms_per_sec + p[6]
  <2> DEFINE N == min_per_hr
             S == sec_per_min
             M == ms_per_sec
             h == p[3]
             mi == p[4]
             s == p[5]
  <2>1. N \in Int /\ S \in Int /\ M \in Int /\ h \in Int /\ mi \in Int /\ s \in Int
    BY <1>1, ClockRadices DEF Radix
  <2>2. make_time(h, mi, s, p[6]) = ((h * N + mi) * S + s) * M + p[6]
    BY DEF make_time
  <2>3. ms_per_hr = N * (S * M) /\ ms_per_min = S * M
    BY DEF ms_per_hr, ms_per_min
  <2> HIDE DEF N, S, M, h, mi, s
  <2>4. ((h * N + mi) * S + s) * M = h * (N * (S * M)) + mi * (S * M) + s * M
    <3>1. (h * N + mi) * S = (h * N) * S + mi * S /\ h * N \in Int
      BY <2>1
    <3> DEFINE a == (h * N) * S
               b == mi * S
    <3>2. a \in Int /\ b \in Int
      BY <2>1, <3>1
    <3> HIDE DEF a, b
    <3>3. (a + b + s) * M = a * M + b * M + s * M
      BY <2>1, <3>2
    <3> USE DEF a, b
    <3>4. a * M = h * (N * (S * M)) /\ b * M = mi * (S * M)
      BY <2>1
    <3> QED
      BY <3>1, <3>3, <3>4
  <2> QED
    BY <2>2, <2>3, <2>4 DEF N, S, M, h, mi, s
<1> HIDE DEF first, t, n, z, m
<1>7. t - rest = make_date(n, make_time(0, 0, 0, 0))
  <2> DEFINE c == p[3] * ms_per_hr + p[4] * ms_per_min + p[5] * ms_per_sec + p[6]
             d == (p[2] - 1) * ms_per_day
  <2>1. ms_per_day \in Int /\ ms_per_hr \in Int /\ ms_per_min \in Int /\ ms_per_sec \in Int
    BY ClockRadices, DayRadix DEF Radix
  <2>2. c \in Int /\ d \in Int /\ n * ms_per_day \in Int /\ rest = d + c
    BY <1>1, <1>3, <2>1
  <2>3. (n + p[2] - 1) * ms_per_day = n * ms_per_day + d
    BY <1>1, <1>3, <2>1
  <2>4. t = (n + p[2] - 1) * ms_per_day + c
    BY <1>4, <1>6
  <2>5. make_date(n, make_time(0, 0, 0, 0)) = n * ms_per_day
    BY <2>1, <2>2, ClockRadices DEF make_date, make_time, Radix
  <2> HIDE DEF c, d, rest
  <2> QED
    BY <2>2, <2>3, <2>4, <2>5
<1>8. Proper(first)
  <2>1. 1 \in 1 .. DaysInMonth(m, z)
    BY <1>1, MonthSpan
  <2>2. ClockDigits(0, 0, 0, 0)
    BY ClockRadices DEF ClockDigits, Radix
  <2> QED
    BY <1>1, <1>5, <2>1, <2>2 DEF Proper
<1>9. Composed(first) = make_date(n, make_time(0, 0, 0, 0))
  <2>1. make_day(first[0], first[1], first[2]) = DayOf(first)
    BY <1>8, MakeProperDay
  <2>2. DayOf(first) = n
    BY <1>1, <1>3, <1>5 DEF DayOf, n
  <2> QED
    BY <1>5, <2>1, <2>2 DEF Composed
<1>10. Parts(t - rest) = first
  BY <1>7, <1>8, <1>9, ComposedParts
<1> QED
  BY <1>10 DEF Names, first, t

(* A look at the zone that is off by the offset does not matter where the  *)
(* zone is settled.                                                        *)
LEMMA SettledReturns ==
  ASSUME DateTypeOK, NEW t \in Int, Settled(utc_time(t))
  PROVE  local_time(utc_time(t)) = t
<1> DEFINE u == utc_time(t)
<1>1. zone \in Int /\ dst_saving \in Nat /\ zone \in Offsets
  BY TimesAreInts
<1>2. PICK o \in {zone, zone + dst_saving} : u = t - o /\ utc_offset(t) = o
  BY <1>1, OffsetIs DEF utc_time
<1>3. u \in Int /\ u + o = t
  BY <1>1, <1>2
<1>4. utc_offset(u + o) = utc_offset(u)
  BY <1>2 DEF Settled
<1>5. local_time(u) = u + utc_offset(u)
  BY DEF local_time
<1> HIDE DEF u
<1>6. local_time(u) = t
  BY <1>2, <1>3, <1>4, <1>5
<1> QED
  BY <1>6 DEF u

LEMMA MethodsHold == DateTypeOK => MethodsSetParts
<1> SUFFICES ASSUME DateTypeOK, NEW m \in Method, NEW args \in ArgLists(First[m]), InReach(m, args)
             PROVE  LET Set(t) == make_date_from_args(args, t, First[m], Most[m])
                        local  == local_time(utc)
                        after  == utc_time(Set(local))
                    IN  /\ Names(Asked(m, args, Parts(utc)), Set(utc))
                        /\ Settled(after) => Names(Asked(m, args, LocalParts(utc)), local_time(after))
  BY DEF MethodsSetParts
<1>1. utc \in Int /\ local_time(utc) \in Int
  BY TimesAreInts
<1> DEFINE Set(t) == make_date_from_args(args, t, First[m], Most[m])
<1>2. ASSUME NEW t \in Int
      PROVE  Names(Asked(m, args, Parts(t)), Set(t)) /\ Set(t) \in Int
  <2> DEFINE p == Asked(m, args, Parts(t))
  <2>1. /\ Set(t) = Composed(p) /\ p = [i \in 0 .. 6 |-> p[i]]
        /\ (\A i \in 0 .. 6 : p[i] \in Int) /\ p[1] \in -11 .. 11
    BY AskedIs
  <2> HIDE DEF p, Set
  <2>2. Names(p, Composed(p)) /\ Composed(p) \in Int
    BY <2>1, ComposedIsNamed, ComposedIsInt
  <2> QED
    BY <2>1, <2>2 DEF p
<1> DEFINE local == local_time(utc)
           after == utc_time(Set(local))
<1>3. Names(Asked(m, args, Parts(local)), Set(local)) /\ Set(local) \in Int
  BY <1>1, <1>2
<1> HIDE DEF Set
<1>4. Settled(after) => local_time(after) = Set(local)
  BY <1>3, SettledReturns
<1>5. LocalParts(utc) = Parts(local)
  BY DEF LocalParts
<1>6. Names(Asked(m, args, Parts(utc)), Set(utc))
  BY <1>1, <1>2
<1>7. Settled(after) => Names(Asked(m, args, LocalParts(utc)), local_time(after))
  BY <1>3, <1>4, <1>5
<1> QED
  BY <1>6, <1>7 DEF Set

(* A method sets the parts that it is given and keeps the others.          *)
THEOREM MethodsCorrect == DateSpec => []MethodsSetParts
  BY DateTypeCorrect, MethodsHold, PTL

-----------------------------------------------------------------------------
(* Texts.                                                                  *)

(* A text without milliseconds is that of the whole second.                *)
LEMMA WithoutMilliseconds ==
  ASSUME NEW t \in Int
  PROVE  /\ Composed([Parts(t) EXCEPT ![6] = 0]) = t - ms_from_time(t)
         /\ ms_from_time(t) \in 0 .. ms_per_sec - 1
<1> DEFINE p == Parts(t)
           q == [p EXCEPT ![6] = 0]
           n == make_day(p[0], p[1], p[2])
           S == sec_per_min
           M == ms_per_sec
<1>1. p = [i \in 0 .. 6 |-> p[i]] /\ p[6] = ms_from_time(t) /\ Proper(p) /\ Composed(p) = t
  BY PartsAre, PartsAreProper, PartsCompose
<1> HIDE DEF p
<1>2. /\ q[0] = p[0] /\ q[1] = p[1] /\ q[2] = p[2] /\ q[3] = p[3] /\ q[4] = p[4] /\ q[5] = p[5] /\ q[6] = 0
  BY <1>1
<1> HIDE DEF q
<1> DEFINE c == ((p[3] * min_per_hr + p[4]) * S + p[5]) * M
<1>3. Composed(p) = n * ms_per_day + (c + p[6]) /\ Composed(q) = n * ms_per_day + (c + 0)
  BY <1>2 DEF Composed, make_date, make_time
<1>4. ClockDigits(p[3], p[4], p[5], p[6])
  BY <1>1 DEF Proper
<1>5. p[3] \in Int /\ p[4] \in Int /\ p[5] \in Int /\ p[6] \in 0 .. M - 1 /\ M \in Nat /\ S \in Int /\ min_per_hr \in Int
  BY <1>4, ClockRadices DEF ClockDigits, Radix
<1> HIDE DEF S, M
<1>6. c \in Int
  BY <1>5
<1>7. n \in Int /\ ms_per_day \in Int
  <2>1. day_from_year(p[0]) \in Int /\ Start(p[1], Leap(p[0])) \in Nat /\ p[2] \in Int
    BY <1>1, DaysOfYear, MonthSpan DEF Proper
  <2> QED
    BY <1>1, <2>1, MakeProperDay, DayRadix DEF DayOf, Radix
<1> HIDE DEF n, c
<1>8. n * ms_per_day \in Int
  BY <1>7
<1>9. Composed(q) = t - ms_from_time(t)
  BY <1>1, <1>3, <1>5, <1>6, <1>8
<1> QED
  BY <1>1, <1>5, <1>9 DEF q, p, M

(* Whole numbers of seconds: the range of the code ends at one, and zones  *)
(* are off by one.                                                         *)
LEMMA WholeSecondInRange ==
  ASSUME NEW t \in -max_time .. max_time
  PROVE  t - ms_from_time(t) \in -max_time .. max_time
<1> DEFINE M == ms_per_sec
           k == max_time \div M
           q == t \div M
           r == t % M
<1>1. M \in Radix /\ M \in Nat /\ max_time \in Nat /\ t \in Int
  BY ClockRadices DEF Radix
<1>2. max_time = k * M + 0 /\ k \in Int
  <2>1. max_time = k * M + (max_time % M) /\ k \in Int
    BY <1>1, Division
  <2> QED
    BY <2>1, CalendarAssumption
<1>3. q \in Int /\ r \in 0 .. M - 1 /\ t = q * M + r
  BY <1>1, Division
<1>4. ms_from_time(t) = r
  BY DEF ms_from_time
<1> HIDE DEF M, k, q, r
<1>5. k * M \in Int /\ q * M \in Int /\ (k + q) * M = k * M + q * M /\ k + q \in Int
  BY <1>1, <1>2, <1>3
<1>6. k + q <= -1 => (k + q) * M <= -M
  BY <1>1, <1>5, ProductSign
<1>7. k + q >= 0
  BY <1>1, <1>2, <1>3, <1>5, <1>6
<1>8. (k + q) * M >= 0
  BY <1>1, <1>5, <1>7
<1> QED
  BY <1>1, <1>2, <1>3, <1>4, <1>5, <1>8

LEMMA OffsetInSeconds ==
  ASSUME DateTypeOK, NEW t \in Int, NEW o \in {zone, zone + dst_saving}
  PROVE  ms_from_time(t + o) = ms_from_time(t)
<1> DEFINE M == ms_per_sec
           a == zone \div M
           b == dst_saving \div M
<1>1. M \in Radix /\ M \in Nat /\ zone \in Int /\ dst_saving \in Int /\ zone \in Offsets
  BY ClockRadices, TimesAreInts DEF Radix
<1>2. zone = a * M /\ dst_saving = b * M /\ a \in Int /\ b \in Int
  <2>1. /\ zone = a * M + (zone % M) /\ a \in Int
        /\ dst_saving = b * M + (dst_saving % M) /\ b \in Int
    BY <1>1, Division
  <2>2. zone % M = 0 /\ dst_saving % M = 0
    BY <1>1, DatesAssumption
  <2> HIDE DEF M, a, b
  <2>3. a * M \in Int /\ b * M \in Int
    BY <1>1, <2>1
  <2> QED
    BY <2>1, <2>2, <2>3
<1> HIDE DEF a, b
<1>3. \A s, k \in Int : (s + k * M) % M = s % M
  BY <1>1, DivisionShift
<1> HIDE DEF M
<1>4. t + a * M + b * M = t + (a + b) * M /\ a + b \in Int
  BY <1>1, <1>2
<1>5. (t + zone) % M = t % M /\ (t + (zone + dst_saving)) % M = t % M
  <2>1. (t + a * M) % M = t % M /\ (t + (a + b) * M) % M = t % M
    BY <1>2, <1>3, <1>4
  <2>2. t + zone = t + a * M /\ t + (zone + dst_saving) = t + (a + b) * M
    BY <1>1, <1>2, <1>4
  <2> QED
    BY <2>1, <2>2
<1> QED
  BY <1>5 DEF ms_from_time, M

LEMMA ClipKeeps ==
  ASSUME NEW t \in -max_time .. max_time
  PROVE  time_clip(t) = t
BY ClockRadices DEF time_clip

(* The local text of a settled time, read back in local time. *)
LEMMA LocalReturns ==
  ASSUME DateTypeOK, Settled(utc), NEW t, t = local_time(utc) - ms_from_time(local_time(utc))
  PROVE  /\ ms_from_time(local_time(utc)) = ms_from_time(utc)
         /\ utc_time(t) = utc - ms_from_time(utc)
<1>1. utc \in Int /\ zone \in Int /\ dst_saving \in Nat /\ zone \in Offsets
  BY TimesAreInts
<1>2. PICK o \in {zone, zone + dst_saving} : utc_offset(utc) = o
  BY <1>1, OffsetIs
<1>3. local_time(utc) = utc + o
  BY <1>2 DEF local_time
<1>4. ms_from_time(utc + o) = ms_from_time(utc)
  BY <1>1, OffsetInSeconds
<1> DEFINE s == utc - ms_from_time(utc)
<1>5. ms_from_time(utc) \in Int
  <2>1. ms_from_time(utc) \in 0 .. ms_per_sec - 1
    BY <1>1, WithoutMilliseconds
  <2> QED
    BY <2>1, ClockRadices DEF Radix
<1>6. s \in Int /\ o \in Int /\ t = s + o
  BY <1>1, <1>3, <1>4, <1>5
<1>7. utc_offset(s + o) = utc_offset(utc)
  BY DEF Settled
<1> HIDE DEF s
<1>8. utc_time(t) = s
  BY <1>2, <1>6, <1>7 DEF utc_time
<1> QED
  BY <1>3, <1>4, <1>8 DEF s

(* What the property says of one form. *)
ReadBack(form) ==
  LET text == Printed(form, utc)
      back == date_parse_str(text)
      ms   == IF form = "iso" THEN 0 ELSE ms_from_time(IF form = "loc" THEN local_time(utc) ELSE utc)
      read == /\ form # "date" /\ FourDigits(text.parts[0])
              /\ form = "loc" => zone \in Lettered
  IN  /\ read /\ (form = "loc" => Settled(utc)) => back = utc - ms
      /\ ~read => back = NaN

LEMMA TextReadBack ==
  ASSUME DateTypeOK, utc \in -max_time .. max_time, NEW form \in Form
  PROVE  ReadBack(form)
<1> DEFINE text == Printed(form, utc)
           back == date_parse_str(text)
           t    == Composed(ReadParts(text))
           ms   == IF form = "iso" THEN 0
                   ELSE ms_from_time(IF form = "loc" THEN local_time(utc) ELSE utc)
           goal == /\ Readable(text) /\ (form = "loc" => Settled(utc)) => back = utc - ms
                   /\ ~ Readable(text) => back = NaN
<1>1. utc \in Int /\ local_time(utc) \in Int
  BY TimesAreInts
<1> DEFINE read == /\ form # "date" /\ FourDigits(text.parts[0])
                   /\ form = "loc" => zone \in Lettered
<1>2. text.form = form /\ text.tz = zone
  BY DEF Printed
<1>3. Readable(text) <=> read
  BY <1>2 DEF Readable
<1>4. /\ ~ Readable(text) => back = NaN
      /\ Readable(text) /\ form = "loc" => back = time_clip(utc_time(t))
      /\ Readable(text) /\ form # "loc" => back = time_clip(t)
  BY <1>2, Reading
<1>5. ASSUME form = "iso" PROVE goal
  <2> DEFINE p == Parts(utc)
  <2>1. p = [i \in 0 .. 6 |-> p[i]] /\ Composed(p) = utc
    BY <1>1, PartsAre, PartsCompose
  <2>2. text.parts = p
    BY <1>5 DEF Printed
  <2>3. ReadParts(text) = [text.parts EXCEPT ![6] = text.parts[6]]
    BY <1>2, <1>5 DEF ReadParts
  <2> HIDE DEF p, text
  <2>4. ReadParts(text) = p
    BY <2>1, <2>2, <2>3
  <2>5. time_clip(t) = utc - 0
    BY <1>1, <2>1, <2>4, ClipKeeps
  <2>6. ms = 0
    BY <1>5
  <2> HIDE DEF back, t, ms
  <2> QED
    BY <1>4, <1>5, <2>5, <2>6
<1>6. ASSUME form = "utc" PROVE goal
  <2>1. text.parts = Parts(utc)
    BY <1>6 DEF Printed
  <2>2. ReadParts(text) = [text.parts EXCEPT ![6] = 0]
    BY <1>2, <1>6 DEF ReadParts
  <2> HIDE DEF text
  <2>3. t = utc - ms_from_time(utc)
    BY <1>1, <2>1, <2>2, WithoutMilliseconds
  <2>4. t \in -max_time .. max_time
    BY <2>3, WholeSecondInRange
  <2>5. time_clip(t) = t
    BY <2>4, ClipKeeps
  <2>6. ms = ms_from_time(utc)
    BY <1>6
  <2> HIDE DEF back, t, ms
  <2> QED
    BY <1>4, <1>6, <2>3, <2>5, <2>6
<1>7. ASSUME form = "loc" PROVE goal
  <2>1. text.parts = Parts(local_time(utc))
    BY <1>7 DEF Printed, LocalParts
  <2>2. ReadParts(text) = [text.parts EXCEPT ![6] = 0]
    BY <1>2, <1>7 DEF ReadParts
  <2> HIDE DEF text
  <2>3. t = local_time(utc) - ms_from_time(local_time(utc))
    BY <1>1, <2>1, <2>2, WithoutMilliseconds
  <2> HIDE DEF t
  <2>4. Settled(utc) => /\ ms_from_time(local_time(utc)) = ms_from_time(utc)
                        /\ utc_time(t) = utc - ms_from_time(utc)
    BY <2>3, LocalReturns
  <2>5. utc - ms_from_time(utc) \in -max_time .. max_time
    BY WholeSecondInRange
  <2>6. time_clip(utc - ms_from_time(utc)) = utc - ms_from_time(utc)
    BY <2>5, ClipKeeps
  <2>7. ms = ms_from_time(local_time(utc))
    BY <1>7
  <2> HIDE DEF back, ms
  <2> QED
    BY <1>4, <1>7, <2>4, <2>6, <2>7
<1>8. ASSUME form = "date" PROVE goal
  <2> HIDE DEF text, back
  <2> QED
    BY <1>3, <1>4, <1>8
<1>9. goal
  <2> HIDE DEF goal
  <2> QED
    BY <1>5, <1>6, <1>7, <1>8 DEF Form
<1> SUFFICES /\ read /\ (form = "loc" => Settled(utc)) => back = utc - ms
             /\ ~read => back = NaN
  BY DEF ReadBack
<1> HIDE DEF text, back, ms
<1> QED
  BY <1>3, <1>9

LEMMA TextsHold == DateTypeOK => TextsReadBack
<1>1. ASSUME DateTypeOK PROVE utc \in -max_time .. max_time => \A form \in Form : ReadBack(form)
  BY <1>1, TextReadBack
<1>2. ASSUME utc \in -max_time .. max_time => \A form \in Form : ReadBack(form)
      PROVE  TextsReadBack
  BY <1>2 DEF TextsReadBack, ReadBack
<1> QED
  BY <1>1, <1>2

(* What a date prints is read back as the same date, to the second, if the *)
(* year has four digits and, for local texts, the zone a name of letters.  *)
THEOREM TextsCorrect == DateSpec => []TextsReadBack
  BY DateTypeCorrect, TextsHold, PTL

-----------------------------------------------------------------------------
(* Doubles.                                                                *)

LEMMA FinIs ==
  ASSUME NEW n \in Int
  PROVE  /\ Fin(n) \in CDouble /\ IsFin(Fin(n)) /\ ~ IsInf(Fin(n)) /\ Fin(n)[2] = n
         /\ Fin(n) # NAN /\ Fin(n) # INF /\ Fin(n) # NINF
BY DEF Fin, CDouble, IsFin, IsInf, NAN, INF, NINF

LEMMA Specials ==
  /\ INF \in CDouble /\ NINF \in CDouble /\ NAN \in CDouble
  /\ INF # NAN /\ NINF # NAN /\ INF # NINF
  /\ IsInf(INF) /\ IsInf(NINF) /\ ~ IsInf(NAN)
  /\ ~ IsFin(INF) /\ ~ IsFin(NINF) /\ ~ IsFin(NAN)
  /\ INF[2] = 1 /\ NINF[2] = -1
BY DEF CDouble, IsFin, IsInf, NAN, INF, NINF

LEMMA DoubleCases ==
  ASSUME NEW d \in CDouble
  PROVE  /\ d = INF \/ d = NINF \/ d = NAN \/ (d[2] \in Int /\ d = Fin(d[2]))
         /\ IsFin(d) <=> d \notin {INF, NINF, NAN}
         /\ IsInf(d) <=> d \in {INF, NINF}
         /\ IsFin(d) => d[2] \in Int /\ d = Fin(d[2])
<1>1. CASE d \in {INF, NINF, NAN}
  BY <1>1, Specials
<1>2. CASE d \in {"fin"} \X Int
  <2>1. d[2] \in Int /\ d = Fin(d[2])
    BY <1>2 DEF Fin
  <2> QED
    BY <2>1, FinIs
<1> QED
  BY <1>1, <1>2 DEF CDouble

LEMMA FinSame ==
  ASSUME NEW m \in Int, NEW n \in Int
  PROVE  Fin(m) = Fin(n) <=> m = n
BY DEF Fin

LEMMA SignIs ==
  ASSUME NEW n \in Int
  PROVE  /\ Sign(n) \in {-1, 0, 1} /\ (Sign(n) = 0 <=> n = 0)
         /\ Sign(n) * n \in Nat /\ (n # 0 => Sign(n) * n > 0)
BY DEF Sign

LEMMA NegativePair ==
  ASSUME NEW t, NEW n \in Int
  PROVE  Negative(<<t, n>>) = <<t, -n>>
BY DEF Negative

LEMMA NegativeIs ==
  /\ \A n \in Int : Negative(Fin(n)) = Fin(-n)
  /\ Negative(INF) = NINF /\ Negative(NINF) = INF /\ Negative(NAN) = NAN
<1>1. \A t : \A n \in Int : Negative(<<t, n>>) = <<t, -n>>
  BY NegativePair
<1>2. 1 \in Int /\ -1 \in Int /\ 0 \in Int /\ -(-1) = 1 /\ -0 = 0
  <2>1. \A n \in Int : -n = 0 - n
    OBVIOUS
  <2>2. 1 \in Int /\ -1 \in Int /\ 0 \in Int /\ 0 - (-1) = 1 /\ 0 - 0 = 0
    OBVIOUS
  <2> QED
    BY <2>1, <2>2, Zenon
<1>3. /\ Negative(<<"inf", 1>>) = <<"inf", -1>> /\ Negative(<<"inf", -1>>) = <<"inf", 1>>
      /\ Negative(<<"nan", 0>>) = <<"nan", 0>>
  BY <1>1, <1>2
<1> QED
  BY <1>1, <1>3 DEF Fin, INF, NINF, NAN

LEMMA NegativeDouble ==
  ASSUME NEW d \in CDouble
  PROVE  Negative(d) \in CDouble /\ (Negative(d) = NAN <=> d = NAN)
<1>1. CASE d \in {INF, NINF, NAN}
  BY <1>1, Specials, NegativeIs
<1>2. CASE d[2] \in Int /\ d = Fin(d[2])
  <2>1. Negative(d) = Fin(-d[2]) /\ -d[2] \in Int
    BY <1>2, NegativeIs
  <2> QED
    BY <1>2, <2>1, FinIs
<1> QED
  BY <1>1, <1>2, DoubleCases

LEMMA RemainderIs ==
  ASSUME NEW a \in Int, NEW b \in Int, b # 0
  PROVE  CRem(a, b) \in Int
<1> DEFINE m == Sign(a) * a
           c == IF b < 0 THEN -b ELSE b
<1>1. m \in Nat /\ c \in Nat /\ c > 0 /\ Sign(a) \in {-1, 0, 1}
  BY SignIs
<1> HIDE DEF m, c
<1>2. m % c \in Int
  BY <1>1
<1>3. Sign(a) * (m % c) \in Int
  BY <1>1, <1>2
<1> QED
  BY <1>3 DEF CRem, m, c

LEMMA SumDouble ==
  ASSUME NEW d \in CDouble, NEW e \in CDouble
  PROVE  Sum2(d, e) \in CDouble
<1>1. CASE IsFin(d) /\ IsFin(e)
  <2>1. d[2] + e[2] \in Int
    BY <1>1, DoubleCases
  <2> QED
    BY <1>1, <2>1, FinIs DEF Sum2
<1>2. CASE ~ (IsFin(d) /\ IsFin(e))
  BY <1>2, Specials DEF Sum2
<1> QED
  BY <1>1, <1>2

LEMMA ProductDouble ==
  ASSUME NEW d \in CDouble, NEW e \in CDouble
  PROVE  Times(d, e) \in CDouble
<1>1. CASE IsFin(d) /\ IsFin(e)
  <2>1. d[2] * e[2] \in Int
    BY <1>1, DoubleCases
  <2> QED
    BY <1>1, <2>1, FinIs DEF Times
<1>2. CASE ~ (IsFin(d) /\ IsFin(e)) /\ NAN \notin {d, e}
  <2>1. d[2] \in Int /\ e[2] \in Int
    BY <1>2, DoubleCases, Specials
  <2>2. Sign(d[2]) \in {-1, 0, 1} /\ Sign(e[2]) \in {-1, 0, 1}
    BY <2>1, SignIs
  <2>3. Sign(d[2]) * Sign(e[2]) \in {-1, 0, 1}
    BY <2>2
  <2>4. Times(d, e) \in {NAN, INF, NINF}
    BY <1>2, <2>3 DEF Times, INF, NINF
  <2> QED
    BY <2>4, Specials
<1>3. CASE NAN \in {d, e}
  BY <1>3, Specials DEF Times
<1> QED
  BY <1>1, <1>2, <1>3

LEMMA QuotientDouble ==
  ASSUME NEW d \in CDouble, NEW e \in CDouble
  PROVE  Over(d, e) \in CDouble
<1>0. Fin(0) \in CDouble /\ Fin(-1) \in CDouble /\ Fin(1) \in CDouble
  BY FinIs
<1>1. CASE IsFin(d) /\ IsFin(e) /\ e # Fin(0)
  <2> DEFINE a == d[2]
             b == e[2]
             m == Sign(a) * a
             n == Sign(b) * b
  <2>1. a \in Int /\ b \in Int /\ b # 0 /\ d = Fin(a) /\ e = Fin(b)
    BY <1>1, DoubleCases
  <2>2. m \in Nat /\ n \in Nat /\ n > 0 /\ Sign(a) \in {-1, 0, 1} /\ Sign(b) \in {-1, 0, 1}
    BY <2>1, SignIs
  <2>3. Over(d, e) = Fin(Sign(a) * Sign(b) * (m \div n))
    BY <1>1, <2>1, FinIs DEF Over
  <2> HIDE DEF m, n, a, b
  <2>4. m \div n \in Int /\ Sign(a) * Sign(b) \in Int
    BY <2>2
  <2>5. Sign(a) * Sign(b) * (m \div n) \in Int
    BY <2>4
  <2> QED
    BY <2>3, <2>5, FinIs
<1>2. CASE e = Fin(0) /\ d # Fin(0) /\ IsFin(d)
  <2>1. d[2] \in Int /\ d[2] # 0
    BY <1>2, DoubleCases
  <2>2. Sign(d[2]) \in {-1, 1}
    BY <2>1 DEF Sign
  <2>3. Over(d, e) = <<"inf", Sign(d[2])>>
    <3>1. e \notin {NAN, INF, NINF} /\ ~ IsInf(e) /\ ~ IsInf(d) /\ d # NAN
      BY <1>2, FinIs, DoubleCases, Specials
    <3> QED
      BY <1>2, <3>1 DEF Over
  <2> QED
    BY <2>2, <2>3, Specials DEF INF, NINF
<1>3. CASE IsInf(d) /\ IsFin(e)
  <2>1. Over(d, e) \in {NAN, Times(d, Fin(-1)), Times(d, Fin(1))}
    BY <1>3, DoubleCases, Specials, FinIs DEF Over
  <2> QED
    BY <1>0, <2>1, ProductDouble, Specials
<1>4. CASE NAN \in {d, e} \/ IsInf(e) \/ (d = Fin(0) /\ e = Fin(0))
  BY <1>0, <1>4, Specials DEF Over
<1> QED
  BY <1>1, <1>2, <1>3, <1>4, DoubleCases

LEMMA RemainderDouble ==
  ASSUME NEW d \in CDouble, NEW e \in CDouble
  PROVE  Fmod(d, e) \in CDouble
<1>1. CASE IsFin(d) /\ IsFin(e) /\ e # Fin(0)
  <2>1. d[2] \in Int /\ e[2] \in Int /\ e[2] # 0
    BY <1>1, DoubleCases
  <2>2. CRem(d[2], e[2]) \in Int
    BY <2>1, RemainderIs
  <2> QED
    BY <1>1, <2>2, FinIs, Specials, DoubleCases DEF Fmod
<1>2. CASE ~ (IsFin(d) /\ IsFin(e) /\ e # Fin(0))
  BY <1>2, DoubleCases, Specials DEF Fmod
<1> QED
  BY <1>1, <1>2

-----------------------------------------------------------------------------
(* Numbers.                                                                *)

LEMMA NumberIs ==
  ASSUME NEW d \in CDouble
  PROVE  JSNUM(d) \in JSNumber /\ JSNUM(d).val = d /\ JSNUM(d).is_nan = (d = NAN)
BY DEF JSNUM, JSNumber

LEMMA NumIs ==
  ASSUME NEW n \in Int
  PROVE  Num(n) \in JSNumber /\ Num(n).val = Fin(n) /\ ~ Num(n).is_nan
BY FinIs, NumberIs DEF Num

LEMMA NanIs == JSNAN \in JSNumber /\ JSNAN.is_nan
BY FinIs DEF JSNAN, JSNumber

LEMMA NumberHas ==
  ASSUME NEW n \in JSNumber
  PROVE  /\ n.type = "number" /\ IS_NUM(n) /\ ~ IS_STR(n)
         /\ n.val \in CDouble /\ n.is_nan \in BOOLEAN /\ (n.val = NAN => n.is_nan)
         /\ IS_INF(n) <=> n.val \in {INF, NINF}
<1>1. n.type = "number" /\ n.val \in CDouble /\ n.is_nan \in BOOLEAN /\ (n.val = NAN => n.is_nan)
  BY DEF JSNumber
<1>2. IsInf(n.val) <=> n.val \in {INF, NINF}
  BY <1>1, DoubleCases
<1> QED
  BY <1>1, <1>2 DEF IS_NUM, IS_STR, IS_INF

LEMMA FiniteHas ==
  ASSUME NEW n \in JSNumber, ~ n.is_nan, ~ IS_INF(n)
  PROVE  n.val[2] \in Int /\ n.val = Fin(n.val[2]) /\ IsFin(n.val)
<1>1. n.val \in CDouble /\ n.val \notin {INF, NINF, NAN}
  BY NumberHas
<1> QED
  BY <1>1, DoubleCases

LEMMA SumNumber ==
  ASSUME NEW a \in JSNumber, NEW b \in JSNumber
  PROVE  AddNumbers(a, b) \in JSNumber
<1>1. AddNumbers(a, b) \in {JSNAN, a, b, JSNUM(Sum2(a.val, b.val))}
  BY DEF AddNumbers
<1>2. JSNUM(Sum2(a.val, b.val)) \in JSNumber
  BY NumberHas, SumDouble, NumberIs
<1> QED
  BY <1>1, <1>2, NanIs

LEMMA ProductNumber ==
  ASSUME NEW a \in JSNumber, NEW b \in JSNumber
  PROVE  MulNumbers(a, b) \in JSNumber
<1>1. MulNumbers(a, b) \in {JSNAN, JSNUM(INF), JSNUM(NINF), JSNUM(Times(a.val, b.val))}
  BY DEF MulNumbers
<1>2. JSNUM(Times(a.val, b.val)) \in JSNumber
  BY NumberHas, ProductDouble, NumberIs
<1> QED
  BY <1>1, <1>2, NanIs, NumberIs, Specials

LEMMA QuotientNumber ==
  ASSUME NEW a \in JSNumber, NEW b \in JSNumber
  PROVE  DivNumbers(a, b) \in JSNumber
<1>1. DivNumbers(a, b) \in {JSNAN, a, JSNUM(INF), JSNUM(Over(a.val, b.val))}
  BY DEF DivNumbers
<1>2. JSNUM(Over(a.val, b.val)) \in JSNumber
  BY NumberHas, QuotientDouble, NumberIs
<1> QED
  BY <1>1, <1>2, NanIs, NumberIs, Specials

-----------------------------------------------------------------------------
(* Texts.                                                                  *)

LEMMA NumeralsAre ==
  /\ Len(Numerals) = 36 /\ DOMAIN Numerals = 1 .. 36
  /\ \A k \in 1 .. 36 : Numerals[k] \in Character
  /\ {" ", "+", "-"} \subseteq Character
  /\ DOMAIN Collation = 1 .. 39
<1> DEFINE signs == {" ", "+", "-"}
           numerals == {"0", "1", "2", "3", "4", "5", "6", "7", "8", "9",
                        "a", "b", "c", "d", "e", "f", "g", "h", "i", "j", "k", "l", "m",
                        "n", "o", "p", "q", "r", "s", "t", "u", "v", "w", "x", "y", "z"}
           both == signs \cup numerals
           p == <<" ", "+", "-">>
<1>1. Numerals \in Seq(numerals) /\ Len(Numerals) = 36 /\ DOMAIN Numerals = 1 .. 36
  BY DEF Numerals
<1>2. p \in Seq(signs) /\ Len(p) = 3
  OBVIOUS
<1> HIDE DEF numerals, signs, p
<1>3. p \in Seq(both) /\ Numerals \in Seq(both)
  <2>1. signs \subseteq both /\ numerals \subseteq both
    OBVIOUS
  <2> HIDE DEF both
  <2> QED
    BY <1>1, <1>2, <2>1
<1> HIDE DEF both
<1> DEFINE q == p \o Numerals
           m == Len(p)
           n == Len(Numerals)
<1>4. q \in Seq(both) /\ Len(q) = m + n /\ \A i \in 1 .. m + n : q[i] = IF i <= m THEN p[i] ELSE Numerals[i - m]
  BY <1>3, ConcatProperties
<1>5. Collation = q /\ m = 3 /\ n = 36
  BY <1>1, <1>2 DEF Collation, p
<1> HIDE DEF q, m, n
<1>6. /\ DOMAIN q = 1 .. 39 /\ \A i \in 4 .. 39 : q[i] = Numerals[i - 3]
      /\ q[1] = p[1] /\ q[2] = p[2] /\ q[3] = p[3]
  <2>1. Len(q) = 39
    BY <1>4, <1>5
  <2> QED
    BY <1>4, <1>5, <2>1, LenProperties
<1>7. ASSUME NEW k \in 1 .. 36 PROVE Numerals[k] \in Character
  <2>1. k + 3 \in 4 .. 39 /\ k + 3 \in 1 .. 39 /\ (k + 3) - 3 = k
    OBVIOUS
  <2>2. Collation[k + 3] = Numerals[k] /\ k + 3 \in DOMAIN Collation
    BY <1>5, <1>6, <2>1
  <2> QED
    BY <2>2 DEF Character, ToSet
<1>8. {" ", "+", "-"} \subseteq Character
  <2>1. 1 \in DOMAIN Collation /\ 2 \in DOMAIN Collation /\ 3 \in DOMAIN Collation
    BY <1>5, <1>6
  <2>2. p[1] = " " /\ p[2] = "+" /\ p[3] = "-"
    BY DEF p
  <2> QED
    BY <1>5, <1>6, <2>1, <2>2 DEF Character, ToSet
<1> QED
  BY <1>1, <1>5, <1>6, <1>7, <1>8

LEMMA CollationIs == DOMAIN Collation \subseteq Int
<1>1. DOMAIN Collation = 1 .. 39
  BY NumeralsAre, Zenon
<1>2. 1 .. 39 \subseteq Int
  OBVIOUS
<1> QED
  BY <1>1, <1>2, Zenon

LEMMA RadixVal == \A c : radix_val(c) \in Int /\ radix_val(c) >= 0 /\ radix_val(c) <= 36
<1> TAKE c
<1>1. CASE \E i \in 1 .. 36 : Numerals[i] = c
  <2>1. PICK i \in 1 .. 36 : i = (CHOOSE j \in 1 .. 36 : Numerals[j] = c)
    BY <1>1
  <2>2. radix_val(c) = i - 1
    BY <1>1, <2>1 DEF radix_val
  <2> QED
    BY <2>2
<1>2. CASE ~ \E i \in 1 .. 36 : Numerals[i] = c
  BY <1>2 DEF radix_val
<1> QED
  BY <1>1, <1>2

LEMMA EmptyText == <<>> \in Text /\ Len(<<>>) = 0
BY EmptySeq DEF Text

LEMMA OneCharacter ==
  ASSUME NEW c \in Character
  PROVE  <<c>> \in Text
BY DEF Text

LEMMA TextConcat ==
  ASSUME NEW s \in Text, NEW t \in Text
  PROVE  s \o t \in Text /\ Len(s \o t) = Len(s) + Len(t)
BY ConcatProperties DEF Text

LEMMA TextHas ==
  ASSUME NEW s \in Text
  PROVE  /\ Len(s) \in Nat /\ DOMAIN s = 1 .. Len(s) /\ \A i \in 1 .. Len(s) : s[i] \in Character
         /\ s \in [1 .. Len(s) -> Character]
BY LenProperties, ElementOfSeq DEF Text

(* The value of a text that is read from the left. *)
PositionalStep(val, s, radix, i) == IF i = 0 THEN 0 ELSE val[i - 1] * radix + radix_val(s[i])
PositionalFunction(s, radix) ==
  CHOOSE val : val = [i \in 0 .. Len(s) |-> PositionalStep(val, s, radix, i)]

LEMMA PositionalSteps ==
  ASSUME NEW s \in Text, NEW radix \in Int
  PROVE  \E val \in [0 .. Len(s) -> Int] :
           /\ val[0] = 0
           /\ \A i \in 1 .. Len(s) : val[i] = val[i - 1] * radix + radix_val(s[i])
           /\ Positional(s, radix) = val[Len(s)]
<1> DEFINE S == 0 .. Len(s)
           rank == [i \in S |-> i]
           next == [i \in S |-> i - 1]
           out == [i \in S |-> 0]
           op == [y \in S \X Int |-> y[2] * radix + radix_val(s[y[1]])]
           val == PositionalFunction(s, radix)
<1>0. Len(s) \in Nat
  BY LenProperties DEF Text
<1>1. Descends(S, rank, {0}, next) /\ \A i \in S : i \in {0} => out[i] \in Int
  BY <1>0 DEF Descends
<1>2. op \in [S \X Int -> Int] /\ \A i \in S, k \in Int : op[<<i, k>>] = k * radix + radix_val(s[i])
  <2>1. ASSUME NEW y \in S \X Int PROVE y[2] * radix + radix_val(s[y[1]]) \in Int
    <3> DEFINE r == radix_val(s[y[1]])
               k == y[2]
    <3>1. k \in Int
      OBVIOUS
    <3>r. r \in Int
      BY RadixVal, Zenon
    <3> HIDE DEF r, k
    <3>2. k * radix \in Int
      BY <3>1
    <3>3. k * radix + r \in Int
      BY <3>r, <3>2
    <3> QED
      BY <3>3 DEF r, k
  <2> QED
    BY <2>1
<1> HIDE DEF rank, next, out, op
<1>3. PICK f \in [S -> Int] : \A i \in S : f[i] = IF i \in {0} THEN out[i] ELSE op[<<i, f[next[i]]>>]
  <2>1. Int # {}
    OBVIOUS
  <2> DEFINE T == Int
             stop == {0}
  <2>2. T # {} /\ Descends(S, rank, stop, next) /\ (\A i \in S : i \in stop => out[i] \in T)
        /\ op \in [S \X T -> T]
    BY <1>1, <1>2, <2>1
  <2> HIDE DEF S, T, stop
  <2>3. \E f \in [S -> T] : \A i \in S : f[i] = IF i \in stop THEN out[i] ELSE op[<<i, f[next[i]]>>]
    <3>1. MakesValues(S, T, rank, stop, next, out, op)
      BY <2>2 DEF MakesValues
    <3> QED
      BY <3>1, Descent
  <2> QED
    BY <2>3 DEF T, stop
<1>4. f = [i \in S |-> PositionalStep(f, s, radix, i)]
  <2>1. ASSUME NEW i \in S PROVE f[i] = PositionalStep(f, s, radix, i)
    <3>1. i = 0 => f[i] = 0
      BY <1>3 DEF out
    <3>2. i # 0 => i - 1 \in S /\ f[i - 1] \in Int /\ f[i] = op[<<i, f[i - 1]>>]
      BY <1>0, <1>3 DEF next
    <3> QED
      BY <1>2, <3>1, <3>2 DEF PositionalStep
  <2> QED
    BY <2>1
<1>5. val = [i \in S |-> PositionalStep(val, s, radix, i)]
  BY <1>4 DEF PositionalFunction
<1> HIDE DEF val
<1>6. \A i \in S : val[i] = PositionalStep(val, s, radix, i)
  BY <1>5
<1>7. \A i \in S : val[i] \in Int
  <2>1. ASSUME NEW i \in S, i \in {0} \/ val[next[i]] \in Int PROVE val[i] \in Int
    <3> DEFINE r == radix_val(s[i])
               k == val[i - 1]
    <3>1. CASE i # 0
      <4>1. k \in Int
        BY <2>1, <3>1 DEF next
      <4>2. r \in Int
        BY RadixVal, Zenon
      <4>3. val[i] = k * radix + r
        BY <1>6, <3>1 DEF PositionalStep
      <4> HIDE DEF k, r
      <4>4. k * radix \in Int
        BY <4>1
      <4> QED
        BY <4>2, <4>3, <4>4
    <3>2. CASE i = 0
      BY <1>6, <3>2 DEF PositionalStep
    <3> QED
      BY <3>1, <3>2
  <2> DEFINE T == Int
             stop == {0}
  <2>2. Descends(S, rank, stop, next) /\ \A i \in S : i \in stop \/ val[next[i]] \in T => val[i] \in T
    BY <1>1, <2>1
  <2> HIDE DEF S, T, stop
  <2>3. \A i \in S : val[i] \in T
    BY <2>2, DescentType
  <2> QED
    BY <2>3 DEF T
<1>8. Positional(s, radix) = val[Len(s)]
  BY DEF Positional, val, PositionalFunction, PositionalStep
<1>9. val \in [S -> Int]
  BY <1>5, <1>7
<1>10. val[0] = 0
  BY <1>0, <1>6 DEF PositionalStep
<1>11. \A i \in 1 .. Len(s) : val[i] = val[i - 1] * radix + radix_val(s[i])
  BY <1>0, <1>6 DEF PositionalStep
<1> QED
  BY <1>8, <1>9, <1>10, <1>11

LEMMA PositionalIs ==
  ASSUME NEW s \in Text, NEW radix \in Int
  PROVE  Positional(s, radix) \in Int
<1>1. Len(s) \in 0 .. Len(s)
  BY TextHas
<1> QED
  BY <1>1, PositionalSteps

(* The digits of a number. *)
DecimalStep(digits, k) ==
  IF k < 10 THEN <<Numerals[k + 1]>> ELSE Append(digits[k \div 10], Numerals[(k % 10) + 1])
DecimalFunction == CHOOSE digits : digits = [k \in Nat |-> DecimalStep(digits, k)]

LEMMA DecimalSteps ==
  \E digits \in [Nat -> Text] :
    /\ \A k \in Nat : digits[k] = DecimalStep(digits, k)
    /\ \A n \in Int : Decimal(n) = IF n < 0 THEN <<"-">> \o digits[-n] ELSE digits[n]
<1> DEFINE S == Nat
           T == Text
           rank == [k \in S |-> k]
           stop == 0 .. 9
           next == [k \in S |-> k \div 10]
           out == [k \in S |-> <<Numerals[k + 1]>>]
           op == [y \in S \X T |-> Append(y[2], Numerals[(y[1] % 10) + 1])]
           digits == DecimalFunction
<1>1. ASSUME NEW k \in Nat
      PROVE  Numerals[(k % 10) + 1] \in Character /\ (k < 10 => <<Numerals[k + 1]>> \in Text)
  <2>1. (k % 10) + 1 \in 1 .. 36 /\ (k < 10 => k + 1 \in 1 .. 36)
    OBVIOUS
  <2>2. Numerals[(k % 10) + 1] \in Character /\ (k < 10 => Numerals[k + 1] \in Character)
    BY <2>1, NumeralsAre
  <2> QED
    BY <2>2 DEF Text
<1>2. ASSUME NEW k \in Nat, NEW t \in Text PROVE Append(t, Numerals[(k % 10) + 1]) \in Text
  BY <1>1, AppendProperties DEF Text
<1>3. Descends(S, rank, stop, next)
  <2>1. \A k \in Nat : k \notin 0 .. 9 => k \div 10 \in Nat /\ k \div 10 < k
    OBVIOUS
  <2> QED
    BY <2>1 DEF Descends
<1>4. \A k \in S : k \in stop => out[k] \in T
  <2>1. \A k \in Nat : k \in 0 .. 9 => <<Numerals[k + 1]>> \in Text
    BY <1>1
  <2> QED
    BY <2>1
<1>5. op \in [S \X T -> T] /\ T # {}
  <2>1. \A y \in S \X T : Append(y[2], Numerals[(y[1] % 10) + 1]) \in T
    BY <1>2
  <2>2. T # {}
    BY EmptyText
  <2> HIDE DEF S, T
  <2> QED
    BY <2>1, <2>2
<1>a. /\ \A k \in S : (k \in stop <=> k < 10) /\ next[k] = k \div 10 /\ out[k] = <<Numerals[k + 1]>>
      /\ \A k \in S, t \in T : op[<<k, t>>] = Append(t, Numerals[(k % 10) + 1])
  OBVIOUS
<1>b. \A k \in S : k \div 10 \in S
  OBVIOUS
<1> HIDE DEF rank, stop, next, out, op
<1>6. PICK f \in [S -> T] : \A k \in S : f[k] = IF k \in stop THEN out[k] ELSE op[<<k, f[next[k]]>>]
  <2> HIDE DEF S, T, rank, stop, next, out, op
  <2>1. MakesValues(S, T, rank, stop, next, out, op)
    BY <1>3, <1>4, <1>5 DEF MakesValues
  <2> QED
    BY <2>1, Descent
<1>7. f = [k \in S |-> DecimalStep(f, k)]
  <2>1. ASSUME NEW k \in S PROVE f[k] = DecimalStep(f, k)
    <3>1. k \in stop => f[k] = <<Numerals[k + 1]>>
      BY <1>6, <1>a
    <3>2. k \notin stop => f[k] = Append(f[k \div 10], Numerals[(k % 10) + 1])
      <4>1. f[k \div 10] \in T
        BY <1>b
      <4> HIDE DEF S, T
      <4> QED
        BY <1>6, <1>a, <4>1
    <3> QED
      BY <1>a, <3>1, <3>2 DEF DecimalStep
  <2> QED
    BY <2>1
<1>8. digits = [k \in S |-> DecimalStep(digits, k)]
  BY <1>7 DEF DecimalFunction
<1> HIDE DEF digits
<1>9. \A k \in S : digits[k] \in T
  <2>1. ASSUME NEW k \in S, k \in stop \/ digits[next[k]] \in T PROVE digits[k] \in T
    <3>1. digits[k] = DecimalStep(digits, k)
      BY <1>8
    <3>2. CASE k < 10
      BY <1>1, <3>1, <3>2 DEF DecimalStep
    <3>3. CASE ~ (k < 10)
      <4>1. digits[k \div 10] \in Text
        BY <1>a, <2>1, <3>3
      <4> QED
        BY <1>2, <3>1, <3>3, <4>1 DEF DecimalStep
    <3> QED
      BY <3>2, <3>3
  <2> HIDE DEF S, T, rank, stop, next
  <2> QED
    BY <1>3, <2>1, DescentType
<1>10. \A n \in Int : Decimal(n) = IF n < 0 THEN <<"-">> \o digits[-n] ELSE digits[n]
  BY DEF Decimal, digits, DecimalFunction, DecimalStep
<1>11. digits \in [S -> T] /\ \A k \in S : digits[k] = DecimalStep(digits, k)
  <2> HIDE DEF S, T
  <2> QED
    BY <1>8, <1>9
<1> QED
  BY <1>10, <1>11

LEMMA DecimalIs ==
  ASSUME NEW n \in Int
  PROVE  Decimal(n) \in Text
<1>1. PICK digits \in [Nat -> Text] : Decimal(n) = IF n < 0 THEN <<"-">> \o digits[-n] ELSE digits[n]
  BY DecimalSteps
<1>2. <<"-">> \in Text
  <2>1. "-" \in Character
    BY NumeralsAre
  <2> QED
    BY <2>1, OneCharacter
<1>3. CASE n < 0
  <2>1. digits[-n] \in Text
    BY <1>3
  <2> QED
    BY <1>1, <1>2, <1>3, <2>1, TextConcat
<1>4. CASE ~ (n < 0)
  BY <1>1, <1>4
<1> QED
  BY <1>3, <1>4

-----------------------------------------------------------------------------
(* Values.                                                                 *)

LEMMA TwoIs ==
  /\ two32 \in Int /\ two32 \div 2 \in Nat /\ two32 \div 2 > 0
  /\ two32 = 2 * (two32 \div 2)
  /\ two32 # 0 /\ two32 > 0
BY ValuesAssumption

LEMMA PartOfText ==
  ASSUME NEW s \in Text, NEW m \in Int, NEW n \in Int, 1 <= m, n <= Len(s)
  PROVE  /\ SubSeq(s, m, n) \in Text
         /\ Len(SubSeq(s, m, n)) = IF m <= n THEN n - m + 1 ELSE 0
         /\ \A i \in 1 .. n - m + 1 : SubSeq(s, m, n)[i] = s[m + i - 1]
<1>1. \A i \in m .. n : s[i] \in Character
  BY TextHas
<1> QED
  BY <1>1, SubSeqProperties DEF Text

LEMMA StringIs ==
  ASSUME NEW s \in Text
  PROVE  /\ JSSTR(s) \in JSString /\ JSSTR(s).ptr = s /\ JSSTR(s).type = "string"
         /\ JSSTR(s).length = Len(s) /\ JSSTR(s).shown = Len(s)
BY TextHas DEF JSSTR, JSString

(* The strings whose lengths are those of their texts. *)
MadeString == {w \in JSString : w.length = Len(w.ptr) /\ w.shown = w.length}

LEMMA MadeIs ==
  /\ MadeString \subseteq JSString
  /\ \A s \in Text : JSSTR(s) \in MadeString
BY StringIs DEF MadeString

LEMMA StringHas ==
  ASSUME NEW w \in JSString
  PROVE  w.type = "string" /\ IS_STR(w) /\ ~ IS_NUM(w) /\ w.ptr \in Text /\ w.length \in Nat /\ w.shown \in Nat
BY DEF JSString, IS_STR, IS_NUM

LEMMA OthersHave ==
  /\ JSUNDEF.type = "undefined" /\ JSNULL.type = "null"
  /\ \A b \in BOOLEAN : JSBOOL(b).type = "boolean" /\ JSBOOL(b).bool = b /\ JSBOOL(b) \in JSValue
  /\ JSUNDEF \in JSValue /\ JSNULL \in JSValue
BY DEF JSUNDEF, JSNULL, JSBOOL, JSValue

LEMMA ValueCases ==
  ASSUME NEW w \in JSValue
  PROVE  /\ w.type \in {"undefined", "null", "boolean", "number", "string"}
         /\ w.type = "boolean" => w.bool \in BOOLEAN
         /\ w.type = "number" <=> w \in JSNumber
         /\ w.type = "string" <=> w \in JSString
         /\ IS_STR(w) <=> w \in JSString
         /\ IS_NUM(w) <=> w \in JSNumber
<1>1. CASE w \in JSNumber
  BY <1>1, NumberHas, StringHas DEF IS_STR, IS_NUM
<1>2. CASE w \in JSString
  BY <1>2, NumberHas, StringHas DEF IS_STR, IS_NUM
<1>3. CASE w \in {JSUNDEF, JSNULL, JSBOOL(TRUE), JSBOOL(FALSE)}
  <2>1. w.type \in {"undefined", "null", "boolean"} /\ (w.type = "boolean" => w.bool \in BOOLEAN)
    BY <1>3, OthersHave
  <2> QED
    BY <2>1, NumberHas, StringHas DEF IS_STR, IS_NUM
<1> QED
  BY <1>1, <1>2, <1>3 DEF JSValue

LEMMA SkipIs ==
  ASSUME NEW s \in Text
  PROVE  SkipSpaces(s) \in Text
<1> DEFINE n == CHOOSE i \in Spaces(s) : i + 1 \notin Spaces(s)
<1>1. Len(s) \in Nat /\ Spaces(s) \in SUBSET (0 .. Len(s)) /\ 0 \in Spaces(s)
  <2>1. Len(s) \in Nat
    BY TextHas
  <2>2. 0 \in 0 .. Len(s) /\ \A j \in 1 .. 0 : s[j] = " "
    BY <2>1
  <2> QED
    BY <2>1, <2>2 DEF Spaces
<1>2. PICK m \in Spaces(s) : \A k \in Spaces(s) : k <= m
  <2> DEFINE S == Spaces(s)
             len == Len(s)
  <2>1. len \in Nat /\ S \in SUBSET (0 .. len) /\ S # {}
    BY <1>1
  <2> HIDE DEF S, len
  <2>2. \E m \in S : \A k \in S : k <= m
    BY <2>1, Greatest
  <2> QED
    BY <2>2 DEF S
<1>3. m + 1 \notin Spaces(s)
  BY <1>1, <1>2
<1>4. n \in Spaces(s)
  BY <1>3
<1> HIDE DEF n
<1>5. n \in Int /\ 1 <= 1 + n /\ 1 + n \in Int
  BY <1>1, <1>4
<1>6. SubSeq(s, 1 + n, Len(s)) \in Text
  <2>1. Len(s) \in Int /\ Len(s) <= Len(s)
    BY <1>1
  <2> QED
    BY <1>5, <2>1, PartOfText
<1> QED
  BY <1>6 DEF SkipSpaces, n

LEMMA UnsignedIs ==
  ASSUME NEW s \in Text
  PROVE  Unsigned(s) \in Text /\ SignOf(s) \in {-1, 1}
<1>1. s # <<>> => Tail(s) \in Text
  BY HeadTailProperties DEF Text
<1> QED
  BY <1>1 DEF Unsigned, SignOf

LEMMA SignedIs ==
  ASSUME NEW s \in Text, NEW u \in Text, NEW radix \in Int
  PROVE  Num(SignOf(s) * Positional(u, radix)) \in JSNumber
<1>1. SignOf(s) \in {-1, 1} /\ Positional(u, radix) \in Int
  BY UnsignedIs, PositionalIs
<1>2. SignOf(s) * Positional(u, radix) \in Int
  BY <1>1
<1> QED
  BY <1>2, NumIs

LEMMA StrtodIs ==
  ASSUME NEW s \in Text
  PROVE  strtod(s) \in JSNumber
<1> DEFINE t == SkipSpaces(s)
           u == Unsigned(t)
<1>1. t \in Text /\ u \in Text
  BY SkipIs, UnsignedIs
<1>2. strtod(s) \in {Num(0), JSNAN, Num(SignOf(t) * Positional(u, 10))}
  BY DEF strtod
<1> QED
  BY <1>1, <1>2, SignedIs, NumIs, NanIs

LEMMA ToNumber ==
  ASSUME NEW w \in JSValue
  PROVE  fh_to_number(w) \in JSNumber /\ (IS_NUM(w) => fh_to_number(w) = w)
<1>1. CASE w.type = "string"
  BY <1>1, ValueCases, StringHas, StrtodIs DEF fh_to_number, IS_STR, IS_NUM
<1>2. CASE w.type = "number"
  BY <1>2, ValueCases DEF fh_to_number, IS_STR, IS_NUM
<1>3. CASE w.type \in {"undefined", "null", "boolean"}
  <2>1. fh_to_number(w) \in {JSNAN, Num(0), Num(1)}
    BY <1>3 DEF fh_to_number, IS_STR
  <2> QED
    BY <1>3, <2>1, NumIs, NanIs DEF IS_NUM
<1> QED
  BY <1>1, <1>2, <1>3, ValueCases

LEMMA HasTextIs ==
  ASSUME NEW w \in JSValue, HasText(w)
  PROVE  fh_to_string(w) \in JSString
<1>1. CASE IS_STR(w)
  BY <1>1, ValueCases DEF fh_to_string
<1>2. CASE ~ IS_STR(w)
  <2>1. w \in JSNumber /\ IsFin(w.val)
    BY <1>2, ValueCases DEF HasText
  <2>2. w.val[2] \in Int
    BY <2>1, NumberHas, DoubleCases
  <2> QED
    BY <1>2, <2>2, DecimalIs, StringIs DEF fh_to_string
<1> QED
  BY <1>1, <1>2

LEMMA ToWord ==
  ASSUME NEW w \in JSValue
  PROVE  fh_to_int32(w) \in JSNumber /\ \E n \in Int : fh_to_int32(w) = Num(n)
<1> DEFINE n == fh_to_number(w)
<1>0. two32 \in Int /\ two32 # 0
  BY TwoIs
<1>1. n \in JSNumber
  BY ToNumber
<1> HIDE DEF n
<1>2. \E k \in Int : fh_to_uint32(w) = Num(k)
  <2>1. CASE n.is_nan \/ IsInf(n.val)
    BY <2>1 DEF fh_to_uint32, n
  <2>2. CASE ~ (n.is_nan \/ IsInf(n.val))
    <3>1. n.val[2] \in Int
      BY <1>1, <2>2, FiniteHas DEF IS_INF
    <3>2. CRem(n.val[2], two32) \in Int
      BY <1>0, <3>1, RemainderIs
    <3> QED
      BY <2>2, <3>2 DEF fh_to_uint32, n
  <2> QED
    BY <2>1, <2>2
<1>3. PICK k \in Int : fh_to_uint32(w) = Num(k)
  BY <1>2
<1>4. fh_to_uint32(w).val[2] = k
  BY <1>3, NumIs, FinIs
<1>5. \E m \in Int : fh_to_int32(w) = Num(m)
  <2>1. fh_to_int32(w) = Num(IF k >= two32 \div 2 THEN k - two32 ELSE k)
    BY <1>4 DEF fh_to_int32
  <2>2. (IF k >= two32 \div 2 THEN k - two32 ELSE k) \in Int
    BY <1>0
  <2> QED
    BY <2>1, <2>2
<1> QED
  BY <1>5, NumIs

-----------------------------------------------------------------------------
(* Operators.                                                              *)

LEMMA InValues ==
  /\ JSNumber \subseteq JSValue /\ JSString \subseteq JSValue
  /\ \A b \in BOOLEAN : JSBOOL(b) \in JSValue
BY OthersHave DEF JSValue

LEMMA ArithmeticType ==
  ASSUME NEW a \in JSValue, NEW b \in JSValue
  PROVE  /\ sub_op(a, b) \in JSNumber /\ mul_op(a, b) \in JSNumber
         /\ div_op(a, b) \in JSNumber /\ mod_op(a, b) \in JSNumber
         /\ Addable(a, b) => add_op(a, b) \in JSValue
<1> DEFINE m == fh_to_number(a)
           n == fh_to_number(b)
<1>1. m \in JSNumber /\ n \in JSNumber
  BY ToNumber
<1> HIDE DEF m, n
<1>2. JSNUM(Negative(n.val)) \in JSNumber
  BY <1>1, NumberHas, NegativeDouble, NumberIs
<1>3. sub_op(a, b) \in JSNumber
  BY <1>1, <1>2, SumNumber DEF sub_op, m, n
<1>4. mul_op(a, b) \in JSNumber /\ div_op(a, b) \in JSNumber
  BY <1>1, ProductNumber, QuotientNumber DEF mul_op, div_op, m, n
<1>5. mod_op(a, b) \in JSNumber
  <2>1. mod_op(a, b) \in {JSNAN, JSNUM(Fmod(m.val, n.val))}
    BY DEF mod_op, m, n
  <2> QED
    BY <1>1, <2>1, NanIs, NumberHas, NumberIs, RemainderDouble
<1>6. ASSUME Addable(a, b) PROVE add_op(a, b) \in JSValue
  <2>1. CASE IS_STR(a) \/ IS_STR(b)
    <3>1. fh_to_string(a).ptr \in Text /\ fh_to_string(b).ptr \in Text
      BY <1>6, <2>1, HasTextIs, StringHas DEF Addable
    <3>2. JSSTR(fh_to_string(a).ptr \o fh_to_string(b).ptr) \in JSString
      BY <3>1, TextConcat, StringIs
    <3> QED
      BY <2>1, <3>2, InValues DEF add_op
  <2>2. CASE ~ (IS_STR(a) \/ IS_STR(b))
    BY <1>1, <2>2, SumNumber, InValues DEF add_op, m, n
  <2> QED
    BY <2>1, <2>2
<1> QED
  BY <1>3, <1>4, <1>5, <1>6

LEMMA ConversionType ==
  ASSUME NEW a \in JSValue
  PROVE  /\ minus_op(a) \in JSNumber /\ not_op(a) \in JSNumber
         /\ math_abs(a) \in JSNumber /\ math_floor(a) \in JSNumber
         /\ fh_to_boolean(a) \in BOOLEAN
<1> DEFINE n == fh_to_number(a)
<1>1. n \in JSNumber
  BY ToNumber
<1> HIDE DEF n
<1>2. minus_op(a) \in JSNumber
  <2>1. minus_op(a) \in {JSNUM(NINF), JSNAN, JSNUM(Negative(n.val))}
    BY DEF minus_op, n
  <2> QED
    BY <1>1, <2>1, NumberHas, NegativeDouble, NumberIs, Specials, NanIs
<1>3. not_op(a) \in JSNumber
  <2>1. n \in JSValue
    BY <1>1, InValues
  <2>2. PICK k \in Int : fh_to_int32(n) = Num(k)
    BY <2>1, ToWord
  <2>3. not_op(a) = Num(-1 - k) /\ -1 - k \in Int
    BY <2>2, NumIs, FinIs DEF not_op, n
  <2> QED
    BY <2>3, NumIs
<1>4. math_abs(a) \in JSNumber
  <2>1. CASE n.is_nan \/ IS_INF(n)
    BY <2>1, NumberIs, Specials, NanIs DEF math_abs, n
  <2>2. CASE ~ (n.is_nan \/ IS_INF(n))
    <3>1. n.val[2] \in Int
      BY <1>1, <2>2, FiniteHas
    <3>2. Sign(n.val[2]) * n.val[2] \in Int
      BY <3>1, SignIs
    <3> QED
      BY <2>2, <3>2, NumIs DEF math_abs, n
  <2> QED
    BY <2>1, <2>2
<1>5. math_floor(a) \in JSNumber
  BY <1>1, NumberHas, NumberIs DEF math_floor, n
<1>6. fh_to_boolean(a) \in BOOLEAN
  <2>1. CASE a.type = "string"
    BY <2>1 DEF fh_to_boolean, IS_STR, IS_NUM
  <2>2. CASE a.type = "number"
    BY <2>2, ValueCases, NumberHas DEF fh_to_boolean, IS_STR, IS_NUM
  <2>3. CASE a.type = "boolean"
    BY <2>3, ValueCases DEF fh_to_boolean, IS_STR, IS_NUM
  <2>4. CASE a.type \in {"undefined", "null"}
    BY <2>4 DEF fh_to_boolean
  <2> QED
    BY <2>1, <2>2, <2>3, <2>4, ValueCases
<1> QED
  BY <1>2, <1>3, <1>4, <1>5, <1>6

(* The greatest and the least of some numbers. *)
MaxStep(max, x, i) ==
  IF i = 1 \/ IS_INF(x[i]) \/ Less(max[i - 1].val, x[i].val) THEN x[i] ELSE max[i - 1]
MaxFunction(x, n) == CHOOSE max : max = [i \in 1 .. n |-> MaxStep(max, x, i)]

MinStep(min, x, i) ==
  IF i = 1 \/ Less(x[i].val, min[i - 1].val) THEN x[i] ELSE min[i - 1]
MinFunction(x, n) == CHOOSE min : min = [i \in 1 .. n |-> MinStep(min, x, i)]

LEMMA OneOfThem ==
  ASSUME NEW n \in Nat \ {0}, NEW ns \in [1 .. n -> JSNumber]
  PROVE  MaxFunction(ns, n)[n] \in JSNumber /\ MinFunction(ns, n)[n] \in JSNumber
<1> DEFINE S == 1 .. n
           T == JSNumber
           rank == [i \in S |-> i]
           stop == {1}
           next == [i \in S |-> i - 1]
           out == [i \in S |-> ns[i]]
           max == MaxFunction(ns, n)
           min == MinFunction(ns, n)
           larger == [y \in S \X T |-> IF IS_INF(ns[y[1]]) \/ Less(y[2].val, ns[y[1]].val) THEN ns[y[1]] ELSE y[2]]
           smaller == [y \in S \X T |-> IF Less(ns[y[1]].val, y[2].val) THEN ns[y[1]] ELSE y[2]]
<1>1. (\A i \in S : ns[i] \in T) /\ T # {}
  BY NanIs
<1>2. Descends(S, rank, stop, next)
  BY <1>1 DEF Descends
<1>3. \A i \in S : i \in stop => out[i] \in T
  BY <1>1
<1>4. larger \in [S \X T -> T] /\ smaller \in [S \X T -> T]
  <2>1. \A y \in S \X T : ns[y[1]] \in T /\ y[2] \in T
    BY <1>1
  <2> HIDE DEF S, T
  <2> QED
    BY <2>1
<1>a. /\ \A i \in S : (i \in stop <=> i = 1) /\ next[i] = i - 1 /\ out[i] = ns[i] /\ (i # 1 => i - 1 \in S)
      /\ \A i \in S, t \in T :
           /\ larger[<<i, t>>] = IF IS_INF(ns[i]) \/ Less(t.val, ns[i].val) THEN ns[i] ELSE t
           /\ smaller[<<i, t>>] = IF Less(ns[i].val, t.val) THEN ns[i] ELSE t
  BY <1>1
<1>b. n \in S /\ T # {}
  BY <1>1
<1> HIDE DEF S, T, rank, stop, next, out, larger, smaller, max, min
<1>c. /\ MakesValues(S, T, rank, stop, next, out, larger)
      /\ MakesValues(S, T, rank, stop, next, out, smaller)
  BY <1>2, <1>3, <1>4, <1>b DEF MakesValues
<1>5. PICK f \in [S -> T] : \A i \in S : f[i] = IF i \in stop THEN out[i] ELSE larger[<<i, f[next[i]]>>]
  BY <1>c, Descent
<1>6. f = [i \in S |-> MaxStep(f, ns, i)]
  <2>1. ASSUME NEW i \in S PROVE f[i] = MaxStep(f, ns, i)
    <3>1. i # 1 => f[i - 1] \in T /\ f[i] = larger[<<i, f[i - 1]>>]
      BY <1>5, <1>a
    <3> QED
      BY <1>5, <1>a, <3>1 DEF MaxStep
  <2> QED
    BY <2>1
<1>7. max = [i \in S |-> MaxStep(max, ns, i)]
  BY <1>6 DEF MaxFunction, S, max
<1>8. PICK g \in [S -> T] : \A i \in S : g[i] = IF i \in stop THEN out[i] ELSE smaller[<<i, g[next[i]]>>]
  BY <1>c, Descent
<1>9. g = [i \in S |-> MinStep(g, ns, i)]
  <2>1. ASSUME NEW i \in S PROVE g[i] = MinStep(g, ns, i)
    <3>1. i # 1 => g[i - 1] \in T /\ g[i] = smaller[<<i, g[i - 1]>>]
      BY <1>8, <1>a
    <3> QED
      BY <1>8, <1>a, <3>1 DEF MinStep
  <2> QED
    BY <2>1
<1>10. min = [i \in S |-> MinStep(min, ns, i)]
  BY <1>9 DEF MinFunction, S, min
<1>11. \A i \in S : max[i] \in T
  <2>1. ASSUME NEW i \in S, i \in stop \/ max[next[i]] \in T PROVE max[i] \in T
    BY <1>1, <1>7, <1>a, <2>1 DEF MaxStep
  <2> QED
    BY <1>2, <2>1, DescentType
<1>12. \A i \in S : min[i] \in T
  <2>1. ASSUME NEW i \in S, i \in stop \/ min[next[i]] \in T PROVE min[i] \in T
    BY <1>1, <1>10, <1>a, <2>1 DEF MinStep
  <2> QED
    BY <1>2, <2>1, DescentType
<1> QED
  BY <1>11, <1>12, <1>b DEF max, min, T

LEMMA GreatestType ==
  ASSUME NEW args \in Seq(JSValue), Len(args) \in Nat
  PROVE  math_max(args) \in JSNumber /\ math_min(args) \in JSNumber
<1> DEFINE x == [i \in DOMAIN args |-> fh_to_number(args[i])]
<1>1. DOMAIN args = 1 .. Len(args) /\ \A i \in 1 .. Len(args) : args[i] \in JSValue
  BY LenProperties, ElementOfSeq
<1>2. x \in [1 .. Len(args) -> JSNumber]
  BY <1>1, ToNumber
<1>3. x \in Seq(JSNumber) /\ Len(x) = Len(args) /\ DOMAIN x = 1 .. Len(args)
  <2> DEFINE n == Len(args)
  <2> HIDE DEF x, n
  <2>1. x \in [1 .. n -> JSNumber] /\ n \in Nat
    BY <1>2 DEF n
  <2>2. x \in Seq(JSNumber) /\ Len(x) = n /\ DOMAIN x = 1 .. n
    BY <2>1, FunctionIsSeq
  <2> QED
    BY <2>2 DEF n
<1>4. args # <<>> => Len(x) \in Nat \ {0}
  BY <1>3, EmptySeq
<1>5. Len(x) = 2 => x[1] \in JSNumber /\ x[2] \in JSNumber
  <2> HIDE DEF x
  <2>1. Len(x) = 2 => 1 \in 1 .. Len(args) /\ 2 \in 1 .. Len(args)
    BY <1>3
  <2> QED
    BY <1>2, <2>1
<1>6. JSNUM(INF) \in JSNumber /\ JSNUM(NINF) \in JSNumber /\ JSNAN \in JSNumber
  BY NumberIs, Specials, NanIs
<1>7. math_max(args) \in {JSNUM(NINF), JSNAN} \cup (IF Len(x) = 2 THEN {x[1], x[2]} ELSE {})
        \cup (IF args # <<>> THEN {MaxFunction(x, Len(x))[Len(x)]} ELSE {})
  BY DEF math_max, MaxFunction, MaxStep
<1>8. math_min(args) \in {JSNUM(INF), JSNAN} \cup (IF Len(x) = 2 THEN {x[1], x[2]} ELSE {})
        \cup (IF args # <<>> THEN {MinFunction(x, Len(x))[Len(x)]} ELSE {})
  BY DEF math_min, MinFunction, MinStep
<1> HIDE DEF x
<1>9. args # <<>> => MaxFunction(x, Len(x))[Len(x)] \in JSNumber /\ MinFunction(x, Len(x))[Len(x)] \in JSNumber
  BY <1>2, <1>3, <1>4, OneOfThem
<1> QED
  BY <1>5, <1>6, <1>7, <1>8, <1>9

-----------------------------------------------------------------------------
(* Pieces of strings.                                                       *)

LEMMA SliceOfText ==
  ASSUME NEW s \in Text, NEW a \in Int, NEW b \in Int, 0 <= a, b <= Len(s)
  PROVE  /\ Slice(s, a, b) \in Text
         /\ Len(Slice(s, a, b)) = IF a <= b THEN b - a ELSE 0
<1>1. Len(s) \in Nat /\ a + 1 \in Int /\ 1 <= a + 1
  BY TextHas
<1>2. /\ SubSeq(s, a + 1, b) \in Text
      /\ Len(SubSeq(s, a + 1, b)) = IF a + 1 <= b THEN b - (a + 1) + 1 ELSE 0
  BY <1>1, PartOfText
<1> QED
  BY <1>2 DEF Slice

LEMMA SliceString ==
  ASSUME NEW s \in Text, NEW a \in Int, NEW b \in Int
  PROVE  fh_str_slice(s, a, b) \in MadeString \cup {NoText}
<1>1. CASE 0 <= a /\ a <= b /\ b <= Len(s)
  <2>1. SubSeq(s, a + 1, b) \in Text
    BY <1>1, SliceOfText DEF Slice
  <2> QED
    BY <1>1, <2>1, MadeIs DEF fh_str_slice
<1>2. CASE ~ (0 <= a /\ a <= b /\ b <= Len(s))
  <2>1. Len(s) \in Nat
    BY TextHas
  <2>2. a < 0 \/ a > b \/ b > Len(s)
    BY <1>2, <2>1
  <2> QED
    BY <2>2 DEF fh_str_slice
<1> QED
  BY <1>1, <1>2

LEMMA CharacterAt ==
  ASSUME NEW s \in Text, NEW i \in Int, 0 <= i, i < Len(s)
  PROVE  At(s, i) \in Character
<1>1. i + 1 \in 1 .. Len(s)
  BY TextHas
<1> QED
  BY <1>1, TextHas DEF At

LEMMA CutType ==
  ASSUME NEW w \in JSString, NEW i \in Int, NEW j \in Int
  PROVE  /\ char_at(w, i) \in MadeString
         /\ slice(w, i, j) \in MadeString \cup {NoText}
         /\ substr(w, i, j) \in MadeString \cup {NoText}
         /\ substring(w, i, j) \in MadeString \cup {NoText}
<1>1. w.ptr \in Text /\ w.length \in Nat /\ Len(w.ptr) \in Nat /\ JSSTR(<<>>) \in MadeString
  BY StringHas, TextHas, MadeIs, EmptyText
<1>2. \A m, n \in Int : MinOf(m, n) \in Int /\ MaxOf(m, n) \in Int
  BY DEF MinOf, MaxOf
<1>a. \A m, n \in Int : MaxOf(m + n, 0) \in Int /\ m + n \in Int
  BY DEF MaxOf
<1>b. Len(w.ptr) \in Int /\ w.length \in Int /\ 0 \in Int
  BY <1>1
<1>3. char_at(w, i) \in MadeString
  <2>1. CASE i < 0 \/ i >= w.length \/ i >= Len(w.ptr)
    BY <1>1, <2>1 DEF char_at
  <2>2. CASE ~ (i < 0 \/ i >= w.length \/ i >= Len(w.ptr))
    <3>1. At(w.ptr, i) \in Character
      BY <1>1, <2>2, CharacterAt
    <3> QED
      BY <2>2, <3>1, OneCharacter, MadeIs DEF char_at
  <2> QED
    BY <2>1, <2>2
<1>4. slice(w, i, j) \in MadeString \cup {NoText}
  <2> DEFINE len == Len(w.ptr)
             a == IF i < 0 THEN MaxOf(len + i, 0) ELSE i
             b == MinOf(IF j < 0 THEN MaxOf(len + j, 0) ELSE j, len)
  <2>1. a \in Int /\ b \in Int
    <3> HIDE DEF len
    <3>1. len \in Int
      BY <1>b DEF len
    <3>2. MaxOf(len + i, 0) \in Int /\ MaxOf(len + j, 0) \in Int
      BY <1>a, <3>1
    <3> QED
      BY <1>2, <3>1, <3>2, Zenon
  <2>2. slice(w, i, j) = IF a = b THEN JSSTR(<<>>) ELSE fh_str_slice(w.ptr, a, b)
    BY DEF slice
  <2> HIDE DEF a, b
  <2> QED
    BY <1>1, <2>1, <2>2, SliceString
<1>5. substr(w, i, j) \in MadeString \cup {NoText}
  <2> DEFINE a == IF i < 0 THEN MaxOf(i + w.length, 0) ELSE i
             b == MinOf(w.length, a + j)
  <2>1. a \in Int /\ b \in Int
    <3>1. a \in Int
      BY <1>a, <1>b, Zenon
    <3> HIDE DEF a
    <3>2. a + j \in Int
      BY <1>a, <3>1
    <3> QED
      BY <1>2, <1>b, <3>1, <3>2, Zenon
  <2>2. substr(w, i, j) \in {JSSTR(<<>>), fh_str_slice(w.ptr, a, b)}
    BY DEF substr
  <2> HIDE DEF a, b
  <2> QED
    BY <1>1, <2>1, <2>2, SliceString
<1>6. substring(w, i, j) \in MadeString \cup {NoText}
  <2> DEFINE a == MinOf(MaxOf(i, 0), w.length)
             b == MinOf(MaxOf(j, 0), w.length)
  <2>1. a \in Int /\ b \in Int
    BY <1>2, <1>b, Zenon
  <2>2. substring(w, i, j) = fh_str_slice(w.ptr, MinOf(a, b), MaxOf(a, b))
    BY DEF substring
  <2> HIDE DEF a, b
  <2> QED
    BY <1>1, <1>2, <2>1, <2>2, SliceString
<1> QED
  BY <1>3, <1>4, <1>5, <1>6

LEMMA WithLength ==
  ASSUME NEW s \in Text, NEW n \in Nat
  PROVE  [JSSTR(s) EXCEPT !.shown = n] \in JSString /\ [JSSTR(s) EXCEPT !.shown = n].ptr = s
BY StringIs DEF JSString, JSSTR

LEMMA ReverseIs ==
  ASSUME NEW s \in Text
  PROVE  Reverse(s) \in Text
<1>1. Len(s) \in Nat /\ \A i \in 1 .. Len(s) : (Len(s) - i) + 1 \in 1 .. Len(s)
  BY TextHas
<1>2. Reverse(s) \in [1 .. Len(s) -> Character]
  BY <1>1, TextHas DEF Reverse
<1> DEFINE n == Len(s)
           r == Reverse(s)
<1>3. n \in Nat /\ r \in [1 .. n -> Character]
  BY <1>1, <1>2
<1> HIDE DEF n, r
<1>4. r \in Seq(Character)
  BY <1>3, FunctionIsSeq
<1> QED
  BY <1>4 DEF r, Text

LEMMA TrimType ==
  ASSUME NEW w \in JSString
  PROVE  trim_left(w) \in JSString /\ trim_right(w) \in JSString /\ trim(w) \in JSString
<1>1. \A x \in JSString : trim_left(x) \in JSString /\ trim_right(x) \in JSString
  <2> SUFFICES ASSUME NEW x \in JSString PROVE trim_left(x) \in JSString /\ trim_right(x) \in JSString
    OBVIOUS
  <2>1. x.ptr \in Text /\ Len(x.ptr) \in Nat
    BY StringHas, TextHas
  <2>2. SkipSpaces(x.ptr) \in Text /\ Reverse(SkipSpaces(Reverse(x.ptr))) \in Text
    BY <2>1, SkipIs, ReverseIs
  <2> QED
    BY <2>1, <2>2, WithLength DEF trim_left, trim_right
<1> QED
  BY <1>1 DEF trim

LEMMA ConcatType ==
  ASSUME NEW w \in JSString, NEW t \in Text, NEW u \in Text
  PROVE  concat(w, <<t, u>>) \in JSString
<1> DEFINE seqs == <<t, u>>
           S == 1 .. 2
           f == CHOOSE g : g = [i \in S |-> IF i = 1 THEN seqs[i] ELSE g[i - 1] \o seqs[i]]
           h == [i \in S |-> IF i = 1 THEN t ELSE t \o u]
<1>1. h = [i \in S |-> IF i = 1 THEN seqs[i] ELSE h[i - 1] \o seqs[i]]
  <2>1. h[1] = t /\ seqs[1] = t /\ seqs[2] = u
    OBVIOUS
  <2>2. ASSUME NEW i \in S PROVE h[i] = IF i = 1 THEN seqs[i] ELSE h[i - 1] \o seqs[i]
    BY <2>1
  <2> QED
    BY <2>2
<1>2. f = [i \in S |-> IF i = 1 THEN seqs[i] ELSE f[i - 1] \o seqs[i]]
  <2> HIDE DEF h, seqs, S
  <2> QED
    BY <1>1
<1> HIDE DEF f
<1>3. f[1] = t /\ f[2] = t \o u
  <2>1. 1 \in S /\ 2 \in S /\ 2 - 1 = 1 /\ 2 # 1 /\ seqs[1] = t /\ seqs[2] = u
    OBVIOUS
  <2> HIDE DEF S, seqs
  <2>2. f[1] = seqs[1]
    BY <1>2, <2>1
  <2>3. f[2] = f[2 - 1] \o seqs[2]
    BY <1>2, <2>1
  <2> QED
    BY <2>1, <2>2, <2>3
<1>4. FlattenSeq(seqs) = f[2]
  <2>1. Len(seqs) = 2
    OBVIOUS
  <2> QED
    BY <2>1 DEF FlattenSeq, f
<1>5. w.ptr \o (t \o u) \in Text /\ Len(w.ptr) \in Nat
  BY StringHas, TextConcat, TextHas
<1> QED
  BY <1>3, <1>4, <1>5, WithLength DEF concat

-----------------------------------------------------------------------------
(* Regular expressions.                                                    *)

(* The longest of the words at a place. *)
LongestAt(s, words, p) ==
  CHOOSE w \in WordsAt(s, words, p) : \A u \in WordsAt(s, words, p) : Len(u) <= Len(w)

(* From i on the first place with a word is a. *)
FirstAt(s, words, i, a) ==
  /\ a \in Nat /\ i <= a /\ a <= Len(s) /\ WordsAt(s, words, a) # {}
  /\ \A p \in Nat : i <= p /\ p < a => WordsAt(s, words, p) = {}

(* The library answers nothing, or the first place from i on and where the *)
(* longest word that is there ends.                                        *)
LEMMA MatchFinds ==
  ASSUME NEW s \in Text, NEW words \in SUBSET Text, NEW i \in Nat
  PROVE  \/ /\ fh_regexp(s, words, i) = <<>>
            /\ \A p \in Nat : i <= p /\ p <= Len(s) => WordsAt(s, words, p) = {}
         \/ \E a, b \in Nat : /\ fh_regexp(s, words, i) = <<a, b>> /\ FirstAt(s, words, i, a)
                              /\ LongestAt(s, words, a) \in WordsAt(s, words, a)
                              /\ b = a + Len(LongestAt(s, words, a)) /\ a <= b /\ b <= Len(s)
<1> DEFINE len == Len(s)
           at == {p \in i .. len : WordsAt(s, words, p) # {}}
           start == CHOOSE p \in at : \A q \in at : p <= q
           here == WordsAt(s, words, start)
           word == CHOOSE w \in here : \A u \in here : Len(u) <= Len(w)
<1>1. len \in Nat
  BY TextHas
<1>2. fh_regexp(s, words, i) = IF at = {} THEN <<>> ELSE <<start, start + Len(word)>>
  BY DEF fh_regexp
<1> SUFFICES ASSUME at # {}
             PROVE  /\ start \in Nat /\ Len(word) \in Nat /\ i <= start /\ start + Len(word) <= len
                    /\ FirstAt(s, words, i, start) /\ word \in here
  <2>1. CASE at = {}
    <3>1. \A p \in Nat : i <= p /\ p <= len => p \in i .. len
      <4> HIDE DEF len
      <4> QED
        BY <1>1
    <3>2. \A p \in i .. len : WordsAt(s, words, p) = {}
      BY <2>1
    <3> QED
      BY <1>2, <2>1, <3>1, <3>2
  <2>2. CASE at # {}
    <3>1. fh_regexp(s, words, i) = <<start, start + Len(word)>>
      BY <1>2, <2>2
    <3>2. /\ start \in Nat /\ Len(word) \in Nat /\ i <= start /\ start + Len(word) <= len
          /\ FirstAt(s, words, i, start) /\ word \in here
      BY <2>2
    <3> DEFINE a == start
               b == start + Len(word)
    <3>3. word = LongestAt(s, words, a)
      BY DEF LongestAt
    <3>4. /\ a \in Nat /\ b \in Nat /\ a <= b /\ b <= len /\ FirstAt(s, words, i, a)
          /\ LongestAt(s, words, a) \in WordsAt(s, words, a) /\ b = a + Len(LongestAt(s, words, a))
      <4>1. LongestAt(s, words, a) \in WordsAt(s, words, a) /\ b = a + Len(LongestAt(s, words, a))
        BY <3>2, <3>3
      <4> HIDE DEF start, word
      <4> QED
        BY <3>2, <4>1
    <3>5. fh_regexp(s, words, i) = <<a, b>>
      BY <3>1
    <3> HIDE DEF a, b
    <3> QED
      BY <3>4, <3>5
  <2> QED
    BY <2>1, <2>2
<1>3. start \in at
  <2>1. at \in SUBSET Nat /\ at # {}
    BY <1>1
  <2> HIDE DEF at
  <2>2. \E p \in at : \A q \in at : p <= q
    BY <2>1, Least
  <2> QED
    BY <2>2
<1>8. FirstAt(s, words, i, start)
  <2>1. \A p \in at : p \in Nat /\ i <= p /\ p <= len /\ WordsAt(s, words, p) # {}
    <3> HIDE DEF len
    <3> QED
      BY <1>1
  <2>2. \A p \in at : start <= p
    <3>1. at \in SUBSET Nat /\ at # {}
      BY <1>1
    <3> HIDE DEF at
    <3>2. \E p \in at : \A q \in at : p <= q
      BY <3>1, Least
    <3> QED
      BY <3>2
  <2>3. \A p \in Nat : i <= p /\ p <= len /\ WordsAt(s, words, p) # {} => p \in at
    <3> HIDE DEF len
    <3> QED
      BY <1>1
  <2> HIDE DEF at, start
  <2>4. start \in Nat /\ i <= start /\ start <= len /\ WordsAt(s, words, start) # {}
    BY <1>3, <2>1
  <2>5. ASSUME NEW p \in Nat, i <= p, p < start PROVE WordsAt(s, words, p) = {}
    <3>1. p <= len /\ ~ (start <= p)
      <4> HIDE DEF len
      <4> QED
        BY <1>1, <2>4, <2>5
    <3> QED
      BY <2>2, <2>3, <2>5, <3>1
  <2> QED
    BY <2>4, <2>5 DEF FirstAt
<1>4. start \in Nat /\ i <= start /\ start <= len /\ here # {}
  BY <1>8 DEF FirstAt
<1> HIDE DEF at, start
<1>5. \A w \in here : Len(w) \in Nat /\ Len(w) <= len - start
  <2> SUFFICES ASSUME NEW w \in here PROVE Len(w) \in Nat /\ Len(w) <= len - start
    OBVIOUS
  <2>1. w \in Text /\ IsPrefix(w, Slice(s, start, len))
    BY DEF WordsAt
  <2>2. Len(Slice(s, start, len)) = len - start
    BY <1>1, <1>4, SliceOfText
  <2> QED
    BY <2>1, <2>2, TextHas DEF IsPrefix
<1>6. word \in here
  <2> DEFINE lengths == {Len(w) : w \in here}
             n == len - start
  <2>1. n \in Nat /\ lengths \in SUBSET (0 .. n) /\ lengths # {}
    <3>1. n \in Nat
      BY <1>1, <1>4
    <3>2. \A w \in here : Len(w) \in 0 .. n
      BY <1>1, <1>4, <1>5
    <3> HIDE DEF n, here
    <3> QED
      BY <1>4, <3>1, <3>2
  <2>2. PICK m \in lengths : \A k \in lengths : k <= m
    <3> HIDE DEF lengths, n
    <3> QED
      BY <2>1, Greatest
  <2>3. PICK w \in here : Len(w) = m
    BY <2>2
  <2>4. \A u \in here : Len(u) <= Len(w)
    BY <2>2, <2>3
  <2> HIDE DEF here, lengths, n
  <2> QED
    BY <2>4
<1> HIDE DEF word, here
<1>7. Len(word) \in Nat /\ Len(word) <= len - start
  BY <1>5, <1>6
<1>9. start + Len(word) <= len
  <2> HIDE DEF len
  <2> QED
    BY <1>1, <1>4, <1>7
<1> QED
  BY <1>4, <1>6, <1>7, <1>8, <1>9

LEMMA MatchIs ==
  ASSUME NEW s \in Text, NEW words \in SUBSET Text, NEW i \in Nat
  PROVE  \/ fh_regexp(s, words, i) = <<>>
         \/ \E a, b \in Nat : /\ fh_regexp(s, words, i) = <<a, b>>
                              /\ i <= a /\ a <= b /\ b <= Len(s)
BY MatchFinds DEF FirstAt

RegExps == [words : Patterns, global : BOOLEAN, lastIndex : Nat]

LEMMA RegExpHas ==
  ASSUME NEW r \in RegExps
  PROVE  r.words \in SUBSET Text /\ r.global \in BOOLEAN /\ r.lastIndex \in Nat
BY PrimitivesAssumption DEF RegExps

LEMMA ExecType ==
  ASSUME NEW s \in Text, NEW r \in RegExps
  PROVE  exec(s, r).lastIndex \in Nat
<1> DEFINE i == IF r.global THEN r.lastIndex ELSE 0
           m == IF i \in 0 .. Len(s) THEN fh_regexp(s, r.words, i) ELSE <<>>
<1>1. i \in Nat
  BY RegExpHas
<1>2. m = <<>> \/ \E a, b \in Nat : m = <<a, b>>
  <2>1. r.words \in SUBSET Text
    BY RegExpHas
  <2> HIDE DEF i
  <2>2. fh_regexp(s, r.words, i) = <<>> \/ \E a, b \in Nat : fh_regexp(s, r.words, i) = <<a, b>>
    BY <1>1, <2>1, MatchIs
  <2> QED
    BY <2>2
<1>3. m = <<>> \/ m[2] \in Nat
  <2> HIDE DEF m
  <2> QED
    BY <1>2
<1>4. exec(s, r).lastIndex = IF m = <<>> THEN 0 ELSE IF r.global THEN m[2] ELSE r.lastIndex
  BY DEF exec
<1> HIDE DEF m
<1> QED
  BY <1>3, <1>4, RegExpHas

LEMMA SearchType ==
  ASSUME NEW s \in Text, NEW words \in SUBSET Text
  PROVE  search(s, words) \in Int
<1> DEFINE m == fh_regexp(s, words, 0)
<1>1. m = <<>> \/ \E a, b \in Nat : m = <<a, b>>
  BY MatchIs
<1>2. search(s, words) = IF m = <<>> THEN -1 ELSE m[1]
  BY DEF search
<1> HIDE DEF m
<1> QED
  BY <1>1, <1>2

LEMMA SpliceType ==
  ASSUME NEW s \in Text, NEW new \in Text, NEW a \in Nat, NEW b \in Nat, a <= Len(s), b <= Len(s)
  PROVE  Splice(s, new, a, b) \in Text
<1>1. Len(s) \in Nat
  BY TextHas
<1>2. Slice(s, 0, a) \in Text /\ Slice(s, b, Len(s)) \in Text
  BY <1>1, SliceOfText
<1> QED
  BY <1>2, TextConcat DEF Splice

LEMMA ReplaceTextType ==
  ASSUME NEW s \in Text, NEW old \in Text, NEW new \in Text
  PROVE  fh_str_replace(s, old, new) \in Text
<1> DEFINE m == fh_regexp(s, {old}, 0)
<1>0. {old} \in SUBSET Text
  OBVIOUS
<1>1. m = <<>> \/ \E a, b \in Nat : m = <<a, b>> /\ a <= b /\ b <= Len(s)
  BY <1>0, MatchIs
<1>2. fh_str_replace(s, old, new) = IF old = <<>> \/ m = <<>> THEN s ELSE Splice(s, new, m[1], m[2])
  BY DEF fh_str_replace
<1> HIDE DEF m
<1>3. CASE m = <<>>
  BY <1>2, <1>3
<1>4. CASE m # <<>>
  <2>1. PICK a, b \in Nat : m = <<a, b>> /\ a <= b /\ b <= Len(s)
    BY <1>1, <1>4
  <2>2. m[1] = a /\ m[2] = b /\ a <= Len(s)
    BY <2>1, TextHas
  <2> QED
    BY <1>2, <2>1, <2>2, SpliceType
<1> QED
  BY <1>3, <1>4

-----------------------------------------------------------------------------
(* Searches.                                                               *)

LEMMA ScanIs ==
  ASSUME NEW s, NEW i, NEW needle, NEW k \in Nat
  PROVE  Scan(s, i, needle, k) \in Nat
BY DEF Scan

(* What index_of finds from i on, given what it finds from i + 1 on. *)
FindRow(s, needle, i, row) ==
  [k \in Nat |->
     IF i >= Len(s) THEN -1
     ELSE LET m == Scan(s, i, needle, k)
          IN  IF m = Len(needle) THEN i - Len(needle) + 1 ELSE row[m]]
FindFunction(s, needle) == CHOOSE find : find = [i \in Nat |-> FindRow(s, needle, i, find[i + 1])]

LEMMA IndexSteps ==
  ASSUME NEW s \in Text, NEW needle \in Text, NEW from \in Nat
  PROVE  \E find \in [Nat -> [Nat -> Int]] :
           /\ \A i \in Nat : find[i] = FindRow(s, needle, i, find[i + 1])
           /\ index_of(s, needle, from)
                = IF needle = <<>> THEN IF from <= Len(s) THEN from ELSE Len(s)
                  ELSE IF Len(needle) > Len(s) THEN -1
                  ELSE find[from][0]
<1> DEFINE S == Nat
           T == [Nat -> Int]
           len == Len(s)
           rank == [i \in S |-> IF i < len THEN len - i ELSE 0]
           stop == {i \in S : i >= len}
           next == [i \in S |-> i + 1]
           out == [i \in S |-> [k \in Nat |-> -1]]
           op == [y \in S \X T |-> FindRow(s, needle, y[1], y[2])]
           find == FindFunction(s, needle)
<1>1. len \in Nat /\ Len(needle) \in Nat
  BY TextHas
<1>2. ASSUME NEW i \in S, NEW row, i >= len \/ row \in T PROVE FindRow(s, needle, i, row) \in T
  <2>1. ASSUME NEW k \in Nat
        PROVE  (IF i >= Len(s) THEN -1
                ELSE LET m == Scan(s, i, needle, k)
                     IN  IF m = Len(needle) THEN i - Len(needle) + 1 ELSE row[m]) \in Int
    <3> DEFINE m == Scan(s, i, needle, k)
    <3>1. m \in Nat
      BY ScanIs
    <3> HIDE DEF m
    <3>2. i - Len(needle) + 1 \in Int
      BY <1>1
    <3>3. ~ (i >= Len(s)) => row[m] \in Int
      BY <1>2, <3>1
    <3> QED
      BY <3>2, <3>3 DEF m
  <2> QED
    BY <2>1 DEF FindRow
<1>3. ASSUME NEW i \in S, i >= len, NEW row PROVE FindRow(s, needle, i, row) = out[i]
  <2>1. FindRow(s, needle, i, row) = [k \in Nat |-> -1]
    BY <1>3 DEF FindRow
  <2> QED
    BY <2>1
<1>4. Descends(S, rank, stop, next)
  <2> HIDE DEF len
  <2> QED
    BY <1>1 DEF Descends
<1>5. MakesValues(S, T, rank, stop, next, out, op)
  <2>1. op \in [S \X T -> T]
    <3>1. \A y \in S \X T : FindRow(s, needle, y[1], y[2]) \in T
      BY <1>2
    <3> QED
      BY <3>1
  <2>2. [k \in Nat |-> -1] \in T
    OBVIOUS
  <2>3. T # {} /\ \A i \in S : out[i] \in T
    BY <2>2
  <2> HIDE DEF T, out, op, rank, stop, next
  <2> QED
    BY <1>4, <2>1, <2>3 DEF MakesValues
<1>a. /\ \A i \in S : (i \in stop <=> i >= len) /\ next[i] = i + 1 /\ i + 1 \in S
      /\ \A i \in S, t \in T : op[<<i, t>>] = FindRow(s, needle, i, t)
  OBVIOUS
<1> HIDE DEF S, T, rank, stop, next, out, op, len, find
<1>6. PICK f \in [S -> T] : \A i \in S : f[i] = IF i \in stop THEN out[i] ELSE op[<<i, f[next[i]]>>]
  BY <1>5, Descent
<1>7. f = [i \in S |-> FindRow(s, needle, i, f[i + 1])]
  <2>1. ASSUME NEW i \in S PROVE f[i] = FindRow(s, needle, i, f[i + 1])
    <3>1. CASE i \in stop
      BY <1>3, <1>6, <1>a, <3>1
    <3>2. CASE i \notin stop
      <4>1. f[i + 1] \in T /\ f[i] = op[<<i, f[i + 1]>>]
        BY <1>6, <1>a, <3>2
      <4> QED
        BY <1>a, <4>1
    <3> QED
      BY <3>1, <3>2
  <2> QED
    BY <2>1
<1>8. find = [i \in S |-> FindRow(s, needle, i, find[i + 1])]
  BY <1>7 DEF FindFunction, S, find
<1>9. \A i \in S : find[i] \in T
  <2>1. ASSUME NEW i \in S, i \in stop \/ find[next[i]] \in T PROVE find[i] \in T
    BY <1>2, <1>8, <1>a, <2>1
  <2> QED
    BY <1>4, <2>1, DescentType
<1>10. index_of(s, needle, from)
         = IF needle = <<>> THEN IF from <= Len(s) THEN from ELSE Len(s)
           ELSE IF Len(needle) > Len(s) THEN -1
           ELSE find[from][0]
  BY DEF index_of, find, FindFunction, FindRow
<1>11. find \in [S -> T] /\ \A i \in S : find[i] = FindRow(s, needle, i, find[i + 1])
  BY <1>8, <1>9
<1> QED
  BY <1>10, <1>11 DEF S, T

LEMMA IndexType ==
  ASSUME NEW s \in Text, NEW needle \in Text, NEW from \in Nat
  PROVE  index_of(s, needle, from) \in Int
<1>1. PICK find \in [Nat -> [Nat -> Int]] :
        /\ \A i \in Nat : find[i] = FindRow(s, needle, i, find[i + 1])
        /\ index_of(s, needle, from)
             = IF needle = <<>> THEN IF from <= Len(s) THEN from ELSE Len(s)
               ELSE IF Len(needle) > Len(s) THEN -1
               ELSE find[from][0]
  BY IndexSteps
<1> DEFINE i == index_of(s, needle, from)
           k == find[from][0]
           len == Len(s)
<1>2. i = from \/ i = len \/ i = -1 \/ i = k
  BY <1>1
<1>3. k \in Int /\ len \in Int
  BY TextHas
<1> HIDE DEF i, k, len
<1>4. i \in Int
  BY <1>2, <1>3
<1> QED
  BY <1>4 DEF i

(* What last_index_of finds from i down. *)
Back(s, needle, i, k) ==
  IF k >= 0 /\ IsAt(needle, k, At(s, i)) THEN k - 1
  ELSE Len(needle) - (IF IsAt(needle, 0, At(s, i)) THEN 2 ELSE 1)
BackRow(s, needle, limit, i, row) ==
  [k \in Int |->
     IF i < 0 THEN -1
     ELSE LET m == Back(s, needle, i, k)
          IN  IF m < 0 /\ i <= limit THEN i ELSE row[m]]
BackFunction(s, needle, limit) ==
  CHOOSE find : find = [i \in Int |-> BackRow(s, needle, limit, i, find[i - 1])]

Limit(s, from) == IF from < 0 THEN 0 ELSE IF from > Len(s) THEN Len(s) - 1 ELSE from

LEMMA LastIndexSteps ==
  ASSUME NEW s \in Text, NEW needle \in Text, NEW from \in Int
  PROVE  \E find \in [Int -> [Int -> Int]] :
           /\ \A i \in Int : find[i] = BackRow(s, needle, Limit(s, from), i, find[i - 1])
           /\ last_index_of(s, needle, from)
                = IF needle = <<>> THEN Limit(s, from)
                  ELSE IF Len(needle) > Len(s) THEN -1
                  ELSE find[Len(s) - 1][Len(needle) - 1]
<1> DEFINE S == Int
           T == [Int -> Int]
           limit == Limit(s, from)
           rank == [i \in S |-> IF i < 0 THEN 0 ELSE i + 1]
           stop == {i \in S : i < 0}
           next == [i \in S |-> i - 1]
           out == [i \in S |-> [k \in Int |-> -1]]
           op == [y \in S \X T |-> BackRow(s, needle, limit, y[1], y[2])]
           find == BackFunction(s, needle, limit)
<1>1. Len(s) \in Int /\ Len(needle) \in Int /\ limit \in Int
  BY TextHas DEF Limit
<1> HIDE DEF limit
<1>2. ASSUME NEW i \in S, NEW row, i < 0 \/ row \in T PROVE BackRow(s, needle, limit, i, row) \in T
  <2>1. ASSUME NEW k \in Int
        PROVE  (IF i < 0 THEN -1
                ELSE LET m == Back(s, needle, i, k)
                     IN  IF m < 0 /\ i <= limit THEN i ELSE row[m]) \in Int
    <3> DEFINE m == Back(s, needle, i, k)
    <3>1. m \in Int
      BY <1>1 DEF Back
    <3> HIDE DEF m
    <3>2. ~ (i < 0) => row[m] \in Int
      BY <1>2, <3>1
    <3> QED
      BY <3>2 DEF m
  <2> QED
    BY <2>1 DEF BackRow
<1>3. ASSUME NEW i \in S, i < 0, NEW row PROVE BackRow(s, needle, limit, i, row) = out[i]
  <2>1. BackRow(s, needle, limit, i, row) = [k \in Int |-> -1]
    BY <1>3 DEF BackRow
  <2> QED
    BY <2>1
<1>4. Descends(S, rank, stop, next)
  BY DEF Descends
<1>5. MakesValues(S, T, rank, stop, next, out, op)
  <2>1. op \in [S \X T -> T]
    <3>1. \A y \in S \X T : BackRow(s, needle, limit, y[1], y[2]) \in T
      BY <1>2
    <3> QED
      BY <3>1
  <2>2. [k \in Int |-> -1] \in T
    OBVIOUS
  <2>3. T # {} /\ \A i \in S : out[i] \in T
    BY <2>2
  <2> HIDE DEF T, out, op, rank, stop, next
  <2> QED
    BY <1>4, <2>1, <2>3 DEF MakesValues
<1>a. /\ \A i \in S : (i \in stop <=> i < 0) /\ next[i] = i - 1 /\ i - 1 \in S
      /\ \A i \in S, t \in T : op[<<i, t>>] = BackRow(s, needle, limit, i, t)
  OBVIOUS
<1> HIDE DEF S, T, rank, stop, next, out, op, find
<1>6. PICK f \in [S -> T] : \A i \in S : f[i] = IF i \in stop THEN out[i] ELSE op[<<i, f[next[i]]>>]
  BY <1>5, Descent
<1>7. f = [i \in S |-> BackRow(s, needle, limit, i, f[i - 1])]
  <2>1. ASSUME NEW i \in S PROVE f[i] = BackRow(s, needle, limit, i, f[i - 1])
    <3>1. CASE i \in stop
      BY <1>3, <1>6, <1>a, <3>1
    <3>2. CASE i \notin stop
      <4>1. f[i - 1] \in T /\ f[i] = op[<<i, f[i - 1]>>]
        BY <1>6, <1>a, <3>2
      <4> QED
        BY <1>a, <4>1
    <3> QED
      BY <3>1, <3>2
  <2> QED
    BY <2>1
<1>8. find = [i \in S |-> BackRow(s, needle, limit, i, find[i - 1])]
  BY <1>7 DEF BackFunction, S, find
<1>9. \A i \in S : find[i] \in T
  <2>1. ASSUME NEW i \in S, i \in stop \/ find[next[i]] \in T PROVE find[i] \in T
    BY <1>2, <1>8, <1>a, <2>1
  <2> QED
    BY <1>4, <2>1, DescentType
<1>10. last_index_of(s, needle, from)
         = IF needle = <<>> THEN limit
           ELSE IF Len(needle) > Len(s) THEN -1
           ELSE find[Len(s) - 1][Len(needle) - 1]
  BY DEF last_index_of, find, BackFunction, BackRow, Back, limit, Limit
<1>11. find \in [S -> T] /\ \A i \in S : find[i] = BackRow(s, needle, limit, i, find[i - 1])
  BY <1>8, <1>9
<1> QED
  BY <1>10, <1>11 DEF S, T, limit

LEMMA LastIndexType ==
  ASSUME NEW s \in Text, NEW needle \in Text, NEW from \in Int
  PROVE  last_index_of(s, needle, from) \in Int
<1> DEFINE a == Len(s) - 1
           b == Len(needle) - 1
           limit == Limit(s, from)
<1>1. PICK find \in [Int -> [Int -> Int]] :
        /\ \A i \in Int : find[i] = BackRow(s, needle, limit, i, find[i - 1])
        /\ last_index_of(s, needle, from)
             = IF needle = <<>> THEN limit
               ELSE IF Len(needle) > Len(s) THEN -1
               ELSE find[a][b]
  BY LastIndexSteps
<1>2. Len(s) \in Int /\ Len(needle) \in Int
  BY TextHas
<1>3. a \in Int /\ b \in Int /\ limit \in Int
  BY <1>2 DEF Limit
<1> HIDE DEF a, b, limit
<1> DEFINE i == last_index_of(s, needle, from)
           k == find[a][b]
<1>4. i = limit \/ i = -1 \/ i = k
  BY <1>1
<1>5. k \in Int
  BY <1>3
<1> HIDE DEF i, k
<1>6. i \in Int
  BY <1>3, <1>4, <1>5
<1> QED
  BY <1>6 DEF i

-----------------------------------------------------------------------------
(* Loops over a string.                                                    *)

(* What split makes of the string from position i on. *)
CutRow(w, sep, i, row) ==
  [x \in Nat \X Nat \X Nat |->
     LET k == x[1]
         start == x[2]
         left  == x[3]
         m     == Scan(w.ptr, i, sep, k)
     IN  IF left = 0 THEN <<>>
         ELSE IF i >= Len(w.ptr) THEN
           IF start # w.length THEN <<fh_str_slice(w.ptr, start, w.length)>>
           ELSE IF start = i /\ w.ptr # <<>> /\ sep # <<>> THEN <<JSSTR(<<>>)>> ELSE <<>>
         ELSE IF m = Len(sep)
         THEN <<fh_str_slice(w.ptr, start, i - Len(sep) + 1)>> \o row[<<0, i + 1, left - 1>>]
         ELSE row[<<m, start, left>>]]
CutFunction(w, sep) == CHOOSE cut : cut = [i \in Nat |-> CutRow(w, sep, i, cut[i + 1])]

SplitParts == Seq(MadeString \cup {NoText})

LEMMA SplitSteps ==
  ASSUME NEW w \in JSString, NEW sep \in Text, NEW limit \in Nat
  PROVE  \E cut \in [Nat -> [Nat \X Nat \X Nat -> SplitParts]] :
           /\ \A i \in Nat : cut[i] = CutRow(w, sep, i, cut[i + 1])
           /\ split(w, sep, limit) = cut[0][<<0, 0, limit>>]
<1> DEFINE S == Nat
           Args == Nat \X Nat \X Nat
           Part == MadeString \cup {NoText}
           Pieces == Seq(Part)
           T == [Args -> Pieces]
           len == Len(w.ptr)
           rank == [i \in S |-> IF i < len THEN len - i ELSE 0]
           stop == {i \in S : i >= len}
           next == [i \in S |-> i + 1]
           out == [i \in S |-> CutRow(w, sep, i, next)]
           op == [y \in S \X T |-> CutRow(w, sep, y[1], y[2])]
           cut == CutFunction(w, sep)
<1>0. w.ptr \in Text /\ w.length \in Nat
  BY StringHas
<1>1. len \in Nat /\ Len(sep) \in Nat
  BY <1>0, TextHas
<1>2. <<>> \in Pieces /\ \A p \in Part : <<p>> \in Pieces
  OBVIOUS
<1>3. \A p \in Part, ps \in Pieces : <<p>> \o ps \in Pieces
  <2> HIDE DEF Part
  <2> QED
    BY <1>2, ConcatProperties
<1>4. JSSTR(<<>>) \in Part /\ \A a, b \in Int : fh_str_slice(w.ptr, a, b) \in Part
  BY <1>0, SliceString, MadeIs, EmptyText
<1>a. /\ \A i \in S : (i \in stop <=> i >= len) /\ next[i] = i + 1 /\ i + 1 \in S /\ out[i] = CutRow(w, sep, i, next)
      /\ \A i \in S, t \in T : op[<<i, t>>] = CutRow(w, sep, i, t)
  OBVIOUS
<1>b. Descends(S, rank, stop, next)
  <2> HIDE DEF len
  <2> QED
    BY <1>1 DEF Descends
<1>c. /\ op = [y \in S \X T |-> CutRow(w, sep, y[1], y[2])]
      /\ T # {}
  <2>1. [x \in Args |-> <<>>] \in T
    BY <1>2
  <2> QED
    BY <2>1
<1> HIDE DEF Part, Pieces, rank, stop, next, out, op, cut
<1>5. ASSUME NEW i \in S, NEW row, i >= len \/ row \in T PROVE CutRow(w, sep, i, row) \in T
  <2>1. ASSUME NEW x \in Args
        PROVE  LET k == x[1]
                   start == x[2]
                   left  == x[3]
                   m     == Scan(w.ptr, i, sep, k)
               IN  (IF left = 0 THEN <<>>
                    ELSE IF i >= Len(w.ptr) THEN
                      IF start # w.length THEN <<fh_str_slice(w.ptr, start, w.length)>>
                      ELSE IF start = i /\ w.ptr # <<>> /\ sep # <<>> THEN <<JSSTR(<<>>)>> ELSE <<>>
                    ELSE IF m = Len(sep)
                    THEN <<fh_str_slice(w.ptr, start, i - Len(sep) + 1)>> \o row[<<0, i + 1, left - 1>>]
                    ELSE row[<<m, start, left>>]) \in Pieces
    <3> DEFINE k == x[1]
               start == x[2]
               left  == x[3]
               m     == Scan(w.ptr, i, sep, k)
    <3>1. k \in Nat /\ start \in Nat /\ left \in Nat
      OBVIOUS
    <3>2. m \in Nat
      BY <3>1, ScanIs
    <3> SUFFICES (IF left = 0 THEN <<>>
                  ELSE IF i >= Len(w.ptr) THEN
                    IF start # w.length THEN <<fh_str_slice(w.ptr, start, w.length)>>
                    ELSE IF start = i /\ w.ptr # <<>> /\ sep # <<>> THEN <<JSSTR(<<>>)>> ELSE <<>>
                  ELSE IF m = Len(sep)
                  THEN <<fh_str_slice(w.ptr, start, i - Len(sep) + 1)>> \o row[<<0, i + 1, left - 1>>]
                  ELSE row[<<m, start, left>>]) \in Pieces
      OBVIOUS
    <3> HIDE DEF k, start, left, m
    <3>3. fh_str_slice(w.ptr, start, w.length) \in Part
      BY <1>0, <1>4, <3>1
    <3>4. fh_str_slice(w.ptr, start, i - Len(sep) + 1) \in Part
      <4>1. i - Len(sep) + 1 \in Int /\ start \in Int
        BY <1>1, <3>1
      <4> QED
        BY <1>4, <4>1
    <3>5. ~ (i >= Len(w.ptr)) /\ left # 0 =>
             row[<<0, i + 1, left - 1>>] \in Pieces /\ row[<<m, start, left>>] \in Pieces
      <4>1. left # 0 => left - 1 \in Nat
        BY <3>1
      <4>2. left # 0 => <<0, i + 1, left - 1>> \in Args
        BY <4>1
      <4>3. <<m, start, left>> \in Args
        BY <3>1, <3>2
      <4> HIDE DEF Args
      <4> QED
        BY <1>5, <4>2, <4>3
    <3> HIDE DEF len, S, T, Args
    <3> QED
      BY <1>2, <1>3, <1>4, <3>3, <3>4, <3>5
  <2> QED
    BY <2>1 DEF CutRow
<1>6. ASSUME NEW i \in S, i >= len, NEW row PROVE CutRow(w, sep, i, row) = out[i]
  <2>1. CutRow(w, sep, i, row) = CutRow(w, sep, i, next)
    BY <1>6 DEF CutRow
  <2> QED
    BY <1>a, <2>1
<1>7. MakesValues(S, T, rank, stop, next, out, op)
  <2>1. \A y \in S \X T : CutRow(w, sep, y[1], y[2]) \in T
    BY <1>5
  <2> HIDE DEF S, T
  <2>2. op \in [S \X T -> T]
    BY <1>c, <2>1
  <2>3. \A i \in S : i \in stop => out[i] \in T
    BY <1>5, <1>a
  <2> QED
    BY <1>b, <1>c, <2>2, <2>3 DEF MakesValues
<1> HIDE DEF S, T, len
<1>8. PICK f \in [S -> T] : \A i \in S : f[i] = IF i \in stop THEN out[i] ELSE op[<<i, f[next[i]]>>]
  BY <1>7, Descent
<1>9. f = [i \in S |-> CutRow(w, sep, i, f[i + 1])]
  <2>1. ASSUME NEW i \in S PROVE f[i] = CutRow(w, sep, i, f[i + 1])
    <3>1. CASE i \in stop
      BY <1>6, <1>8, <1>a, <3>1
    <3>2. CASE i \notin stop
      <4>1. f[i + 1] \in T /\ f[i] = op[<<i, f[i + 1]>>]
        BY <1>8, <1>a, <3>2
      <4> QED
        BY <1>a, <4>1
    <3> QED
      BY <3>1, <3>2
  <2> QED
    BY <2>1
<1>10. cut = [i \in S |-> CutRow(w, sep, i, cut[i + 1])]
  BY <1>9 DEF CutFunction, S, cut
<1>11. \A i \in S : cut[i] \in T
  <2>1. ASSUME NEW i \in S, i \in stop \/ cut[next[i]] \in T PROVE cut[i] \in T
    BY <1>5, <1>10, <1>a, <2>1
  <2> QED
    BY <1>b, <2>1, DescentType
<1>12. split(w, sep, limit) = cut[0][<<0, 0, limit>>]
  BY DEF split, cut, CutFunction, CutRow
<1>13. cut \in [S -> T] /\ \A i \in S : cut[i] = CutRow(w, sep, i, cut[i + 1])
  <2> HIDE DEF Args
  <2> QED
    BY <1>10, <1>11
<1> QED
  BY <1>12, <1>13 DEF S, T, Pieces, Part, SplitParts

LEMMA SplitType ==
  ASSUME NEW w \in JSString, NEW sep \in Text, NEW limit \in Nat
  PROVE  split(w, sep, limit) \in SplitParts
<1> DEFINE Args == Nat \X Nat \X Nat
<1>1. <<0, 0, limit>> \in Args
  OBVIOUS
<1> HIDE DEF Args
<1>2. PICK cut \in [Nat -> [Args -> SplitParts]] : split(w, sep, limit) = cut[0][<<0, 0, limit>>]
  BY SplitSteps DEF Args
<1> QED
  BY <1>1, <1>2

(* What replace does in n rounds. *)
PutRow(r, repl, n, row) ==
  [x \in Text \X Nat \X Nat |->
     LET t == x[1]
         i == x[2]
         last == x[3]
         m == fh_regexp(t, r.words, i)
         new == Splice(t, repl, m[1], m[2])
     IN  IF n = 0 THEN [ptr |-> t, lastIndex |-> last, ends |-> FALSE]
         ELSE IF i >= Len(t) \/ m = <<>> THEN [ptr |-> t, lastIndex |-> last, ends |-> TRUE]
         ELSE IF r.global THEN row[<<new, m[1] + Len(repl), m[2]>>]
         ELSE [ptr |-> new, lastIndex |-> m[2], ends |-> TRUE]]
PutRows(r, repl, put) == \A n \in Nat : put[n] = PutRow(r, repl, n, put[n - 1])
PutFunction(r, repl) == CHOOSE put : put = [n \in Nat |-> PutRow(r, repl, n, put[n - 1])]

Replaced == [ptr : Text, lastIndex : Nat, ends : BOOLEAN]

LEMMA ReplacedIs ==
  ASSUME NEW t \in Text, NEW last \in Nat, NEW e \in BOOLEAN
  PROVE  [ptr |-> t, lastIndex |-> last, ends |-> e] \in Replaced
BY DEF Replaced

LEMMA ReplaceSteps ==
  ASSUME NEW s \in Text, NEW r, r.words \in SUBSET Text, NEW repl \in Text
  PROVE  \E put \in [Nat -> [Text \X Nat \X Nat -> Replaced]] :
           /\ PutRows(r, repl, put)
           /\ replace(s, r, repl) = put[Rounds(s)][<<s, 0, 0>>]
<1> DEFINE S == Nat
           Args == Text \X Nat \X Nat
           T == [Args -> Replaced]
           rank == [n \in S |-> n]
           stop == {0}
           next == [n \in S |-> n - 1]
           out == [n \in S |-> PutRow(r, repl, n, next)]
           op == [y \in S \X T |-> PutRow(r, repl, y[1], y[2])]
           put == PutFunction(r, repl)
<1>0. r.words \in SUBSET Text /\ Len(repl) \in Nat
  BY TextHas
<1>a. /\ \A n \in S : (n \in stop <=> n = 0) /\ next[n] = n - 1 /\ out[n] = PutRow(r, repl, n, next)
      /\ \A n \in S, t \in T : op[<<n, t>>] = PutRow(r, repl, n, t)
  OBVIOUS
<1>b. Descends(S, rank, stop, next)
  BY DEF Descends
<1>c. op = [y \in S \X T |-> PutRow(r, repl, y[1], y[2])] /\ T # {}
  <2>1. [x \in Args |-> [ptr |-> <<>>, lastIndex |-> 0, ends |-> TRUE]] \in T
    BY EmptyText, ReplacedIs
  <2> QED
    BY <2>1
<1>d. \A n \in S : n # 0 => n - 1 \in S
  OBVIOUS
<1>e. 0 \in S
  OBVIOUS
<1> HIDE DEF rank, stop, next, out, op, put
<1>5. ASSUME NEW n \in S, NEW row, n = 0 \/ row \in T PROVE PutRow(r, repl, n, row) \in T
  <2>1. ASSUME NEW x \in Args
        PROVE  LET t == x[1]
                   i == x[2]
                   last == x[3]
                   m == fh_regexp(t, r.words, i)
                   new == Splice(t, repl, m[1], m[2])
               IN  (IF n = 0 THEN [ptr |-> t, lastIndex |-> last, ends |-> FALSE]
                    ELSE IF i >= Len(t) \/ m = <<>> THEN [ptr |-> t, lastIndex |-> last, ends |-> TRUE]
                    ELSE IF r.global THEN row[<<new, m[1] + Len(repl), m[2]>>]
                    ELSE [ptr |-> new, lastIndex |-> m[2], ends |-> TRUE]) \in Replaced
    <3> DEFINE t == x[1]
               i == x[2]
               last == x[3]
               m == fh_regexp(t, r.words, i)
               new == Splice(t, repl, m[1], m[2])
    <3>1. t \in Text /\ i \in Nat /\ last \in Nat
      OBVIOUS
    <3> HIDE DEF t, i, last
    <3>2. m = <<>> \/ \E a, b \in Nat : m = <<a, b>> /\ i <= a /\ a <= b /\ b <= Len(t)
      BY <1>0, <3>1, MatchIs
    <3> HIDE DEF m
    <3>3. m # <<>> => new \in Text /\ m[1] \in Nat /\ m[2] \in Nat
      <4> SUFFICES ASSUME m # <<>> PROVE new \in Text /\ m[1] \in Nat /\ m[2] \in Nat
        OBVIOUS
      <4>1. PICK a, b \in Nat : m = <<a, b>> /\ i <= a /\ a <= b /\ b <= Len(t)
        BY <3>2
      <4>2. m[1] = a /\ m[2] = b /\ a <= Len(t)
        BY <3>1, <4>1, TextHas
      <4> QED
        BY <3>1, <4>1, <4>2, SpliceType
    <3> HIDE DEF new
    <3>4. m # <<>> => <<new, m[1] + Len(repl), m[2]>> \in Args
      BY <1>0, <3>3
    <3>5. m # <<>> /\ n # 0 => row[<<new, m[1] + Len(repl), m[2]>>] \in Replaced
      <4> HIDE DEF Args
      <4> QED
        BY <1>5, <3>4
    <3>6. (IF n = 0 THEN [ptr |-> t, lastIndex |-> last, ends |-> FALSE]
           ELSE IF i >= Len(t) \/ m = <<>> THEN [ptr |-> t, lastIndex |-> last, ends |-> TRUE]
           ELSE IF r.global THEN row[<<new, m[1] + Len(repl), m[2]>>]
           ELSE [ptr |-> new, lastIndex |-> m[2], ends |-> TRUE]) \in Replaced
      <4>1. [ptr |-> t, lastIndex |-> last, ends |-> FALSE] \in Replaced
        BY <3>1, ReplacedIs
      <4>2. [ptr |-> t, lastIndex |-> last, ends |-> TRUE] \in Replaced
        BY <3>1, ReplacedIs
      <4>3. m # <<>> => [ptr |-> new, lastIndex |-> m[2], ends |-> TRUE] \in Replaced
        BY <3>3, ReplacedIs
      <4> QED
        BY <3>5, <4>1, <4>2, <4>3
    <3> QED
      BY <3>6 DEF new, m, t, i, last
  <2> QED
    BY <2>1 DEF PutRow
<1>6. ASSUME NEW n \in S, n = 0, NEW row PROVE PutRow(r, repl, n, row) = out[n]
  <2>1. PutRow(r, repl, n, row) = PutRow(r, repl, n, next)
    BY <1>6 DEF PutRow
  <2> QED
    BY <1>a, <2>1
<1>7. MakesValues(S, T, rank, stop, next, out, op)
  <2>1. \A y \in S \X T : PutRow(r, repl, y[1], y[2]) \in T
    BY <1>5
  <2> HIDE DEF S, T
  <2>2. op \in [S \X T -> T]
    BY <1>c, <2>1
  <2>3. \A n \in S : n \in stop => out[n] \in T
    BY <1>5, <1>a
  <2> QED
    BY <1>b, <1>c, <2>2, <2>3 DEF MakesValues
<1> HIDE DEF S, T
<1>8. PICK f \in [S -> T] : \A n \in S : f[n] = IF n \in stop THEN out[n] ELSE op[<<n, f[next[n]]>>]
  BY <1>7, Descent
<1>9. f = [n \in S |-> PutRow(r, repl, n, f[n - 1])]
  <2>1. ASSUME NEW n \in S PROVE f[n] = PutRow(r, repl, n, f[n - 1])
    <3>1. CASE n \in stop
      BY <1>6, <1>8, <1>a, <3>1
    <3>2. CASE n \notin stop
      <4>1. f[n - 1] \in T /\ f[n] = op[<<n, f[n - 1]>>]
        BY <1>8, <1>a, <1>d, <3>2
      <4> QED
        BY <1>a, <4>1
    <3> QED
      BY <3>1, <3>2
  <2> QED
    BY <2>1
<1>10. put = [n \in S |-> PutRow(r, repl, n, put[n - 1])]
  BY <1>9 DEF PutFunction, S, put
<1>11. \A n \in S : put[n] \in T
  <2>1. ASSUME NEW n \in S, n \in stop \/ put[next[n]] \in T PROVE put[n] \in T
    BY <1>5, <1>10, <1>a, <2>1
  <2> QED
    BY <1>b, <2>1, DescentType
<1>12. replace(s, r, repl) = put[Rounds(s)][<<s, 0, 0>>]
  BY DEF replace, put, PutFunction, PutRow
<1>13. put \in [S -> T] /\ PutRows(r, repl, put)
  BY <1>10, <1>11 DEF S, PutRows
<1> QED
  BY <1>12, <1>13 DEF S, T

LEMMA ReplaceType ==
  ASSUME NEW s \in Text, NEW r \in RegExps, NEW repl \in Text
  PROVE  replace(s, r, repl) \in Replaced
<1> DEFINE Args == Text \X Nat \X Nat
           n == Rounds(s)
<1>1. <<s, 0, 0>> \in Args
  OBVIOUS
<1>2. n \in Nat
  BY TextHas DEF Rounds
<1>3. PICK put \in [Nat -> [Args -> Replaced]] : replace(s, r, repl) = put[n][<<s, 0, 0>>]
  BY RegExpHas, ReplaceSteps
<1> HIDE DEF Args, n
<1> QED
  BY <1>1, <1>2, <1>3

(* The parts that split with a regular expression makes in n rounds. *)
PartRow(s, words, n, row) ==
  [x \in Nat \X BOOLEAN |->
     LET i == x[1]
         matched_last == x[2]
         m == fh_regexp(s, words, i)
     IN  IF n = 0 THEN <<HungText>>
         ELSE IF i < Len(s) /\ m # <<>>
         THEN <<Slice(s, i, m[1])>> \o row[<<m[2], TRUE>>]
         ELSE IF i < Len(s) THEN <<Slice(s, i, Len(s))>>
         ELSE IF matched_last THEN << <<>> >> ELSE <<>>]
PartFunction(s, words) == CHOOSE cut : cut = [n \in Nat |-> PartRow(s, words, n, cut[n - 1])]

SplitterParts == Seq(Text \cup {HungText})

LEMMA SplitterSteps ==
  ASSUME NEW s \in Text, NEW words \in SUBSET Text
  PROVE  \E cut \in [Nat -> [Nat \X BOOLEAN -> SplitterParts]] :
           /\ \A n \in Nat : cut[n] = PartRow(s, words, n, cut[n - 1])
           /\ regexp_splitter(s, words) = cut[Rounds(s)][<<0, FALSE>>]
<1> DEFINE S == Nat
           Args == Nat \X BOOLEAN
           Part == Text \cup {HungText}
           Pieces == Seq(Part)
           T == [Args -> Pieces]
           rank == [n \in S |-> n]
           stop == {0}
           next == [n \in S |-> n - 1]
           out == [n \in S |-> PartRow(s, words, n, next)]
           op == [y \in S \X T |-> PartRow(s, words, y[1], y[2])]
           cut == PartFunction(s, words)
<1>0. Len(s) \in Nat
  BY TextHas
<1>1. HungText \in Part /\ <<>> \in Part /\ Text \subseteq Part
  BY EmptyText
<1>2. <<>> \in Pieces /\ \A p \in Part : <<p>> \in Pieces
  <2> HIDE DEF Part
  <2> QED
    OBVIOUS
<1>3. \A p \in Part, ps \in Pieces : <<p>> \o ps \in Pieces
  <2> HIDE DEF Part
  <2> QED
    BY <1>2, ConcatProperties
<1>a. /\ \A n \in S : (n \in stop <=> n = 0) /\ next[n] = n - 1 /\ out[n] = PartRow(s, words, n, next)
      /\ \A n \in S, t \in T : op[<<n, t>>] = PartRow(s, words, n, t)
  <2> HIDE DEF T
  <2> QED
    OBVIOUS
<1>b. Descends(S, rank, stop, next)
  BY DEF Descends
<1>c. op = [y \in S \X T |-> PartRow(s, words, y[1], y[2])] /\ T # {}
  <2>1. [x \in Args |-> <<>>] \in T
    BY <1>2
  <2> QED
    BY <2>1
<1>d. \A n \in S : n # 0 => n - 1 \in S
  OBVIOUS
<1> HIDE DEF Part, Pieces, rank, stop, next, out, op, cut
<1>5. ASSUME NEW n \in S, NEW row, n = 0 \/ row \in T PROVE PartRow(s, words, n, row) \in T
  <2>1. ASSUME NEW x \in Args
        PROVE  LET i == x[1]
                   matched_last == x[2]
                   m == fh_regexp(s, words, i)
               IN  (IF n = 0 THEN <<HungText>>
                    ELSE IF i < Len(s) /\ m # <<>>
                    THEN <<Slice(s, i, m[1])>> \o row[<<m[2], TRUE>>]
                    ELSE IF i < Len(s) THEN <<Slice(s, i, Len(s))>>
                    ELSE IF matched_last THEN << <<>> >> ELSE <<>>) \in Pieces
    <3> DEFINE i == x[1]
               matched_last == x[2]
               m == fh_regexp(s, words, i)
    <3>1. i \in Nat
      OBVIOUS
    <3> HIDE DEF i, matched_last
    <3>2. m = <<>> \/ \E a, b \in Nat : m = <<a, b>> /\ i <= a /\ a <= b /\ b <= Len(s)
      BY <3>1, MatchIs
    <3> HIDE DEF m
    <3>3. m # <<>> => Slice(s, i, m[1]) \in Part /\ m[2] \in Nat
      <4> SUFFICES ASSUME m # <<>> PROVE Slice(s, i, m[1]) \in Part /\ m[2] \in Nat
        OBVIOUS
      <4>1. PICK a, b \in Nat : m = <<a, b>> /\ i <= a /\ a <= b /\ b <= Len(s)
        BY <3>2
      <4>2. m[1] = a /\ m[2] = b /\ a <= Len(s)
        BY <1>0, <4>1
      <4>3. Slice(s, i, a) \in Text
        BY <3>1, <4>2, SliceOfText
      <4> QED
        BY <1>1, <4>1, <4>2, <4>3
    <3>4. m # <<>> /\ n # 0 => row[<<m[2], TRUE>>] \in Pieces
      <4>1. m # <<>> => <<m[2], TRUE>> \in Args
        BY <3>3
      <4> HIDE DEF Args
      <4> QED
        BY <1>5, <4>1
    <3>5. Slice(s, i, Len(s)) \in Part
      <4>1. Slice(s, i, Len(s)) \in Text
        BY <1>0, <3>1, SliceOfText
      <4> QED
        BY <1>1, <4>1
    <3>6. (IF n = 0 THEN <<HungText>>
           ELSE IF i < Len(s) /\ m # <<>>
           THEN <<Slice(s, i, m[1])>> \o row[<<m[2], TRUE>>]
           ELSE IF i < Len(s) THEN <<Slice(s, i, Len(s))>>
           ELSE IF matched_last THEN << <<>> >> ELSE <<>>) \in Pieces
      <4>1. <<HungText>> \in Pieces /\ << <<>> >> \in Pieces /\ <<Slice(s, i, Len(s))>> \in Pieces
        BY <1>1, <1>2, <3>5
      <4>2. m # <<>> /\ n # 0 => <<Slice(s, i, m[1])>> \o row[<<m[2], TRUE>>] \in Pieces
        BY <1>3, <3>3, <3>4
      <4> QED
        BY <1>2, <4>1, <4>2
    <3> QED
      BY <3>6 DEF m, i, matched_last
  <2> QED
    BY <2>1 DEF PartRow
<1>6. ASSUME NEW n \in S, n = 0, NEW row PROVE PartRow(s, words, n, row) = out[n]
  <2>1. PartRow(s, words, n, row) = PartRow(s, words, n, next)
    BY <1>6 DEF PartRow
  <2> QED
    BY <1>a, <2>1
<1>7. MakesValues(S, T, rank, stop, next, out, op)
  <2>1. \A y \in S \X T : PartRow(s, words, y[1], y[2]) \in T
    BY <1>5
  <2> HIDE DEF S, T
  <2>2. op \in [S \X T -> T]
    BY <1>c, <2>1
  <2>3. \A n \in S : n \in stop => out[n] \in T
    BY <1>5, <1>a
  <2> QED
    BY <1>b, <1>c, <2>2, <2>3 DEF MakesValues
<1> HIDE DEF S, T
<1>8. PICK f \in [S -> T] : \A n \in S : f[n] = IF n \in stop THEN out[n] ELSE op[<<n, f[next[n]]>>]
  BY <1>7, Descent
<1>9. f = [n \in S |-> PartRow(s, words, n, f[n - 1])]
  <2>1. ASSUME NEW n \in S PROVE f[n] = PartRow(s, words, n, f[n - 1])
    <3>1. CASE n \in stop
      BY <1>6, <1>8, <1>a, <3>1
    <3>2. CASE n \notin stop
      <4>1. f[n - 1] \in T /\ f[n] = op[<<n, f[n - 1]>>]
        BY <1>8, <1>a, <1>d, <3>2
      <4> QED
        BY <1>a, <4>1
    <3> QED
      BY <3>1, <3>2
  <2> QED
    BY <2>1
<1>10. cut = [n \in S |-> PartRow(s, words, n, cut[n - 1])]
  BY <1>9 DEF PartFunction, S, cut
<1>11. \A n \in S : cut[n] \in T
  <2>1. ASSUME NEW n \in S, n \in stop \/ cut[next[n]] \in T PROVE cut[n] \in T
    BY <1>5, <1>10, <1>a, <2>1
  <2> QED
    BY <1>b, <2>1, DescentType
<1>12. regexp_splitter(s, words) = cut[Rounds(s)][<<0, FALSE>>]
  BY DEF regexp_splitter, cut, PartFunction, PartRow
<1>13. cut \in [S -> T] /\ \A n \in S : cut[n] = PartRow(s, words, n, cut[n - 1])
  BY <1>10, <1>11
<1> QED
  BY <1>12, <1>13 DEF S, T, Pieces, Part, SplitterParts

LEMMA SplitterType ==
  ASSUME NEW s \in Text, NEW words \in SUBSET Text
  PROVE  regexp_splitter(s, words) \in SplitterParts
<1> DEFINE Args == Nat \X BOOLEAN
           n == Rounds(s)
<1>1. <<0, FALSE>> \in Args
  OBVIOUS
<1>2. n \in Nat
  BY TextHas DEF Rounds
<1>3. PICK cut \in [Nat -> [Args -> SplitterParts]] : regexp_splitter(s, words) = cut[n][<<0, FALSE>>]
  BY SplitterSteps
<1> HIDE DEF Args, n
<1> QED
  BY <1>1, <1>2, <1>3

LEMMA ParseType ==
  ASSUME NEW s \in Text, NEW radix \in Int
  PROVE  parse_int(s, radix) \in JSNumber
<1> DEFINE t == SkipSpaces(s)
           u == Unsigned(t)
           hex == radix \in {0, 16} /\ HasPrefix(u)
           r == IF hex THEN 16 ELSE IF radix = 0 THEN 10 ELSE radix
           x == IF hex THEN SubSeq(u, 3, Len(u)) ELSE u
           d == Digits(x, r)
<1>1. t \in Text /\ u \in Text /\ r \in Int
  BY SkipIs, UnsignedIs
<1>2. x \in Text
  <2>1. Len(u) \in Nat
    BY <1>1, TextHas
  <2>2. SubSeq(u, 3, Len(u)) \in Text
    BY <1>1, <2>1, PartOfText
  <2> QED
    BY <1>1, <2>2
<1> HIDE DEF x, r
<1>3. d \in Text
  <2> DEFINE len == Len(x)
             good == {n \in 0 .. len : \A i \in 1 .. n : radix_val(x[i]) <= r}
             n == CHOOSE n \in good : \A m \in good : m <= n
  <2>1. len \in Nat
    BY <1>2, TextHas
  <2>2. good \in SUBSET (0 .. len) /\ good # {}
    <3>1. 0 \in 0 .. len /\ \A i \in 1 .. 0 : radix_val(x[i]) <= r
      BY <2>1
    <3> HIDE DEF len
    <3> QED
      BY <3>1
  <2>3. n \in good
    <3> HIDE DEF good, len
    <3>1. \E m \in good : \A k \in good : k <= m
      BY <2>1, <2>2, Greatest
    <3> QED
      BY <3>1
  <2>4. d = SubSeq(x, 1, n)
    BY DEF Digits
  <2> HIDE DEF n
  <2>5. n \in Int /\ n <= Len(x)
    <3> HIDE DEF len
    <3>1. n \in Int /\ n <= len
      BY <2>1, <2>3
    <3> QED
      BY <3>1 DEF len
  <2>6. SubSeq(x, 1, n) \in Text
    BY <1>2, <2>5, PartOfText
  <2> QED
    BY <2>4, <2>6
<1> HIDE DEF d
<1>4. parse_int(s, radix) \in {JSNAN, Num(SignOf(t) * Positional(d, r))}
  BY DEF parse_int, d, x, r
<1> QED
  BY <1>1, <1>3, <1>4, SignedIs, NanIs

-----------------------------------------------------------------------------
(* Types.                                                                  *)

LEMMA ConstantsAre ==
  /\ Operands \subseteq JSValue /\ Texts \subseteq Text /\ Patterns \subseteq SUBSET Text
  /\ Radices \subseteq Int /\ MaxText \in Nat /\ Indices \subseteq Int
BY PrimitivesAssumption DEF Indices

LEMMA StateIs ==
  ASSUME PrimitiveTypeOK
  PROVE  v \in JSValue /\ re \in RegExps /\ (IS_STR(v) => v \in JSString /\ v.ptr \in Text)
BY ValueCases, StringHas DEF PrimitiveTypeOK, RegExps

LEMMA AssignType ==
  ASSUME PrimitiveTypeOK, NEW w \in JSValue \cup {NoText}, Assign(w)
  PROVE  PrimitiveTypeOK'
<1>1. CASE w = NoText
  BY <1>1, OthersHave DEF Assign, Stops, PrimitiveTypeOK
<1>2. CASE w # NoText
  <2>1. w \in JSValue
    BY <1>2
  <2> QED
    BY <1>2, <2>1 DEF Assign, PrimitiveTypeOK
<1> QED
  BY <1>1, <1>2

LEMMA MathArguments ==
  ASSUME v \in JSValue, NEW w \in Operands, NEW args \in {<<v>>, <<v, w>>, <<v, w, JSNUM(NINF)>>}
  PROVE  math_max(args) \in JSNumber /\ math_min(args) \in JSNumber
<1>1. JSNUM(NINF) \in JSValue /\ w \in JSValue
  BY ConstantsAre, NumberIs, Specials, InValues
<1>2. args \in Seq(JSValue)
  <2> DEFINE x == JSNUM(NINF)
  <2> HIDE DEF x
  <2>1. v \in JSValue /\ w \in JSValue /\ x \in JSValue
    BY <1>1 DEF x
  <2>2. {<<v>>, <<v, w>>, <<v, w, x>>} \subseteq Seq(JSValue)
    BY <2>1, ShortSequences
  <2> QED
    BY <2>2 DEF x
<1>3. Len(args) \in Nat
  BY <1>2, LenProperties
<1> QED
  BY <1>2, <1>3, GreatestType

(* What split and the splitter of a regular expression assign. *)
LEMMA SplitAssigns ==
  ASSUME PrimitiveTypeOK, Split
  PROVE  \E w \in MadeString \cup {NoText} : Assign(w)
<1>0. IS_STR(v) => v \in JSString
  BY StateIs
<1>1. PICK t \in Texts, n \in {1, MaxText + 1} :
        \E i \in DOMAIN split(v, t, n) :
          Assign(IF \E j \in DOMAIN split(v, t, n) : split(v, t, n)[j] = NoText THEN NoText ELSE split(v, t, n)[i])
  BY DEF Split
<1> DEFINE parts == split(v, t, n)
           Part == MadeString \cup {NoText}
<1>2. t \in Text /\ n \in Nat /\ v \in JSString
  BY <1>0, ConstantsAre DEF Split
<1>3. parts \in Seq(Part)
  BY <1>2, SplitType DEF SplitParts, Part
<1>4. PICK i \in DOMAIN parts :
        Assign(IF \E j \in DOMAIN parts : parts[j] = NoText THEN NoText ELSE parts[i])
  BY <1>1
<1> HIDE DEF parts, Part
<1>5. parts[i] \in Part
  BY <1>3, LenProperties, ElementOfSeq
<1>6. (IF \E j \in DOMAIN parts : parts[j] = NoText THEN NoText ELSE parts[i]) \in Part
  BY <1>5 DEF Part
<1> QED
  BY <1>4, <1>6 DEF Part

LEMMA SplitterAssigns ==
  ASSUME PrimitiveTypeOK, SplitRegexp
  PROVE  Stops("hung") \/ (UNCHANGED process /\ \E t \in Text : v' = JSSTR(t))
<1>0. /\ re \in RegExps /\ (IS_STR(v) => v.ptr \in Text)
  BY StateIs
<1> DEFINE parts == regexp_splitter(v.ptr, re.words)
           Part == Text \cup {HungText}
<1>1. parts \in Seq(Part)
  BY <1>0, RegExpHas, SplitterType DEF SplitRegexp, SplitterParts
<1>2. CASE HungText \notin ToSet(parts)
  <2>1. PICK i \in DOMAIN parts : v' = JSSTR(parts[i])
    BY <1>2 DEF SplitRegexp
  <2>2. UNCHANGED process
    BY <1>2 DEF SplitRegexp
  <2> HIDE DEF parts, Part
  <2>3. parts[i] \in Part /\ parts[i] # HungText
    BY <1>1, <1>2, LenProperties, ElementOfSeq DEF ToSet
  <2> QED
    BY <2>1, <2>2, <2>3 DEF Part
<1> QED
  BY <1>2 DEF SplitRegexp

LEMMA PrimitiveInitType == PrimitiveInit => PrimitiveTypeOK
BY ConstantsAre DEF PrimitiveInit, PrimitiveTypeOK

LEMMA PrimitiveTypeStep == PrimitiveTypeOK /\ [PrimitiveNext]_primitive_vars => PrimitiveTypeOK'
<1> SUFFICES ASSUME PrimitiveTypeOK, [PrimitiveNext]_primitive_vars PROVE PrimitiveTypeOK'
  OBVIOUS
<1>0. /\ v \in JSValue /\ re \in RegExps /\ (IS_STR(v) => v \in JSString /\ v.ptr \in Text)
      /\ Operands \subseteq JSValue
  BY StateIs, ConstantsAre
<1>a. \A w \in JSValue \cup {NoText} : Assign(w) => PrimitiveTypeOK'
  BY AssignType
<1>b. \A w \in JSNumber : Assign(w) => PrimitiveTypeOK'
  BY <1>a, InValues
<1>c. \A w \in JSString \cup {NoText} : Assign(w) => PrimitiveTypeOK'
  BY <1>a, InValues
<1>1. CASE Literal
  BY <1>0, <1>1, <1>a DEF Literal
<1>2. CASE Operate
  <2>1. PICK w \in Operands : \/ Addable(v, w) /\ Assign(add_op(v, w))
                              \/ Addable(w, v) /\ Assign(add_op(w, v))
                              \/ Assign(sub_op(v, w)) \/ Assign(mul_op(v, w))
                              \/ Assign(div_op(v, w)) \/ Assign(mod_op(v, w))
    BY <1>2 DEF Operate
  <2>2. w \in JSValue
    BY <1>0
  <2>3. /\ sub_op(v, w) \in JSNumber /\ mul_op(v, w) \in JSNumber
        /\ div_op(v, w) \in JSNumber /\ mod_op(v, w) \in JSNumber
        /\ Addable(v, w) => add_op(v, w) \in JSValue
        /\ Addable(w, v) => add_op(w, v) \in JSValue
    BY <1>0, <2>2, ArithmeticType
  <2> QED
    BY <1>a, <1>b, <2>1, <2>3
<1>3. CASE Convert
  <2>1. /\ minus_op(v) \in JSNumber /\ not_op(v) \in JSNumber /\ fh_to_number(v) \in JSNumber
        /\ JSBOOL(~ fh_to_boolean(v)) \in JSValue
        /\ HasText(v) => fh_to_string(v) \in JSString
    BY <1>0, ConversionType, ToNumber, InValues, HasTextIs
  <2> QED
    BY <1>3, <1>a, <1>b, <1>c, <2>1 DEF Convert
<1>4. CASE Math
  <2>1. math_abs(v) \in JSNumber /\ math_floor(v) \in JSNumber
    BY <1>0, ConversionType
  <2>2. ASSUME NEW w \in Operands, NEW args \in {<<v>>, <<v, w>>, <<v, w, JSNUM(NINF)>>}
        PROVE  math_max(args) \in JSNumber /\ math_min(args) \in JSNumber
    BY <1>0, MathArguments
  <2> QED
    BY <1>4, <1>b, <2>1, <2>2 DEF Math
<1>5. CASE ParseInt
  <2>1. PICK r \in Radices : HasText(v) /\ Assign(parse_int(fh_to_string(v).ptr, r))
    BY <1>5 DEF ParseInt
  <2>2. r \in Int /\ fh_to_string(v).ptr \in Text
    BY <1>0, <2>1, ConstantsAre, HasTextIs, StringHas
  <2> QED
    BY <1>b, <2>1, <2>2, ParseType
<1>6. CASE Concat
  <2>1. PICK t \in Texts, u \in Texts : IS_STR(v) /\ Assign(concat(v, <<t, u>>))
    BY <1>6 DEF Concat
  <2>2. t \in Text /\ u \in Text
    BY ConstantsAre
  <2>3. concat(v, <<t, u>>) \in JSString
    BY <1>0, <2>1, <2>2, ConcatType
  <2> QED
    BY <1>c, <2>1, <2>3
<1>7. CASE Trim
  BY <1>0, <1>7, <1>c, TrimType DEF Trim
<1>8. CASE Find
  <2>1. PICK t \in Texts, i \in Indices : \/ i >= 0 /\ Assign(Num(index_of(v.ptr, t, i)))
                                          \/ Assign(Num(last_index_of(v.ptr, t, i)))
    BY <1>8 DEF Find
  <2>2. t \in Text /\ i \in Int /\ v.ptr \in Text
    BY <1>0, <1>8, ConstantsAre DEF Find
  <2>3. i >= 0 => index_of(v.ptr, t, i) \in Int
    BY <2>2, IndexType
  <2>4. last_index_of(v.ptr, t, i) \in Int
    BY <2>2, LastIndexType
  <2> QED
    BY <1>b, <2>1, <2>3, <2>4, NumIs
<1>9. CASE Cut
  <2>1. PICK i \in Indices, j \in Indices :
          Assign(char_at(v, i)) \/ Assign(slice(v, i, j)) \/ Assign(substr(v, i, j)) \/ Assign(substring(v, i, j))
    BY <1>9 DEF Cut
  <2>2. i \in Int /\ j \in Int /\ v \in JSString
    BY <1>0, <1>9, ConstantsAre DEF Cut
  <2> QED
    BY <1>c, <2>1, <2>2, CutType, MadeIs
<1>10. CASE Split
  <2>1. PICK w \in MadeString \cup {NoText} : Assign(w)
    BY <1>10, SplitAssigns
  <2> QED
    BY <1>c, <2>1, MadeIs
<1>11. CASE ReplaceText
  <2>1. PICK t \in Texts, u \in Texts : IS_STR(v) /\ Assign(JSSTR(fh_str_replace(v.ptr, t, u)))
    BY <1>11 DEF ReplaceText
  <2>2. t \in Text /\ u \in Text /\ v.ptr \in Text
    BY <1>0, <2>1, ConstantsAre
  <2>3. JSSTR(fh_str_replace(v.ptr, t, u)) \in JSString
    BY <2>2, ReplaceTextType, StringIs
  <2> QED
    BY <1>c, <2>1, <2>3
<1>12. CASE NewRegexp
  BY <1>12 DEF NewRegexp, PrimitiveTypeOK
<1>13. CASE Exec
  <2>1. exec(v.ptr, re).lastIndex \in Nat
    BY <1>0, <1>13, ExecType DEF Exec
  <2>2. [re EXCEPT !.lastIndex = exec(v.ptr, re).lastIndex] \in RegExps
    BY <1>0, <2>1 DEF RegExps
  <2> QED
    BY <1>13, <2>2 DEF Exec, PrimitiveTypeOK, RegExps
<1>14. CASE Match
  <2>1. exec(v.ptr, re).lastIndex \in Nat
    BY <1>0, <1>14, ExecType DEF Match
  <2>2. [re EXCEPT !.lastIndex = IF re.global THEN 0 ELSE exec(v.ptr, re).lastIndex] \in RegExps
    BY <1>0, <2>1 DEF RegExps
  <2>3. CASE Stops("hung") /\ UNCHANGED re
    BY <2>3, OthersHave DEF Stops, PrimitiveTypeOK
  <2>4. CASE /\ re' = [re EXCEPT !.lastIndex = IF re.global THEN 0 ELSE exec(v.ptr, re).lastIndex]
             /\ UNCHANGED <<v, process>>
    BY <2>2, <2>4 DEF PrimitiveTypeOK, RegExps
  <2> QED
    BY <1>14, <2>3, <2>4 DEF Match
<1>15. CASE Search
  <2>1. search(v.ptr, re.words) \in Int
    BY <1>0, <1>15, SearchType, RegExpHas DEF Search
  <2> QED
    BY <1>15, <1>b, <2>1, NumIs DEF Search
<1>16. CASE SplitRegexp
  <2>1. UNCHANGED re
    BY <1>16 DEF SplitRegexp
  <2>2. CASE Stops("hung")
    BY <2>1, <2>2, OthersHave DEF Stops, PrimitiveTypeOK
  <2>3. CASE UNCHANGED process /\ \E t \in Text : v' = JSSTR(t)
    <3>1. v' \in JSValue
      BY <2>3, StringIs, InValues
    <3> QED
      BY <2>1, <2>3, <3>1 DEF PrimitiveTypeOK
  <2> QED
    BY <1>16, <2>2, <2>3, SplitterAssigns
<1>17. CASE \E u \in Texts : ReplaceRegexp(u)
  <2>1. PICK u \in Texts : ReplaceRegexp(u)
    BY <1>17
  <2> DEFINE r == replace(v.ptr, re, u)
  <2>2. u \in Text /\ v \in JSString /\ v.ptr \in Text
    BY <1>0, <2>1, ConstantsAre DEF ReplaceRegexp
  <2>3. r.ptr \in Text /\ r.lastIndex \in Nat
    <3>1. r \in Replaced
      BY <1>0, <2>2, ReplaceType
    <3> QED
      BY <3>1 DEF Replaced
  <2>4. [v EXCEPT !.ptr = r.ptr] \in JSString /\ [re EXCEPT !.lastIndex = r.lastIndex] \in RegExps
    <3> HIDE DEF r
    <3> QED
      BY <1>0, <2>2, <2>3 DEF JSString, RegExps
  <2>5. CASE r.ends
    BY <2>1, <2>4, <2>5, InValues DEF ReplaceRegexp, PrimitiveTypeOK, RegExps
  <2>6. CASE ~ r.ends
    BY <2>1, <2>6, OthersHave DEF ReplaceRegexp, Stops, PrimitiveTypeOK
  <2> QED
    BY <2>5, <2>6
<1>18. CASE UNCHANGED primitive_vars
  BY <1>18 DEF primitive_vars, PrimitiveTypeOK
<1> QED
  BY <1>1, <1>2, <1>3, <1>4, <1>5, <1>6, <1>7, <1>8, <1>9, <1>10, <1>11, <1>12, <1>13, <1>14, <1>15,
     <1>16, <1>17, <1>18 DEF PrimitiveNext

(* Whatever operators, conversions and methods a script applies to its     *)
(* variable, it holds a primitive value, whose text has the model's        *)
(* characters and whose double has its flag if it is C's NaN               *)
(* (flathead.c, eval.c, String.c, regexp.c, Math.c, runtime.c).            *)
THEOREM PrimitiveTypeCorrect == PrimitiveSpec => []PrimitiveTypeOK
BY PrimitiveInitType, PrimitiveTypeStep, PTL DEF PrimitiveSpec

-----------------------------------------------------------------------------
(* What arithmetic answers.                                                *)

(* The double of a number, by its flag. *)
DoubleOf(n) == IF n.is_nan THEN NAN ELSE n.val

LEMMA DoubleIs ==
  ASSUME NEW w \in JSValue
  PROVE  Double(w) = DoubleOf(fh_to_number(w)) /\ fh_to_number(w) \in JSNumber
BY ToNumber DEF Double, DoubleOf

LEMMA DoubleOfIs ==
  ASSUME NEW n \in JSNumber
  PROVE  /\ DoubleOf(n) \in CDouble /\ (DoubleOf(n) = NAN <=> n.is_nan)
         /\ ~ n.is_nan => DoubleOf(n) = n.val
BY NumberHas, Specials DEF DoubleOf

LEMMA IsItself ==
  /\ \A d \in CDouble : Is(JSNUM(d), d)
  /\ Is(JSNAN, NAN)
  /\ \A n \in JSNumber : ~ n.is_nan => Is(n, n.val)
BY NumberHas, NumberIs DEF Is, JSNAN, JSNUM

LEMMA SumAgrees ==
  ASSUME NEW a \in JSNumber, NEW b \in JSNumber
  PROVE  Is(AddNumbers(a, b), Sum2(DoubleOf(a), DoubleOf(b)))
<1>1. CASE a.is_nan \/ b.is_nan
  <2>1. Sum2(DoubleOf(a), DoubleOf(b)) = NAN
    BY <1>1, Specials DEF Sum2, DoubleOf
  <2> QED
    BY <1>1, <2>1, IsItself DEF AddNumbers
<1>2. CASE ~ a.is_nan /\ ~ b.is_nan
  <2>0. /\ DoubleOf(a) = a.val /\ DoubleOf(b) = b.val /\ a.val \in CDouble /\ b.val \in CDouble
        /\ a.val # NAN /\ b.val # NAN
    BY <1>2, NumberHas DEF DoubleOf
  <2>1. CASE ~ IS_INF(a) /\ ~ IS_INF(b)
    <3>1. AddNumbers(a, b) = JSNUM(Sum2(a.val, b.val))
      BY <1>2, <2>1 DEF AddNumbers
    <3> QED
      BY <2>0, <3>1, SumDouble, IsItself
  <2>2. CASE IS_INF(a) /\ IS_INF(b)
    <3>1. a.val \in {INF, NINF} /\ b.val \in {INF, NINF}
      BY <2>2, NumberHas
    <3>2. IS_NEG(a) = IS_NEG(b) <=> a.val = b.val
      BY <3>1, Specials DEF IS_NEG
    <3>3. Sum2(a.val, b.val) = IF a.val = b.val THEN a.val ELSE NAN
      BY <2>0, <3>1, Specials DEF Sum2
    <3>4. AddNumbers(a, b) = IF a.val = b.val THEN a ELSE JSNAN
      BY <1>2, <2>2, <3>2 DEF AddNumbers
    <3> QED
      BY <1>2, <2>0, <3>3, <3>4, IsItself
  <2>3. CASE IS_INF(a) /\ ~ IS_INF(b)
    <3>1. a.val \in {INF, NINF} /\ IsFin(b.val) /\ ~ IsInf(b.val)
      BY <1>2, <2>3, NumberHas, FiniteHas, DoubleCases
    <3>2. Sum2(a.val, b.val) = a.val
      BY <2>0, <3>1, Specials DEF Sum2
    <3>3. AddNumbers(a, b) = a
      BY <1>2, <2>3 DEF AddNumbers
    <3> QED
      BY <1>2, <2>0, <3>2, <3>3, IsItself
  <2>4. CASE ~ IS_INF(a) /\ IS_INF(b)
    <3>1. b.val \in {INF, NINF} /\ IsFin(a.val) /\ ~ IsInf(a.val)
      BY <1>2, <2>4, NumberHas, FiniteHas, DoubleCases
    <3>2. Sum2(a.val, b.val) = b.val
      BY <2>0, <3>1, Specials DEF Sum2
    <3>3. AddNumbers(a, b) = b
      BY <1>2, <2>4 DEF AddNumbers
    <3> QED
      BY <1>2, <2>0, <3>2, <3>3, IsItself
  <2> QED
    BY <2>1, <2>2, <2>3, <2>4
<1> QED
  BY <1>1, <1>2

LEMMA InfiniteProduct ==
  ASSUME NEW d \in CDouble, NEW e \in CDouble, d # NAN, e # NAN, ~ (IsFin(d) /\ IsFin(e)),
         NEW p \in {-1, 0, 1}, p = Sign(d[2]) * Sign(e[2])
  PROVE  Times(d, e) = IF p = 0 THEN NAN ELSE IF p = 1 THEN INF ELSE NINF
BY DEF Times, INF, NINF

LEMMA SignsOf ==
  /\ Sign(INF[2]) = 1 /\ Sign(NINF[2]) = -1 /\ Sign(1) = 1 /\ Sign(-1) = -1
  /\ \A n \in Int : Sign(n) = IF n < 0 THEN -1 ELSE IF n = 0 THEN 0 ELSE 1
BY Specials DEF Sign

LEMMA ProductAgrees ==
  ASSUME NEW a \in JSNumber, NEW b \in JSNumber
  PROVE  Is(MulNumbers(a, b), Times(DoubleOf(a), DoubleOf(b)))
<1>1. CASE a.is_nan \/ b.is_nan
  <2>1. Times(DoubleOf(a), DoubleOf(b)) = NAN
    BY <1>1, Specials DEF Times, DoubleOf
  <2> QED
    BY <1>1, <2>1, IsItself DEF MulNumbers
<1>2. CASE ~ a.is_nan /\ ~ b.is_nan
  <2> DEFINE d == a.val
             e == b.val
  <2>0. DoubleOf(a) = d /\ DoubleOf(b) = e /\ d \in CDouble /\ e \in CDouble /\ d # NAN /\ e # NAN
    BY <1>2, NumberHas DEF DoubleOf
  <2>1. CASE ~ IS_INF(a) /\ ~ IS_INF(b)
    <3>1. MulNumbers(a, b) = JSNUM(Times(d, e))
      BY <1>2, <2>1 DEF MulNumbers
    <3> QED
      BY <2>0, <3>1, ProductDouble, IsItself
  <2>2. CASE IS_INF(a) /\ IS_INF(b)
    <3>1. d \in {INF, NINF} /\ e \in {INF, NINF}
      BY <2>2, NumberHas
    <3>2. MulNumbers(a, b) = JSNUM(IF d = e THEN INF ELSE NINF)
      BY <1>2, <2>2, <3>1, Specials DEF MulNumbers, IS_NEG
    <3> DEFINE p == IF d = e THEN 1 ELSE -1
    <3>3. p \in {-1, 0, 1} /\ p = Sign(d[2]) * Sign(e[2])
      BY <3>1, SignsOf, Specials
    <3>4. Times(d, e) = IF p = 0 THEN NAN ELSE IF p = 1 THEN INF ELSE NINF
      <4> HIDE DEF p, d, e
      <4> QED
        BY <2>0, <3>1, <3>3, Specials, InfiniteProduct
    <3>5. Times(d, e) = IF d = e THEN INF ELSE NINF
      BY <3>4
    <3> QED
      BY <2>0, <3>2, <3>5, IsItself, Specials
  <2>3. ASSUME NEW x \in JSNumber, NEW y \in JSNumber, ~ x.is_nan, ~ y.is_nan, IS_INF(x), ~ IS_INF(y)
        PROVE  /\ IF y.val = Fin(0) THEN Times(x.val, y.val) = NAN /\ Times(y.val, x.val) = NAN
                  ELSE LET r == IF (y.val[2] < 0) = IS_NEG(x) THEN INF ELSE NINF
                       IN  Times(x.val, y.val) = r /\ Times(y.val, x.val) = r
    <3> DEFINE n == y.val[2]
    <3>1. /\ x.val \in {INF, NINF} /\ x.val \in CDouble /\ y.val \in CDouble /\ x.val # NAN /\ y.val # NAN
          /\ n \in Int /\ y.val = Fin(n)
          /\ ~ (IsFin(x.val) /\ IsFin(y.val)) /\ ~ (IsFin(y.val) /\ IsFin(x.val))
      BY <2>3, NumberHas, FiniteHas, Specials
    <3> HIDE DEF n
    <3>2. y.val = Fin(0) <=> n = 0
      BY <3>1, FinSame
    <3> DEFINE p == IF n = 0 THEN 0 ELSE IF (n < 0) = (x.val = NINF) THEN 1 ELSE -1
    <3>3. p \in {-1, 0, 1} /\ p = Sign(x.val[2]) * Sign(n) /\ p = Sign(n) * Sign(x.val[2])
      <4>1. CASE x.val = INF
        BY <3>1, <4>1, SignsOf, Specials
      <4>2. CASE x.val = NINF
        BY <3>1, <4>2, SignsOf, Specials
      <4> QED
        BY <3>1, <4>1, <4>2
    <3> HIDE DEF p
    <3>4. /\ Times(x.val, y.val) = IF p = 0 THEN NAN ELSE IF p = 1 THEN INF ELSE NINF
          /\ Times(y.val, x.val) = IF p = 0 THEN NAN ELSE IF p = 1 THEN INF ELSE NINF
      BY <3>1, <3>3, InfiniteProduct DEF n
    <3>5. CASE n = 0
      BY <3>2, <3>4, <3>5 DEF p
    <3>6. CASE n # 0
      BY <3>2, <3>4, <3>6 DEF p, n, IS_NEG
    <3> QED
      BY <3>5, <3>6
  <2>4. CASE IS_INF(a) /\ ~ IS_INF(b)
    <3>1. MulNumbers(a, b) = IF e = Fin(0) THEN JSNAN
                             ELSE JSNUM(IF (e[2] < 0) = IS_NEG(a) THEN INF ELSE NINF)
      BY <1>2, <2>4 DEF MulNumbers
    <3> QED
      BY <1>2, <2>0, <2>3, <2>4, <3>1, IsItself, Specials
  <2>5. CASE ~ IS_INF(a) /\ IS_INF(b)
    <3>1. MulNumbers(a, b) = IF d = Fin(0) THEN JSNAN
                             ELSE JSNUM(IF (d[2] < 0) = IS_NEG(b) THEN INF ELSE NINF)
      BY <1>2, <2>5 DEF MulNumbers
    <3> QED
      BY <1>2, <2>0, <2>3, <2>5, <3>1, IsItself, Specials
  <2> QED
    BY <2>1, <2>2, <2>4, <2>5
<1> QED
  BY <1>1, <1>2

(* Words wrap from the smallest negative one up. *)
LEMMA WordsWrap ==
  ASSUME NEW w \in JSValue, IsFin(Double(w)), Double(w)[2] >= -two32 \div 2
  PROVE  /\ fh_to_int32(w).val[2] \in -(two32 \div 2) .. two32 \div 2 - 1
         /\ (fh_to_int32(w).val[2] - Double(w)[2]) % two32 = 0
<1> DEFINE k == Double(w)[2]
           half == two32 \div 2
           r == CRem(k, two32)
           n == IF r >= half THEN r - two32 ELSE r
<1>0. half \in Nat /\ half > 0 /\ two32 = 2 * half /\ two32 \in Nat \ {0} /\ -two32 \div 2 = -half
  BY TwoIs, ValuesAssumption
<1>1. k \in Int /\ ~ fh_to_number(w).is_nan /\ ~ IsInf(fh_to_number(w).val) /\ fh_to_number(w).val[2] = k
  <2>1. ~ fh_to_number(w).is_nan
    BY DoubleIs, DoubleOfIs, Specials
  <2>2. Double(w) = fh_to_number(w).val /\ Double(w) \in CDouble
    BY <2>1, DoubleIs, DoubleOfIs
  <2> QED
    BY <2>1, <2>2, DoubleCases
<1>2. r \in Int
  BY <1>0, <1>1, RemainderIs
<1>3. fh_to_int32(w).val[2] = n
  <2> HIDE DEF k
  <2>1. fh_to_uint32(w) = Num(r)
    BY <1>1 DEF fh_to_uint32
  <2>2. fh_to_uint32(w).val[2] = r
    BY <1>2, <2>1, NumIs, FinIs
  <2>3. fh_to_int32(w) = Num(n) /\ n \in Int
    BY <1>0, <1>2, <2>2 DEF fh_to_int32
  <2> HIDE DEF n, r
  <2> QED
    BY <2>3, NumIs, FinIs
<1>4. k >= -half
  BY <1>0
<1> HIDE DEF k, half
<1>5. CASE k < 0
  <2>1. -k \in Nat /\ -k < two32
    BY <1>0, <1>1, <1>4, <1>5
  <2>2. (-k) % two32 = -k
    BY <1>0, <2>1, SmallRemainder
  <2>3. r = k
    BY <1>0, <1>1, <1>5, <2>2 DEF CRem, Sign
  <2>4. n = k
    BY <1>0, <1>1, <1>5, <2>3
  <2>5. (k - k) % two32 = 0
    BY <1>0, <1>1, SmallRemainder
  <2>6. k \in -half .. half - 1
    BY <1>0, <1>1, <1>4, <1>5
  <2> HIDE DEF n
  <2> QED
    BY <1>3, <2>4, <2>5, <2>6 DEF half, k
<1>6. CASE ~ (k < 0)
  <2> DEFINE q == k \div two32
             s == k % two32
  <2>1. s \in Nat /\ s < two32 /\ q \in Int /\ k = two32 * q + s
    BY <1>0, <1>1, QuotientAndRest
  <2>2. r = s
    <3>1. two32 > 0 /\ k >= 0 /\ k \in Int
      BY <1>0, <1>1, <1>6
    <3>2. CASE k = 0
      BY <1>0, <3>2 DEF CRem, Sign
    <3>3. CASE k > 0
      BY <1>0, <3>1, <3>3 DEF CRem, Sign
    <3> QED
      BY <3>1, <3>2, <3>3
  <2> HIDE DEF q, s, r
  <2>3. n \in -half .. half - 1
    BY <1>0, <2>1, <2>2
  <2>4. \E p \in Int : n - k = two32 * p
    <3>1. CASE r >= half
      <4>1. n - k = two32 * (-1 - q) /\ -1 - q \in Int
        BY <1>0, <1>1, <2>1, <2>2, <3>1
      <4> QED
        BY <4>1
    <3>2. CASE ~ (r >= half)
      <4>1. n - k = two32 * (0 - q) /\ 0 - q \in Int
        BY <1>0, <1>1, <2>1, <2>2, <3>2
      <4> QED
        BY <4>1
    <3> QED
      BY <3>1, <3>2
  <2>5. n - k \in Int
    BY <1>0, <1>1, <1>2
  <2> HIDE DEF n
  <2>6. (n - k) % two32 = 0
    BY <1>0, <2>4, <2>5, NothingLeft
  <2> QED
    BY <1>3, <2>3, <2>6 DEF half, k
<1> QED
  BY <1>5, <1>6

LEMMA ArithmeticHolds == PrimitiveTypeOK => ArithmeticAgrees
<1> SUFFICES ASSUME PrimitiveTypeOK PROVE ArithmeticAgrees
  OBVIOUS
<1>0. v \in JSValue /\ Operands \cup {v} \subseteq JSValue
  BY StateIs, ConstantsAre
<1>1. ASSUME NEW w \in Operands \cup {v}
      PROVE  /\ ~ IS_STR(v) /\ ~ IS_STR(w) => Is(add_op(v, w), Sum2(Double(v), Double(w)))
             /\ Is(mul_op(v, w), Times(Double(v), Double(w)))
             /\ Double(w) # NAN => Is(sub_op(v, w), Sum2(Double(v), Negative(Double(w))))
             /\ IsFin(Double(v)) /\ IsFin(Double(w)) /\ Double(w) # Fin(0) =>
                  Is(mod_op(v, w), Fmod(Double(v), Double(w))) /\ Is(div_op(v, w), Over(Double(v), Double(w)))
  <2> DEFINE a == fh_to_number(v)
             b == fh_to_number(w)
             d == Double(v)
             e == Double(w)
  <2>1. /\ a \in JSNumber /\ b \in JSNumber /\ d = DoubleOf(a) /\ e = DoubleOf(b)
        /\ d \in CDouble /\ e \in CDouble
    BY <1>0, DoubleIs, DoubleOfIs
  <2>2. /\ add_op(v, w) = IF IS_STR(v) \/ IS_STR(w) THEN add_op(v, w) ELSE AddNumbers(a, b)
        /\ mul_op(v, w) = MulNumbers(a, b) /\ div_op(v, w) = DivNumbers(a, b)
        /\ sub_op(v, w) = AddNumbers(a, JSNUM(Negative(b.val)))
    BY DEF add_op, mul_op, div_op, sub_op
  <2>2a. mod_op(v, w) = IF a.is_nan \/ b.is_nan \/ IS_INF(a) \/ IS_INF(b) THEN JSNAN ELSE JSNUM(Fmod(a.val, b.val))
    BY DEF mod_op
  <2> HIDE DEF a, b, d, e
  <2>3. ~ IS_STR(v) /\ ~ IS_STR(w) => Is(add_op(v, w), Sum2(d, e))
    BY <2>1, <2>2, SumAgrees
  <2>4. Is(mul_op(v, w), Times(d, e))
    BY <2>1, <2>2, ProductAgrees
  <2>5. ASSUME e # NAN PROVE Is(sub_op(v, w), Sum2(d, Negative(e)))
    <3>1. e = b.val /\ Negative(e) \in CDouble /\ Negative(e) # NAN
      BY <2>1, <2>5, DoubleOfIs, NegativeDouble
    <3>2. JSNUM(Negative(e)) \in JSNumber /\ DoubleOf(JSNUM(Negative(e))) = Negative(e)
      BY <3>1, NumberIs DEF DoubleOf
    <3> QED
      BY <2>1, <2>2, <3>1, <3>2, SumAgrees
  <2>6. ASSUME IsFin(d), IsFin(e), e # Fin(0)
        PROVE  Is(mod_op(v, w), Fmod(d, e)) /\ Is(div_op(v, w), Over(d, e))
    <3>1. /\ ~ a.is_nan /\ ~ b.is_nan /\ d = a.val /\ e = b.val
      BY <2>1, <2>6, DoubleOfIs, Specials
    <3>2. ~ IS_INF(a) /\ ~ IS_INF(b)
      BY <2>1, <2>6, <3>1, NumberHas, Specials
    <3>3. mod_op(v, w) = JSNUM(Fmod(d, e)) /\ div_op(v, w) = JSNUM(Over(d, e))
      BY <2>2, <2>2a, <2>6, <3>1, <3>2 DEF DivNumbers
    <3> QED
      BY <2>1, <3>3, IsItself, RemainderDouble, QuotientDouble
  <2> QED
    BY <2>3, <2>4, <2>5, <2>6 DEF d, e
<1>2. IsFin(Double(v)) /\ Double(v)[2] >= -two32 \div 2 =>
        /\ fh_to_int32(v).val[2] \in -(two32 \div 2) .. two32 \div 2 - 1
        /\ (fh_to_int32(v).val[2] - Double(v)[2]) % two32 = 0
  BY <1>0, WordsWrap
<1> QED
  BY <1>1, <1>2 DEF ArithmeticAgrees

-----------------------------------------------------------------------------
(* Comparisons.                                                            *)

LEMMA PlacesInOrder ==
  ASSUME NEW c \in Character, NEW d \in Character
  PROVE  c # d => (Before(c, d, Collation) <=> ~ Before(d, c, Collation))
<1> DEFINE m == CHOOSE i \in DOMAIN Collation : Collation[i] = c
           n == CHOOSE i \in DOMAIN Collation : Collation[i] = d
<1>1. m \in DOMAIN Collation /\ Collation[m] = c /\ n \in DOMAIN Collation /\ Collation[n] = d
  BY DEF Character, ToSet
<1>2. DOMAIN Collation \subseteq Int
  BY CollationIs
<1>3. (Before(c, d, Collation) <=> m < n) /\ (Before(d, c, Collation) <=> n < m)
  BY DEF Before
<1> HIDE DEF m, n
<1> QED
  BY <1>1, <1>2, <1>3

LEMMA NotBeforeItself ==
  ASSUME NEW c \in Character
  PROVE  ~ Before(c, c, Collation)
<1> DEFINE m == CHOOSE i \in DOMAIN Collation : Collation[i] = c
<1>1. m \in DOMAIN Collation
  BY DEF Character, ToSet
<1>2. Before(c, c, Collation) <=> m < m
  BY DEF Before
<1> HIDE DEF m
<1> QED
  BY <1>1, <1>2, CollationIs

LEMMA FirstDifferenceDecides ==
  ASSUME NEW s \in Text, NEW t \in Text, NEW i, Agree(s, t, i), Parted(s, t, i)
  PROVE  /\ strcmp_less(s, t) <=> i < Len(t) /\ (i < Len(s) => Before(s[i + 1], t[i + 1], Collation))
         /\ s = t <=> i = Len(s) /\ i = Len(t)
<1>1. Len(s) \in Nat /\ Len(t) \in Nat /\ i \in Nat /\ i <= Len(s) /\ i <= Len(t)
      /\ \A j \in 1 .. i : s[j] = t[j]
  BY TextHas DEF Agree
<1>2. ASSUME i < Len(t), i < Len(s) => Before(s[i + 1], t[i + 1], Collation)
      PROVE  strcmp_less(s, t)
  <2>1. i \in 0 .. Len(s) /\ \A j \in 1 .. i : j <= Len(t) /\ s[j] = t[j]
    BY <1>1
  <2> QED
    BY <1>2, <2>1 DEF strcmp_less
<1>3. ASSUME strcmp_less(s, t)
      PROVE  i < Len(t) /\ (i < Len(s) => Before(s[i + 1], t[i + 1], Collation))
  <2>1. PICK k \in 0 .. Len(s) :
          /\ \A j \in 1 .. k : j <= Len(t) /\ s[j] = t[j]
          /\ k < Len(t)
          /\ k < Len(s) => Before(s[k + 1], t[k + 1], Collation)
    BY <1>3 DEF strcmp_less
  <2>2. k \in Int
    BY <1>1
  <2>3. ~ (k < i)
    <3> SUFFICES ASSUME k < i PROVE FALSE
      OBVIOUS
    <3>1. k + 1 \in 1 .. i /\ k < Len(s) /\ k + 1 \in 1 .. Len(s)
      BY <1>1, <2>1, <2>2
    <3>2. s[k + 1] = t[k + 1] /\ s[k + 1] \in Character
      BY <1>1, <3>1, TextHas
    <3> QED
      BY <2>1, <3>1, <3>2, NotBeforeItself
  <2>4. ~ (i < k)
    <3> SUFFICES ASSUME i < k PROVE FALSE
      OBVIOUS
    <3>1. i + 1 \in 1 .. k /\ i # Len(s)
      BY <1>1, <2>1, <2>2
    <3>2. i + 1 <= Len(t) /\ s[i + 1] = t[i + 1]
      BY <2>1, <3>1
    <3> QED
      BY <1>1, <3>1, <3>2 DEF Parted
  <2>5. k = i
    BY <1>1, <2>2, <2>3, <2>4
  <2> QED
    BY <2>1, <2>5
<1>4. ASSUME i = Len(s), i = Len(t) PROVE s = t
  <2>1. s \in [1 .. i -> Character] /\ t \in [1 .. i -> Character]
    BY <1>4, TextHas
  <2> QED
    BY <1>1, <2>1
<1>5. ASSUME s = t PROVE i = Len(s) /\ i = Len(t)
  BY <1>1, <1>5 DEF Parted
<1> QED
  BY <1>2, <1>3, <1>4, <1>5

(* Of two texts, one is before the other, unless they are equal. *)
LEMMA TextsOrdered ==
  ASSUME NEW s \in Text, NEW t \in Text
  PROVE  /\ strcmp_less(s, t) \in BOOLEAN
         /\ s # t => (strcmp_less(s, t) <=> ~ strcmp_less(t, s))
         /\ s = t => ~ strcmp_less(s, t)
<1>1. Len(s) \in Nat /\ Len(t) \in Nat
  BY TextHas
<1>2. PICK i : Agree(s, t, i) /\ Parted(s, t, i)
  BY FirstDifference DEF Text
<1>3. Agree(t, s, i) /\ Parted(t, s, i) /\ i \in Nat /\ i <= Len(s) /\ i <= Len(t)
  BY <1>2 DEF Agree, Parted
<1>4. /\ strcmp_less(s, t) <=> i < Len(t) /\ (i < Len(s) => Before(s[i + 1], t[i + 1], Collation))
      /\ strcmp_less(t, s) <=> i < Len(s) /\ (i < Len(t) => Before(t[i + 1], s[i + 1], Collation))
      /\ s = t <=> i = Len(s) /\ i = Len(t)
  BY <1>2, <1>3, FirstDifferenceDecides
<1>5. strcmp_less(s, t) \in BOOLEAN
  BY DEF strcmp_less
<1>6. CASE i = Len(s) \/ i = Len(t)
  BY <1>1, <1>3, <1>4, <1>5, <1>6
<1>7. CASE i < Len(s) /\ i < Len(t)
  <2>1. s[i + 1] \in Character /\ t[i + 1] \in Character
    <3>1. i + 1 \in 1 .. Len(s) /\ i + 1 \in 1 .. Len(t)
      BY <1>1, <1>3, <1>7
    <3> QED
      BY <3>1, TextHas
  <2>2. s[i + 1] # t[i + 1] /\ s # t
    BY <1>1, <1>2, <1>3, <1>4, <1>7 DEF Parted
  <2>3. Before(s[i + 1], t[i + 1], Collation) <=> ~ Before(t[i + 1], s[i + 1], Collation)
    BY <2>1, <2>2, PlacesInOrder
  <2> QED
    BY <1>4, <1>5, <1>7, <2>2, <2>3
<1> QED
  BY <1>1, <1>3, <1>6, <1>7

LEMMA DoublesOrdered ==
  ASSUME NEW d \in CDouble, NEW e \in CDouble, IsFin(d), IsFin(e)
  PROVE  (Less(d, e) <=> d[2] < e[2]) /\ d[2] \in Int /\ e[2] \in Int /\ (d = e <=> d[2] = e[2])
BY DoubleCases, Specials, FinSame DEF Less

LEMMA NumbersOrdered ==
  ASSUME NEW a \in JSNumber, NEW b \in JSNumber
  PROVE  IF a.is_nan \/ b.is_nan
         THEN LessNumbers(a, b) = {} /\ LessNumbers(b, a) = {} /\ ~ EqNumbers(a, b) /\ ~ EqNumbers(b, a)
         ELSE /\ EqNumbers(a, b) = (a.val = b.val) /\ EqNumbers(b, a) = (a.val = b.val)
              /\ a.val = b.val => LessNumbers(a, b) = {FALSE} /\ LessNumbers(b, a) = {FALSE}
              /\ a.val # b.val =>
                   \E less \in BOOLEAN : LessNumbers(a, b) = {less} /\ LessNumbers(b, a) = {~ less}
<1>1. CASE a.is_nan \/ b.is_nan
  BY <1>1 DEF LessNumbers, EqNumbers
<1>2. CASE ~ a.is_nan /\ ~ b.is_nan
  <2>1. EqNumbers(a, b) = (a.val = b.val) /\ EqNumbers(b, a) = (a.val = b.val)
    BY <1>2 DEF EqNumbers
  <2>2. a.val = b.val => LessNumbers(a, b) = {FALSE} /\ LessNumbers(b, a) = {FALSE}
    BY <1>2 DEF LessNumbers
  <2>3. ASSUME a.val # b.val
        PROVE  \E less \in BOOLEAN : LessNumbers(a, b) = {less} /\ LessNumbers(b, a) = {~ less}
    <3>0. /\ a.val \in CDouble /\ b.val \in CDouble
          /\ (IS_INF(a) <=> a.val \in {INF, NINF}) /\ (IS_INF(b) <=> b.val \in {INF, NINF})
      BY NumberHas
    <3>1. CASE IS_INF(a) /\ ~ IS_NEG(a)
      <4>1. LessNumbers(a, b) = {FALSE}
        BY <1>2, <2>3, <3>1 DEF LessNumbers
      <4>2. LessNumbers(b, a) = {TRUE}
        BY <1>2, <2>3, <3>0, <3>1, Specials DEF LessNumbers, IS_NEG
      <4> QED
        BY <4>1, <4>2
    <3>2. CASE IS_INF(b) /\ ~ IS_NEG(b)
      <4>1. LessNumbers(b, a) = {FALSE}
        BY <1>2, <2>3, <3>2 DEF LessNumbers
      <4>2. LessNumbers(a, b) = {TRUE}
        BY <1>2, <2>3, <3>0, <3>2, Specials DEF LessNumbers, IS_NEG
      <4> QED
        BY <4>1, <4>2
    <3>3. CASE IS_INF(a) /\ IS_NEG(a) /\ ~ IS_INF(b)
      <4>1. LessNumbers(a, b) = {TRUE}
        BY <1>2, <2>3, <3>3 DEF LessNumbers
      <4>2. LessNumbers(b, a) = {FALSE}
        BY <1>2, <2>3, <3>3 DEF LessNumbers
      <4> QED
        BY <4>1, <4>2
    <3>4. CASE IS_INF(b) /\ IS_NEG(b) /\ ~ IS_INF(a)
      <4>1. LessNumbers(b, a) = {TRUE}
        BY <1>2, <2>3, <3>4 DEF LessNumbers
      <4>2. LessNumbers(a, b) = {FALSE}
        BY <1>2, <2>3, <3>4 DEF LessNumbers
      <4> QED
        BY <4>1, <4>2
    <3>5. CASE ~ IS_INF(a) /\ ~ IS_INF(b)
      <4>1. LessNumbers(a, b) = {Less(a.val, b.val)} /\ LessNumbers(b, a) = {Less(b.val, a.val)}
        BY <1>2, <2>3, <3>5 DEF LessNumbers
      <4>2. IsFin(a.val) /\ IsFin(b.val)
        BY <1>2, <3>5, FiniteHas
      <4>3. /\ (Less(a.val, b.val) <=> ~ Less(b.val, a.val))
            /\ Less(a.val, b.val) \in BOOLEAN /\ Less(b.val, a.val) \in BOOLEAN
        <5>1. Less(a.val, b.val) <=> ~ Less(b.val, a.val)
          BY <2>3, <3>0, <4>2, DoublesOrdered
        <5> QED
          BY <5>1 DEF Less
      <4> QED
        BY <4>1, <4>3
    <3> QED
      BY <2>3, <3>0, <3>1, <3>2, <3>3, <3>4, <3>5 DEF IS_NEG
  <2> QED
    BY <1>2, <2>1, <2>2, <2>3
<1> QED
  BY <1>1, <1>2

LEMMA NumberOfBoolean ==
  ASSUME NEW w, w.type = "boolean"
  PROVE  fh_to_number(w) = Num(IF w.bool THEN 1 ELSE 0)
BY DEF fh_to_number, IS_STR

(* Comparing two booleans is comparing their numbers. *)
LEMMA EqualByNumbers ==
  ASSUME NEW a \in JSValue, NEW b \in JSValue, Ordered(a), Ordered(b), ~ (IS_STR(a) /\ IS_STR(b))
  PROVE  eq_op(a, b, FALSE) = EqNumbers(fh_to_number(a), fh_to_number(b))
<1>0. a.type \in {"boolean", "number", "string"} /\ b.type \in {"boolean", "number", "string"}
  BY DEF Ordered
<1>1. CASE a.type # b.type
  <2>1. {a.type, b.type} \cap {"undefined", "null"} = {}
    BY <1>0
  <2> QED
    BY <1>1, <2>1 DEF eq_op, EqNumbers
<1>2. CASE a.type = "number" /\ b.type = "number"
  BY <1>2, ToNumber DEF eq_op, IS_NUM, IS_STR
<1>3. CASE a.type = "boolean" /\ b.type = "boolean"
  <2>1. a.bool \in BOOLEAN /\ b.bool \in BOOLEAN
    BY <1>3, ValueCases
  <2>2. eq_op(a, b, FALSE) = (a.bool = b.bool)
    BY <1>3 DEF eq_op, IS_NUM, IS_STR
  <2>3. /\ fh_to_number(a) = Num(IF a.bool THEN 1 ELSE 0)
        /\ fh_to_number(b) = Num(IF b.bool THEN 1 ELSE 0)
    BY <1>3, NumberOfBoolean
  <2>4. Num(0).val # Num(1).val /\ ~ Num(0).is_nan /\ ~ Num(1).is_nan
    BY NumIs, FinSame
  <2> QED
    BY <2>1, <2>2, <2>3, <2>4 DEF EqNumbers
<1>4. CASE a.type = "string" /\ b.type = "string"
  BY <1>4 DEF IS_STR
<1> QED
  BY <1>0, <1>1, <1>2, <1>3, <1>4

LEMMA TrueOrFalse ==
  /\ TRUE \in {TRUE} /\ TRUE \notin {FALSE} /\ TRUE \notin {}
  /\ {TRUE} # {FALSE} /\ {} # {FALSE}
OBVIOUS

(* What the four comparisons and equality answer, by the answers of        *)
(* abstr_rel_comp forth and back.                                          *)
Consistent(forth, back, nan, equal) ==
  IF nan THEN ~ equal /\ TRUE \notin forth /\ forth # {FALSE} /\ back # {FALSE}
  ELSE /\ (back = {FALSE}) = (TRUE \in forth \/ equal)
       /\ (TRUE \in back) = (back # {FALSE})
       /\ equal => TRUE \notin forth

LEMMA ConsistentIs ==
  ASSUME NEW forth, NEW back, NEW nan, NEW equal \in BOOLEAN,
         \/ nan /\ forth = {} /\ back = {} /\ ~ equal
         \/ ~ nan /\ equal /\ forth = {FALSE} /\ back = {FALSE}
         \/ ~ nan /\ ~ equal /\ forth = {TRUE} /\ back = {FALSE}
         \/ ~ nan /\ ~ equal /\ forth = {FALSE} /\ back = {TRUE}
  PROVE  Consistent(forth, back, nan, equal)
<1>1. CASE nan /\ forth = {} /\ back = {} /\ ~ equal
  BY <1>1, TrueOrFalse DEF Consistent
<1>2. CASE ~ nan /\ equal /\ forth = {FALSE} /\ back = {FALSE}
  <2>1. TRUE \notin forth /\ TRUE \notin back /\ back = {FALSE}
    BY <1>2, TrueOrFalse
  <2> QED
    BY <1>2, <2>1 DEF Consistent
<1>3. CASE ~ nan /\ ~ equal /\ forth = {TRUE} /\ back = {FALSE}
  <2>1. TRUE \in forth /\ TRUE \notin back /\ back = {FALSE}
    BY <1>3, TrueOrFalse
  <2> QED
    BY <1>3, <2>1 DEF Consistent
<1>4. CASE ~ nan /\ ~ equal /\ forth = {FALSE} /\ back = {TRUE}
  <2>1. TRUE \notin forth /\ TRUE \in back /\ back # {FALSE}
    BY <1>4, TrueOrFalse
  <2> QED
    BY <1>4, <2>1 DEF Consistent
<1> QED
  BY <1>1, <1>2, <1>3, <1>4

LEMMA OrderHolds == PrimitiveTypeOK => OrderAgrees
<1> SUFFICES ASSUME PrimitiveTypeOK, NEW w \in Operands \cup {v}, Ordered(v), Ordered(w)
             PROVE  LET texts == IS_STR(v) /\ IS_STR(w)
                        nan   == ~texts /\ NAN \in {Double(v), Double(w)}
                        equal == eq_op(v, w, FALSE)
                    IN  /\ equal = eq_op(w, v, FALSE)
                        /\ lt_op(v, w, FALSE) = gt_op(w, v, FALSE) /\ lt_op(v, w, TRUE) = gt_op(w, v, TRUE)
                        /\ IF nan THEN ~(equal \/ lt_op(v, w, FALSE) \/ lt_op(v, w, TRUE) \/ gt_op(v, w, TRUE))
                           ELSE /\ lt_op(v, w, TRUE) = (lt_op(v, w, FALSE) \/ equal)
                                /\ gt_op(v, w, FALSE) = ~lt_op(v, w, TRUE)
                                /\ equal => ~lt_op(v, w, FALSE)
  BY DEF OrderAgrees
<1> DEFINE texts == IS_STR(v) /\ IS_STR(w)
           nan   == ~ texts /\ NAN \in {Double(v), Double(w)}
           equal == eq_op(v, w, FALSE)
           forth == abstr_rel_comp(v, w)
           back  == abstr_rel_comp(w, v)
<1>0. v \in JSValue /\ w \in JSValue
  BY StateIs, ConstantsAre
<1>1. /\ lt_op(v, w, FALSE) = (TRUE \in forth) /\ gt_op(w, v, FALSE) = (TRUE \in forth)
      /\ lt_op(v, w, TRUE) = (back = {FALSE}) /\ gt_op(w, v, TRUE) = (back = {FALSE})
      /\ gt_op(v, w, TRUE) = (forth = {FALSE}) /\ gt_op(v, w, FALSE) = (TRUE \in back)
  BY DEF lt_op, gt_op
<1>2. equal = eq_op(w, v, FALSE) /\ equal \in BOOLEAN /\ Consistent(forth, back, nan, equal)
  <2>1. CASE texts
    <3>1. v.ptr \in Text /\ w.ptr \in Text /\ v.type = "string" /\ w.type = "string"
      BY <1>0, <2>1, ValueCases, StringHas
    <3>2. equal = (v.ptr = w.ptr) /\ eq_op(w, v, FALSE) = (v.ptr = w.ptr)
      BY <3>1 DEF eq_op, IS_NUM, IS_STR
    <3>3. forth = {strcmp_less(v.ptr, w.ptr)} /\ back = {strcmp_less(w.ptr, v.ptr)}
      BY <2>1 DEF abstr_rel_comp
    <3>4. /\ strcmp_less(v.ptr, w.ptr) \in BOOLEAN /\ strcmp_less(w.ptr, v.ptr) \in BOOLEAN
          /\ v.ptr # w.ptr => (strcmp_less(v.ptr, w.ptr) <=> ~ strcmp_less(w.ptr, v.ptr))
          /\ v.ptr = w.ptr => ~ strcmp_less(v.ptr, w.ptr) /\ ~ strcmp_less(w.ptr, v.ptr)
      BY <3>1, TextsOrdered
    <3>5. ~ nan
      BY <2>1
    <3> HIDE DEF forth, back, equal, nan
    <3>6. \/ equal /\ forth = {FALSE} /\ back = {FALSE}
          \/ ~ equal /\ forth = {TRUE} /\ back = {FALSE}
          \/ ~ equal /\ forth = {FALSE} /\ back = {TRUE}
      BY <3>2, <3>3, <3>4
    <3> QED
      BY <3>2, <3>5, <3>6, ConsistentIs
  <2>2. CASE ~ texts
    <3> DEFINE m == fh_to_number(v)
               n == fh_to_number(w)
    <3>1. m \in JSNumber /\ n \in JSNumber
      BY <1>0, ToNumber
    <3>2. equal = EqNumbers(m, n) /\ eq_op(w, v, FALSE) = EqNumbers(n, m)
      BY <1>0, <2>2, EqualByNumbers
    <3>3. forth = LessNumbers(m, n) /\ back = LessNumbers(n, m)
      BY <2>2 DEF abstr_rel_comp
    <3>4. nan <=> m.is_nan \/ n.is_nan
      BY <1>0, <2>2, DoubleIs, DoubleOfIs
    <3> HIDE DEF forth, back, equal, nan, m, n
    <3>5. equal \in BOOLEAN /\ equal = eq_op(w, v, FALSE)
      BY <3>2 DEF EqNumbers
    <3>6. \/ nan /\ forth = {} /\ back = {} /\ ~ equal
          \/ ~ nan /\ equal /\ forth = {FALSE} /\ back = {FALSE}
          \/ ~ nan /\ ~ equal /\ forth = {TRUE} /\ back = {FALSE}
          \/ ~ nan /\ ~ equal /\ forth = {FALSE} /\ back = {TRUE}
      BY <3>1, <3>2, <3>3, <3>4, NumbersOrdered
    <3> QED
      BY <3>5, <3>6, ConsistentIs, ZenonT(60)
  <2> QED
    BY <2>1, <2>2
<1>3. CASE nan
  <2>1. ~ equal /\ TRUE \notin forth /\ forth # {FALSE} /\ back # {FALSE}
    BY <1>2, <1>3 DEF Consistent
  <2> HIDE DEF forth, back
  <2> QED
    BY <1>1, <1>2, <1>3, <2>1
<1>4. CASE ~ nan
  <2>1. /\ (back = {FALSE}) = (TRUE \in forth \/ equal)
        /\ (TRUE \in back) = (back # {FALSE})
        /\ equal => TRUE \notin forth
    BY <1>2, <1>4 DEF Consistent
  <2> HIDE DEF forth, back
  <2> QED
    BY <1>1, <1>2, <1>4, <2>1
<1> QED
  BY <1>3, <1>4

(* Whatever a script has made of its variable, operators answer what C's   *)
(* arithmetic does on it and comparisons order it (eval.c, flathead.c).    *)
THEOREM OperatorsCorrect == PrimitiveSpec => []OperatorsAgree
<1>1. PrimitiveTypeOK => OperatorsAgree
  BY ArithmeticHolds, OrderHolds DEF OperatorsAgree
<1> QED
  BY <1>1, PrimitiveTypeCorrect, PTL

-----------------------------------------------------------------------------
(* Pieces of a string.                                                      *)

(* The characters at the positions of an interval are a part of the text.  *)
LEMMA KeptInterval ==
  ASSUME NEW s \in Text, NEW P, NEW x \in Int, NEW y \in Int, 0 <= x, x <= y, y <= Len(s),
         P \cap 0 .. Len(s) - 1 = x .. y - 1
  PROVE  Kept(s, P) = SubSeq(s, x + 1, y)
<1> DEFINE at == P \cap 0 .. Len(s) - 1
           place(n) == CHOOSE p \in at : Cardinality({q \in at : q < p}) = n - 1
           part == SubSeq(s, x + 1, y)
           m == y - x
<1>1. Len(s) \in Nat /\ m \in Nat /\ x + 1 \in Int /\ 1 <= x + 1 /\ at = x .. y - 1
  BY TextHas
<1>2. part \in Text /\ Len(part) = m /\ \A n \in 1 .. m : part[n] = s[x + n]
  <2>1. /\ part \in Text
        /\ Len(part) = IF x + 1 <= y THEN y - (x + 1) + 1 ELSE 0
        /\ \A n \in 1 .. y - (x + 1) + 1 : part[n] = s[(x + 1) + n - 1]
    BY <1>1, PartOfText
  <2> HIDE DEF part
  <2>2. y - (x + 1) + 1 = m /\ (~ (x + 1 <= y) => m = 0) /\ \A n \in 1 .. m : (x + 1) + n - 1 = x + n
    BY <1>1
  <2> HIDE DEF m
  <2> QED
    BY <2>1, <2>2
<1>3. Cardinality(at) = m
  <2>1. Cardinality(x .. y - 1) = IF x > y - 1 THEN 0 ELSE y - 1 - x + 1
    BY FS_Interval
  <2>2. (IF x > y - 1 THEN 0 ELSE y - 1 - x + 1) = m
    OBVIOUS
  <2> HIDE DEF at, m
  <2> QED
    BY <1>1, <2>1, <2>2
<1>4. ASSUME NEW n \in 1 .. m PROVE place(n) = x + n - 1
  <2>1. ASSUME NEW p \in at PROVE Cardinality({q \in at : q < p}) = p - x
    <3>1. p \in Int /\ x <= p /\ p <= y - 1 /\ p - 1 \in Int
      BY <1>1, <2>1
    <3>2. {q \in at : q < p} = x .. p - 1
      BY <1>1, <3>1
    <3>3. Cardinality(x .. p - 1) = IF x > p - 1 THEN 0 ELSE p - 1 - x + 1
      BY <3>1, FS_Interval
    <3>4. (IF x > p - 1 THEN 0 ELSE p - 1 - x + 1) = p - x
      BY <3>1
    <3> DEFINE below == {q \in at : q < p}
    <3>5. below = x .. p - 1
      BY <3>2
    <3> HIDE DEF below
    <3>6. Cardinality(below) = p - x
      BY <3>3, <3>4, <3>5
    <3> QED
      BY <3>6 DEF below
  <2>2. x + n - 1 \in at
    BY <1>1
  <2>3. \A p \in at : p - x = n - 1 <=> p = x + n - 1
    BY <1>1
  <2>4. \A p \in at : Cardinality({q \in at : q < p}) = n - 1 <=> p = x + n - 1
    BY <2>1, <2>3
  <2> HIDE DEF at
  <2> QED
    BY <2>2, <2>4
<1>5. Kept(s, P) = [n \in 1 .. Cardinality(at) |-> At(s, place(n))]
  BY DEF Kept
<1> HIDE DEF place
<1>6. Kept(s, P) = [n \in 1 .. m |-> s[x + n]]
  <2>1. \A n \in 1 .. m : At(s, place(n)) = s[x + n]
    <3> SUFFICES ASSUME NEW n \in 1 .. m PROVE At(s, place(n)) = s[x + n]
      OBVIOUS
    <3>1. place(n) + 1 = x + n
      BY <1>1, <1>4
    <3> QED
      BY <3>1 DEF At
  <2> HIDE DEF m, at
  <2> QED
    BY <1>3, <1>5, <2>1
<1>7. part = [n \in 1 .. m |-> part[n]]
  <2> HIDE DEF part, m
  <2> QED
    BY <1>2, TextHas
<1> HIDE DEF m, part
<1> QED
  BY <1>2, <1>6, <1>7 DEF part

LEMMA NothingKept ==
  ASSUME NEW s \in Text, NEW P, P \cap 0 .. Len(s) - 1 = {}
  PROVE  Kept(s, P) = <<>>
<1>1. Len(s) \in Nat
  BY TextHas
<1>2. P \cap 0 .. Len(s) - 1 = 0 .. 0 - 1
  BY <1>1
<1>3. Kept(s, P) = SubSeq(s, 0 + 1, 0)
  BY <1>1, <1>2, KeptInterval
<1>4. SubSeq(s, 0 + 1, 0) \in Text /\ Len(SubSeq(s, 0 + 1, 0)) = 0
  BY <1>1, PartOfText
<1> QED
  BY <1>3, <1>4, EmptySeq DEF Text

(* A part between two places of the text. *)
LEMMA PartKept ==
  ASSUME NEW s \in Text, NEW P, NEW x \in Int, NEW y \in Int, 0 <= x, x <= y, y <= Len(s),
         P \cap 0 .. Len(s) - 1 = x .. y - 1
  PROVE  fh_str_slice(s, x, y) = JSSTR(Kept(s, P))
<1>1. ~ (x < 0) /\ ~ (x > y) /\ ~ (y > Len(s))
  BY TextHas
<1>2. Kept(s, P) = SubSeq(s, x + 1, y)
  BY KeptInterval
<1> QED
  BY <1>1, <1>2 DEF fh_str_slice

LEMMA FromEndIs ==
  ASSUME NEW i \in Int, NEW n \in Nat
  PROVE  FromEnd(i, n) \in Nat /\ FromEnd(i, n) = IF i < 0 THEN MaxOf(n + i, 0) ELSE i
BY DEF FromEnd, MaxOf

LEMMA SliceHolds ==
  ASSUME NEW w \in JSString, NEW i \in Int, NEW j \in Int
  PROVE  LET s == w.ptr
             a == FromEnd(i, Len(s))
             b == FromEnd(j, Len(s))
         IN  slice(w, i, j) = IF a > MinOf(b, Len(s)) THEN NoText ELSE JSSTR(Kept(s, a .. b - 1))
<1> DEFINE s == w.ptr
           len == Len(s)
           a == FromEnd(i, len)
           b == FromEnd(j, len)
           c == MinOf(b, len)
<1>0. s \in Text /\ len \in Nat
  BY StringHas, TextHas
<1>1. a \in Nat /\ b \in Nat
  BY <1>0, FromEndIs
<1>2. slice(w, i, j) = IF a = c THEN JSSTR(<<>>) ELSE fh_str_slice(s, a, c)
  BY DEF slice, FromEnd, MinOf, MaxOf
<1> HIDE DEF a, b
<1>3. c \in Nat /\ c <= len /\ c <= b /\ (c = len \/ c = b)
  BY <1>0, <1>1 DEF MinOf
<1> HIDE DEF c, s, len
<1>4. CASE a > c
  BY <1>1, <1>2, <1>3, <1>4 DEF fh_str_slice, c, s, len, a, b
<1>5. CASE a <= c
  <2>1. (a .. b - 1) \cap 0 .. len - 1 = a .. c - 1
    BY <1>0, <1>1, <1>3
  <2>2. fh_str_slice(s, a, c) = JSSTR(Kept(s, a .. b - 1))
    BY <1>0, <1>1, <1>3, <1>5, <2>1, PartKept DEF len
  <2>3. a = c => Kept(s, a .. b - 1) = <<>>
    <3> SUFFICES ASSUME a = c PROVE Kept(s, a .. b - 1) = <<>>
      OBVIOUS
    <3>1. (a .. b - 1) \cap 0 .. len - 1 = {}
      BY <1>1, <2>1
    <3> QED
      BY <1>0, <3>1, NothingKept DEF len
  <2>4. slice(w, i, j) = JSSTR(Kept(s, a .. b - 1)) /\ ~ (a > c)
    BY <1>1, <1>2, <1>3, <1>5, <2>2, <2>3
  <2> QED
    BY <2>4 DEF c, s, len, a, b
<1> QED
  BY <1>1, <1>3, <1>4, <1>5

LEMMA SubstrHolds ==
  ASSUME NEW w \in JSString, NEW i \in Int, NEW j \in Int, w.length = Len(w.ptr)
  PROVE  LET s == w.ptr
             a == FromEnd(i, Len(s))
         IN  substr(w, i, j) = JSSTR(Kept(s, a .. a + j - 1))
<1> DEFINE s == w.ptr
           len == Len(s)
           a == FromEnd(i, len)
           c == MinOf(len, a + j)
<1>0. s \in Text /\ len \in Nat /\ w.length = len
  BY StringHas, TextHas
<1>1. a \in Nat
  BY <1>0, FromEndIs
<1>2. substr(w, i, j) = IF MinOf(MaxOf(j, 0), len - a) <= 0 THEN JSSTR(<<>>) ELSE fh_str_slice(s, a, c)
  <2>1. a = IF i < 0 THEN MaxOf(i + len, 0) ELSE i
    BY <1>0 DEF FromEnd
  <2> HIDE DEF a, len
  <2> QED
    BY <1>0, <2>1 DEF substr
<1> HIDE DEF a
<1>3. MinOf(MaxOf(j, 0), len - a) <= 0 <=> j <= 0 \/ len <= a
  BY <1>0, <1>1 DEF MinOf, MaxOf
<1>4. CASE j <= 0 \/ len <= a
  <2>1. (a .. a + j - 1) \cap 0 .. len - 1 = {}
    BY <1>0, <1>1, <1>4
  <2> HIDE DEF s, len
  <2>2. Kept(s, a .. a + j - 1) = <<>>
    BY <1>0, <2>1, NothingKept DEF len
  <2> QED
    BY <1>2, <1>3, <1>4, <2>2 DEF s, len, a
<1>5. CASE ~ (j <= 0 \/ len <= a)
  <2>1. c \in Int /\ a <= c /\ c <= len /\ (c = len \/ c = a + j) /\ c <= a + j
    BY <1>0, <1>1, <1>5 DEF MinOf
  <2> HIDE DEF c, s, len
  <2>2. (a .. a + j - 1) \cap 0 .. len - 1 = a .. c - 1
    BY <1>0, <1>1, <2>1
  <2>3. fh_str_slice(s, a, c) = JSSTR(Kept(s, a .. a + j - 1))
    BY <1>0, <1>1, <2>1, <2>2, PartKept DEF len
  <2> QED
    BY <1>2, <1>3, <1>5, <2>3 DEF s, len, a
<1> QED
  BY <1>4, <1>5

LEMMA SubstringHolds ==
  ASSUME NEW w \in JSString, NEW i \in Int, NEW j \in Int, w.length = Len(w.ptr)
  PROVE  substring(w, i, j) = JSSTR(Kept(w.ptr, i .. j - 1 \cup j .. i - 1))
<1> DEFINE s == w.ptr
           len == Len(s)
           a == MinOf(MaxOf(i, 0), len)
           b == MinOf(MaxOf(j, 0), len)
           x == MinOf(a, b)
           y == MaxOf(a, b)
           P == i .. j - 1 \cup j .. i - 1
<1>0. s \in Text /\ len \in Nat /\ w.length = len
  BY StringHas, TextHas
<1>1. substring(w, i, j) = fh_str_slice(s, x, y)
  <2> HIDE DEF len
  <2> QED
    BY <1>0 DEF substring
<1> HIDE DEF s, len
<1>2. a = (IF i < 0 THEN 0 ELSE IF i < len THEN i ELSE len) /\ b = (IF j < 0 THEN 0 ELSE IF j < len THEN j ELSE len)
  BY <1>0 DEF MinOf, MaxOf
<1>3. a \in Int /\ b \in Int
  BY <1>0, <1>2
<1> HIDE DEF a, b
<1>4. x = (IF a < b THEN a ELSE b) /\ y = (IF a < b THEN b ELSE a)
  BY <1>3 DEF MinOf, MaxOf
<1> HIDE DEF x, y
<1>5. x \in Int /\ y \in Int /\ 0 <= x /\ x <= y /\ y <= len
  BY <1>0, <1>2, <1>3, <1>4
<1>6. P \cap 0 .. len - 1 = x .. y - 1
  <2>1. ASSUME NEW k \in Int
        PROVE  k \in P /\ 0 <= k /\ k <= len - 1 <=> x <= k /\ k <= y - 1
    <3>1. CASE i <= j
      BY <1>0, <1>2, <1>4, <3>1
    <3>2. CASE j <= i
      BY <1>0, <1>2, <1>4, <3>2
    <3> QED
      BY <3>1, <3>2
  <2> HIDE DEF P
  <2> QED
    BY <1>0, <1>5, <2>1
<1> HIDE DEF P
<1>7. fh_str_slice(s, x, y) = JSSTR(Kept(s, P))
  BY <1>0, <1>5, <1>6, PartKept DEF len
<1> QED
  BY <1>1, <1>7 DEF s, P

(* Whatever a script has made of its variable, slice, substr and substring *)
(* answer the characters between their bounds, as long as the cached       *)
(* length of the string is right (String.c:303-318, 425-458).              *)
THEOREM SlicesCorrect == PrimitiveSpec => []SlicesAgree
<1>1. PrimitiveTypeOK => SlicesAgree
  <2> SUFFICES ASSUME PrimitiveTypeOK, IS_STR(v), v.length = Len(v.ptr), NEW i \in Indices, NEW j \in Indices
               PROVE  LET s == v.ptr
                          a == FromEnd(i, Len(s))
                          b == FromEnd(j, Len(s))
                      IN  /\ slice(v, i, j) = IF a > MinOf(b, Len(s)) THEN NoText ELSE JSSTR(Kept(s, a .. b - 1))
                          /\ substr(v, i, j) = JSSTR(Kept(s, a .. a + j - 1))
                          /\ substring(v, i, j) = JSSTR(Kept(s, i .. j - 1 \cup j .. i - 1))
    BY DEF SlicesAgree
  <2>1. v \in JSString /\ i \in Int /\ j \in Int
    BY StateIs, ConstantsAre
  <2> QED
    BY <2>1, SliceHolds, SubstrHolds, SubstringHolds
<1> QED
  BY <1>1, PrimitiveTypeCorrect, PTL

-----------------------------------------------------------------------------
(* Lengths.                                                                *)

LEMMA AssignMade ==
  ASSUME NEW w, w = NoText \/ w \in JSNumber \/ w \in MadeString \/ ~ IS_STR(w), Assign(w)
  PROVE  IS_STR(v') => v' \in MadeString
<1>1. CASE w = NoText
  BY <1>1, OthersHave DEF Assign, Stops, IS_STR
<1>2. CASE w # NoText
  BY <1>2, NumberHas DEF Assign
<1> QED
  BY <1>1, <1>2

LEMMA TextsAreMade ==
  ASSUME NEW a \in JSValue, NEW b \in JSValue
  PROVE  /\ HasText(a) => fh_to_string(a) \in MadeString \/ fh_to_string(a) = a
         /\ Addable(a, b) => add_op(a, b) \in JSNumber \cup MadeString
<1>1. ASSUME HasText(a) PROVE fh_to_string(a) \in MadeString \/ fh_to_string(a) = a
  <2>1. CASE ~ IS_STR(a)
    <3>1. a \in JSNumber /\ a.val[2] \in Int
      BY <1>1, <2>1, ValueCases, FiniteHas, NumberHas, DoubleCases DEF HasText
    <3> QED
      BY <2>1, <3>1, DecimalIs, MadeIs DEF fh_to_string
  <2> QED
    BY <2>1 DEF fh_to_string
<1>2. ASSUME Addable(a, b) PROVE add_op(a, b) \in JSNumber \cup MadeString
  <2>1. CASE IS_STR(a) \/ IS_STR(b)
    <3>1. fh_to_string(a).ptr \in Text /\ fh_to_string(b).ptr \in Text
      BY <1>2, <2>1, HasTextIs, StringHas DEF Addable
    <3> QED
      BY <2>1, <3>1, TextConcat, MadeIs DEF add_op
  <2>2. CASE ~ (IS_STR(a) \/ IS_STR(b))
    BY <2>2, ToNumber, SumNumber DEF add_op
  <2> QED
    BY <2>1, <2>2
<1> QED
  BY <1>1, <1>2

LEMMA LengthsStep ==
  ASSUME PrimitiveTypeOK, PrimitiveNext, IS_STR(v'), v' # v
  PROVE  \/ \E u \in Texts : ReplaceRegexp(u)
         \/ v'.length = Len(v'.ptr) /\ (v'.shown = v'.length \/ Concat \/ Trim)
<1>0. /\ v \in JSValue /\ re \in RegExps /\ (IS_STR(v) => v \in JSString /\ v.ptr \in Text)
      /\ Operands \subseteq JSValue
  BY StateIs, ConstantsAre
<1> SUFFICES ASSUME ~ \E u \in Texts : ReplaceRegexp(u)
             PROVE  \/ v' \in MadeString
                    \/ v'.length = Len(v'.ptr) /\ (Concat \/ Trim)
  BY DEF MadeString
<1>a. \A w \in JSNumber \cup MadeString \cup {NoText} : Assign(w) => v' \in MadeString
  BY AssignMade
<1>b. ASSUME NEW w, ~ IS_STR(w), Assign(w) PROVE FALSE
  BY <1>b, AssignMade DEF Assign, Stops, IS_STR, JSUNDEF
<1>1. CASE Literal
  <2>1. PICK w \in Operands : Assign(w)
    BY <1>1 DEF Literal
  <2>2. CASE IS_STR(w)
    <3>1. w = JSSTR(w.ptr) /\ w.ptr \in Text
      BY <1>0, <2>2, PrimitivesAssumption, ValueCases, StringHas
    <3>2. w \in MadeString
      BY <3>1, MadeIs
    <3> QED
      BY <1>a, <2>1, <3>2
  <2> QED
    BY <1>b, <2>1, <2>2
<1>2. CASE Operate
  <2>1. PICK w \in Operands : \/ Addable(v, w) /\ Assign(add_op(v, w))
                              \/ Addable(w, v) /\ Assign(add_op(w, v))
                              \/ Assign(sub_op(v, w)) \/ Assign(mul_op(v, w))
                              \/ Assign(div_op(v, w)) \/ Assign(mod_op(v, w))
    BY <1>2 DEF Operate
  <2>2. w \in JSValue
    BY <1>0
  <2>3. /\ sub_op(v, w) \in JSNumber /\ mul_op(v, w) \in JSNumber
        /\ div_op(v, w) \in JSNumber /\ mod_op(v, w) \in JSNumber
        /\ Addable(v, w) => add_op(v, w) \in JSNumber \cup MadeString
        /\ Addable(w, v) => add_op(w, v) \in JSNumber \cup MadeString
    BY <1>0, <2>2, ArithmeticType, TextsAreMade
  <2> QED
    BY <1>a, <2>1, <2>3
<1>3. CASE Convert
  <2>1. /\ minus_op(v) \in JSNumber /\ not_op(v) \in JSNumber /\ fh_to_number(v) \in JSNumber
        /\ ~ IS_STR(JSBOOL(~ fh_to_boolean(v)))
        /\ HasText(v) => fh_to_string(v) \in MadeString \/ fh_to_string(v) = v
    BY <1>0, ConversionType, ToNumber, TextsAreMade DEF JSBOOL, IS_STR
  <2>2. ASSUME Assign(v) PROVE FALSE
    <3>1. v # NoText
      BY <1>0, ValueCases DEF NoText
    <3> QED
      BY <2>2, <3>1 DEF Assign
  <2>3. \/ Assign(fh_to_number(v)) \/ Assign(minus_op(v)) \/ Assign(not_op(v))
        \/ Assign(JSBOOL(~ fh_to_boolean(v)))
        \/ HasText(v) /\ Assign(fh_to_string(v))
    BY <1>3 DEF Convert
  <2> QED
    BY <1>a, <1>b, <2>1, <2>2, <2>3
<1>4. CASE Math
  <2>1. math_abs(v) \in JSNumber /\ math_floor(v) \in JSNumber
    BY <1>0, ConversionType
  <2>2. ASSUME NEW w \in Operands, NEW args \in {<<v>>, <<v, w>>, <<v, w, JSNUM(NINF)>>}
        PROVE  math_max(args) \in JSNumber /\ math_min(args) \in JSNumber
    BY <1>0, MathArguments
  <2> QED
    BY <1>4, <1>a, <2>1, <2>2 DEF Math
<1>5. CASE ParseInt
  <2>1. PICK r \in Radices : HasText(v) /\ Assign(parse_int(fh_to_string(v).ptr, r))
    BY <1>5 DEF ParseInt
  <2>2. r \in Int /\ fh_to_string(v).ptr \in Text
    BY <1>0, <2>1, ConstantsAre, HasTextIs, StringHas
  <2> QED
    BY <1>a, <2>1, <2>2, ParseType
<1>6. CASE Concat
  <2>1. PICK t \in Texts, u \in Texts : IS_STR(v) /\ Assign(concat(v, <<t, u>>))
    BY <1>6 DEF Concat
  <2>2. t \in Text /\ u \in Text /\ v \in JSString
    BY <1>0, <2>1, ConstantsAre
  <2>3. concat(v, <<t, u>>) \in JSString
    BY <2>2, ConcatType
  <2>4. concat(v, <<t, u>>) # NoText
    BY <2>3, StringHas DEF NoText
  <2>5. v' = concat(v, <<t, u>>)
    BY <2>1, <2>4 DEF Assign
  <2>6. v'.length = Len(v'.ptr)
    BY <2>5 DEF concat, JSSTR
  <2> QED
    BY <1>6, <2>6
<1>7. CASE Trim
  <2>1. PICK w \in {trim(v), trim_left(v), trim_right(v)} : IS_STR(v) /\ Assign(w)
    BY <1>7 DEF Trim
  <2>2. w \in JSString
    BY <1>0, <2>1, TrimType
  <2>3. v' = w
    BY <2>1, <2>2, StringHas DEF Assign, NoText
  <2>4. w.length = Len(w.ptr)
    BY <2>1 DEF trim, trim_left, trim_right, JSSTR
  <2> QED
    BY <1>7, <2>3, <2>4
<1>8. CASE Find
  <2>1. PICK t \in Texts, i \in Indices : \/ i >= 0 /\ Assign(Num(index_of(v.ptr, t, i)))
                                          \/ Assign(Num(last_index_of(v.ptr, t, i)))
    BY <1>8 DEF Find
  <2>2. t \in Text /\ i \in Int /\ v.ptr \in Text
    BY <1>0, <1>8, ConstantsAre DEF Find
  <2>3. i >= 0 => index_of(v.ptr, t, i) \in Int
    BY <2>2, IndexType
  <2>4. last_index_of(v.ptr, t, i) \in Int
    BY <2>2, LastIndexType
  <2> QED
    BY <1>a, <2>1, <2>3, <2>4, NumIs
<1>9. CASE Cut
  <2>1. PICK i \in Indices, j \in Indices :
          Assign(char_at(v, i)) \/ Assign(slice(v, i, j)) \/ Assign(substr(v, i, j)) \/ Assign(substring(v, i, j))
    BY <1>9 DEF Cut
  <2>2. i \in Int /\ j \in Int /\ v \in JSString
    BY <1>0, <1>9, ConstantsAre DEF Cut
  <2> QED
    BY <1>a, <2>1, <2>2, CutType
<1>10. CASE Split
  <2>1. PICK w \in MadeString \cup {NoText} : Assign(w)
    BY <1>10, SplitAssigns
  <2> QED
    BY <1>a, <2>1
<1>11. CASE ReplaceText
  <2>1. PICK t \in Texts, u \in Texts : IS_STR(v) /\ Assign(JSSTR(fh_str_replace(v.ptr, t, u)))
    BY <1>11 DEF ReplaceText
  <2>2. t \in Text /\ u \in Text /\ v.ptr \in Text
    BY <1>0, <2>1, ConstantsAre
  <2>3. JSSTR(fh_str_replace(v.ptr, t, u)) \in MadeString
    BY <2>2, ReplaceTextType, MadeIs
  <2> QED
    BY <1>a, <2>1, <2>3
<1>12. CASE NewRegexp \/ Exec
  BY <1>12 DEF NewRegexp, Exec
<1>13. CASE Match
  BY <1>13, OthersHave DEF Match, Stops, IS_STR
<1>14. CASE Search
  <2>1. search(v.ptr, re.words) \in Int
    BY <1>0, <1>14, SearchType, RegExpHas DEF Search
  <2> QED
    BY <1>14, <1>a, <2>1, NumIs DEF Search
<1>15. CASE SplitRegexp
  <2>1. PICK t \in Text : v' = JSSTR(t)
    BY <1>15, SplitterAssigns, OthersHave DEF Stops, IS_STR
  <2> QED
    BY <2>1, MadeIs
<1> QED
  BY <1>1, <1>2, <1>3, <1>4, <1>5, <1>6, <1>7, <1>8, <1>9, <1>10, <1>11, <1>12, <1>13, <1>14, <1>15
     DEF PrimitiveNext

(* The cached length of a string that a step makes is that of its text,    *)
(* and scripts see it, but for the strings that a regular expression has   *)
(* replaced in, concatenations and trimmed strings (String.c).             *)
THEOREM LengthsCorrect == PrimitiveSpec => LengthsFollowText
<1>1. PrimitiveTypeOK /\ [PrimitiveNext]_primitive_vars =>
        [IS_STR(v') /\ v' # v =>
           \/ \E u \in Texts : ReplaceRegexp(u)
           \/ v'.length = Len(v'.ptr) /\ (v'.shown = v'.length \/ Concat \/ Trim)]_primitive_vars
  BY LengthsStep DEF primitive_vars
<1> QED
  BY <1>1, PrimitiveTypeCorrect, PTL DEF PrimitiveSpec, LengthsFollowText

-----------------------------------------------------------------------------
(* Reading a text from the left.                                           *)

IsSpace(c) == c = " "

(* The numbers of characters in front that are all spaces. *)
LEMMA InSpaces ==
  ASSUME NEW s \in Text
  PROVE  /\ Spaces(s) \in SUBSET (0 .. Len(s)) /\ 0 \in Spaces(s)
         /\ \A i \in 0 .. Len(s) : i \in Spaces(s) <=> \A j \in 1 .. i : IsSpace(s[j])
<1>1. Len(s) \in Nat
  BY TextHas
<1>2. \A i \in 0 .. Len(s) : i \in Spaces(s) <=> \A j \in 1 .. i : IsSpace(s[j])
  BY DEF Spaces, IsSpace
<1>3. Spaces(s) \in SUBSET (0 .. Len(s))
  BY DEF Spaces
<1>4. 0 \in 0 .. Len(s) /\ \A j \in 1 .. 0 : IsSpace(s[j])
  BY <1>1
<1> QED
  BY <1>2, <1>3, <1>4

(* As many spaces as there are in front of a text. *)
InFront(s, n) == n \in 0 .. Len(s) /\ (\A j \in 1 .. n : IsSpace(s[j])) /\ (n < Len(s) => ~ IsSpace(s[n + 1]))

LEMMA SpacesInFront ==
  ASSUME NEW s \in Text
  PROVE  \E n \in 0 .. Len(s) : InFront(s, n)
<1> DEFINE S == Spaces(s)
           len == Len(s)
<1>1. len \in Nat /\ S \in SUBSET (0 .. len) /\ S # {}
      /\ \A i \in 0 .. len : i \in S <=> \A j \in 1 .. i : IsSpace(s[j])
  BY TextHas, InSpaces
<1> SUFFICES \E n \in 0 .. len : (\A j \in 1 .. n : IsSpace(s[j])) /\ (n < len => ~ IsSpace(s[n + 1]))
  BY DEF InFront
<1> HIDE DEF S, len
<1>3. PICK n \in S : \A k \in S : k <= n
  BY <1>1, Greatest
<1>4. n \in 0 .. len /\ n \in Nat /\ n <= len /\ \A j \in 1 .. n : IsSpace(s[j])
  BY <1>1
<1>5. ASSUME n < len, IsSpace(s[n + 1]) PROVE FALSE
  <2>1. n + 1 \in 0 .. len /\ n + 1 > n
    BY <1>1, <1>4, <1>5
  <2>2. ASSUME NEW j \in 1 .. n + 1 PROVE IsSpace(s[j])
    <3>1. j \in 1 .. n \/ j = n + 1
      BY <1>4
    <3> QED
      BY <1>4, <1>5, <3>1
  <2>3. n + 1 \in S
    BY <1>1, <2>1, <2>2
  <2> QED
    BY <1>3, <1>4, <2>1, <2>3
<1> QED
  BY <1>4, <1>5

(* Skipping them. *)
LEMMA SkipFrom ==
  ASSUME NEW s \in Text, NEW n \in 0 .. Len(s), InFront(s, n)
  PROVE  /\ SkipSpaces(s) \in Text /\ Len(SkipSpaces(s)) = Len(s) - n
         /\ \A i \in 1 .. Len(s) - n : SkipSpaces(s)[i] = s[n + i]
<1> DEFINE m == CHOOSE i \in Spaces(s) : i + 1 \notin Spaces(s)
           S == Spaces(s)
           len == Len(s)
<1>1. len \in Nat /\ S \in SUBSET (0 .. len)
      /\ \A i \in 0 .. len : i \in S <=> \A j \in 1 .. i : IsSpace(s[j])
  BY TextHas, InSpaces
<1>2. (\A j \in 1 .. n : IsSpace(s[j])) /\ (n < len => ~ IsSpace(s[n + 1]))
  BY DEF InFront
<1>3. n \in 0 .. len
  OBVIOUS
<1>4. m = CHOOSE i \in S : i + 1 \notin S
  OBVIOUS
<1>5. SkipSpaces(s) = SubSeq(s, 1 + m, len)
  BY DEF SkipSpaces
<1> HIDE DEF m, S, len
<1>6. \A i \in S : i <= n
  <2> SUFFICES ASSUME NEW i \in S, ~ (i <= n) PROVE FALSE
    OBVIOUS
  <2>1. i \in 0 .. len /\ \A j \in 1 .. i : IsSpace(s[j])
    BY <1>1
  <2>2. n + 1 \in 1 .. i /\ n < len
    BY <1>1, <1>3, <2>1
  <2> QED
    BY <1>2, <2>1, <2>2
<1>7. n \in S /\ n + 1 \notin S
  <2>1. ~ (n + 1 <= n)
    BY <1>3
  <2> QED
    BY <1>1, <1>2, <1>3, <1>6, <2>1
<1>8. m \in S /\ m + 1 \notin S
  BY <1>4, <1>7
<1>9. m = n
  <2>1. m \in 0 .. len /\ m <= n
    BY <1>1, <1>6, <1>8
  <2> SUFFICES ASSUME m < n PROVE FALSE
    BY <1>3, <2>1
  <2>2. m + 1 \in 0 .. len /\ \A j \in 1 .. m + 1 : j \in 1 .. n
    BY <1>1, <1>3, <2>1
  <2>3. m + 1 \in S
    BY <1>1, <1>2, <2>2
  <2> QED
    BY <1>8, <2>3
<1> DEFINE k == 1 + n
<1>10. k \in Int /\ 1 <= k /\ len \in Int /\ len <= Len(s) /\ k = n + 1
  BY <1>1, <1>3 DEF len
<1>11. SkipSpaces(s) = SubSeq(s, k, len)
  BY <1>5, <1>9
<1> HIDE DEF k
<1>12. /\ SubSeq(s, k, len) \in Text
       /\ Len(SubSeq(s, k, len)) = IF k <= len THEN len - k + 1 ELSE 0
       /\ \A i \in 1 .. len - k + 1 : SubSeq(s, k, len)[i] = s[k + i - 1]
  BY <1>10, PartOfText
<1>13. len - k + 1 = len - n /\ \A i \in 1 .. len - n : k + i - 1 = n + i
  BY <1>1, <1>3, <1>10
<1>14. (IF k <= len THEN len - k + 1 ELSE 0) = len - n
  BY <1>1, <1>3, <1>10
<1> SUFFICES /\ SkipSpaces(s) \in Text /\ Len(SkipSpaces(s)) = len - n
             /\ \A i \in 1 .. len - n : SkipSpaces(s)[i] = s[n + i]
  BY DEF len
<1> QED
  BY <1>11, <1>12, <1>13, <1>14

(* The text behind its first n characters. *)
Behind(t, s, n) == t \in Text /\ Len(t) = Len(s) - n /\ \A i \in 1 .. Len(s) - n : t[i] = s[n + i]

LEMMA SkipIsBehind ==
  ASSUME NEW s \in Text
  PROVE  \E n \in 0 .. Len(s) : InFront(s, n) /\ Behind(SkipSpaces(s), s, n)
<1>1. PICK n \in 0 .. Len(s) : InFront(s, n)
  BY SpacesInFront
<1> QED
  BY <1>1, SkipFrom DEF Behind

LEMMA SkipOneMore ==
  ASSUME NEW s \in Text
  PROVE  SkipSpaces(<<" ">> \o s) = SkipSpaces(s)
<1> DEFINE w == <<" ">> \o s
           one == <<" ">>
           len == Len(s)
<1>1. one \in Text /\ Len(one) = 1 /\ IsSpace(one[1])
  BY NumeralsAre, OneCharacter DEF IsSpace
<1> HIDE DEF one
<1>2. w \in Text /\ Len(w) = 1 + len /\ \A i \in 1 .. 1 + len : w[i] = IF i <= 1 THEN one[i] ELSE s[i - 1]
  BY <1>1, ConcatProperties DEF one, Text
<1>3. PICK n \in 0 .. Len(s) : InFront(s, n) /\ Behind(SkipSpaces(s), s, n)
  BY SkipIsBehind
<1> DEFINE k == n + 1
           a == SkipSpaces(w)
           b == SkipSpaces(s)
<1>4. len \in Nat /\ n \in 0 .. len
  BY TextHas
<1>5. (\A j \in 1 .. n : IsSpace(s[j])) /\ (n < len => ~ IsSpace(s[n + 1]))
  BY <1>3 DEF InFront
<1>6. b \in Text /\ Len(b) = len - n /\ \A i \in 1 .. len - n : b[i] = s[n + i]
  BY <1>3 DEF Behind
<1> HIDE DEF len, w, a, b
<1>7. Len(w) = len + 1 /\ IsSpace(w[1]) /\ \A i \in 1 .. len : w[i + 1] = s[i]
  <2>1. 1 \in 1 .. 1 + len /\ 1 <= 1 /\ 1 + len = len + 1
        /\ \A i \in 1 .. len : i + 1 \in 1 .. 1 + len /\ ~ (i + 1 <= 1) /\ (i + 1) - 1 = i
    BY <1>4
  <2>2. IsSpace(w[1])
    BY <1>1, <1>2, <2>1
  <2>3. \A i \in 1 .. len : w[i + 1] = s[i]
    BY <1>2, <2>1
  <2> QED
    BY <1>2, <2>1, <2>2, <2>3
<1>8. k \in 0 .. len + 1 /\ (\A j \in 1 .. k : IsSpace(w[j])) /\ (k < len + 1 => ~ IsSpace(w[k + 1]))
  <2>1. ASSUME NEW j \in 1 .. k PROVE IsSpace(w[j])
    <3>1. CASE j = 1
      BY <1>7, <3>1
    <3>2. CASE j # 1
      <4>1. j - 1 \in 1 .. n /\ j - 1 \in 1 .. len /\ (j - 1) + 1 = j
        BY <1>4, <3>2
      <4> QED
        BY <1>5, <1>7, <4>1
    <3> QED
      BY <3>1, <3>2
  <2>2. k < len + 1 => ~ IsSpace(w[k + 1])
    <3> SUFFICES ASSUME k < len + 1 PROVE ~ IsSpace(w[k + 1])
      OBVIOUS
    <3>1. n < len /\ n + 1 \in 1 .. len
      BY <1>4
    <3> QED
      BY <1>5, <1>7, <3>1
  <2> QED
    BY <1>4, <2>1, <2>2
<1>9. k \in 0 .. Len(w) /\ InFront(w, k)
  BY <1>7, <1>8 DEF InFront
<1>10. a \in Text /\ Len(a) = Len(w) - k /\ \A i \in 1 .. Len(w) - k : a[i] = w[k + i]
  <2> HIDE DEF k
  <2> QED
    BY <1>2, <1>9, SkipFrom DEF a
<1>11. Len(w) - k = len - n /\ \A i \in 1 .. len - n : n + i \in 1 .. len /\ k + i = (n + i) + 1
  BY <1>4, <1>7
<1> HIDE DEF k
<1>12. \A i \in 1 .. len - n : a[i] = b[i]
  <2> SUFFICES ASSUME NEW i \in 1 .. len - n PROVE a[i] = b[i]
    OBVIOUS
  <2>1. a[i] = w[(n + i) + 1] /\ b[i] = s[n + i] /\ n + i \in 1 .. len
    BY <1>6, <1>10, <1>11
  <2> QED
    BY <1>7, <2>1
<1>13. a = b
  <2>1. Len(a) = Len(b) /\ \A i \in 1 .. Len(a) : a[i] = b[i]
    BY <1>6, <1>10, <1>11, <1>12
  <2> QED
    BY <1>6, <1>10, <2>1, SeqEqual DEF Text
<1> QED
  BY <1>13 DEF a, b, w

IsSign(c) == c \in {"-", "+"}
IsMinus(c) == c = "-"

(* A digit is neither a space nor a sign, and each has a value of its own. *)
LEMMA NumeralsDiffer ==
  /\ \A i \in 1 .. 36 : Numerals[i] # " " /\ Numerals[i] # "-" /\ Numerals[i] # "+"
  /\ \A i \in 1 .. 36 : \A k \in 1 .. 10 : Numerals[i] = Numerals[k] => i = k
  /\ \A i \in 1 .. 36 : Numerals[i] = "x" => i > 16
<1>1. \A i \in 1 .. 36 : Numerals[i] # " "
  <2> DEFINE space == " "
             numerals == {"0", "1", "2", "3", "4", "5", "6", "7", "8", "9",
                          "a", "b", "c", "d", "e", "f", "g", "h", "i", "j", "k", "l", "m",
                          "n", "o", "p", "q", "r", "s", "t", "u", "v", "w", "x", "y", "z"}
  <2>1. Numerals \in Seq(numerals) /\ Len(Numerals) = 36
    BY DEF Numerals
  <2>2. space \notin numerals
    BY Zenon
  <2> HIDE DEF numerals, space
  <2>3. \A i \in 1 .. 36 : Numerals[i] \in numerals
    BY <2>1, ElementOfSeq
  <2>4. \A i \in 1 .. 36 : Numerals[i] # space
    BY <2>2, <2>3
  <2> QED
    BY <2>4 DEF space
<1>2. \A i \in 1 .. 36 : Numerals[i] # "-"
  BY DEF Numerals
<1>3. \A i \in 1 .. 36 : Numerals[i] # "+"
  BY DEF Numerals
<1>4. \A i \in 1 .. 36 : \A k \in 1 .. 10 : Numerals[i] = Numerals[k] => i = k
  BY DEF Numerals
<1>5. \A i \in 1 .. 36 : Numerals[i] = "x" => i = 34
  BY DEF Numerals
<1>6. 34 > 16
  OBVIOUS
<1> QED
  BY <1>1, <1>2, <1>3, <1>4, <1>5, <1>6

LEMMA RadixOf ==
  /\ \A c : radix_val(c) < 36 => ~ IsSpace(c) /\ ~ IsSign(c)
  /\ \A k \in 0 .. 9 : radix_val(Numerals[k + 1]) = k
  /\ radix_val("x") >= 16
<1>1. ASSUME NEW c PROVE \/ radix_val(c) = 36
                         \/ \E i \in 1 .. 36 : Numerals[i] = c /\ radix_val(c) = i - 1
  <2>1. CASE \E i \in 1 .. 36 : Numerals[i] = c
    <3>1. PICK i \in 1 .. 36 : i = (CHOOSE j \in 1 .. 36 : Numerals[j] = c) /\ Numerals[i] = c
      BY <2>1
    <3> QED
      BY <2>1, <3>1 DEF radix_val
  <2>2. CASE ~ \E i \in 1 .. 36 : Numerals[i] = c
    BY <2>2 DEF radix_val
  <2> QED
    BY <2>1, <2>2
<1>2. ASSUME NEW c, radix_val(c) < 36 PROVE ~ IsSpace(c) /\ ~ IsSign(c)
  <2>1. PICK i \in 1 .. 36 : Numerals[i] = c
    BY <1>1, <1>2
  <2>2. c # " " /\ c # "-" /\ c # "+"
    BY <2>1, NumeralsDiffer
  <2> QED
    BY <2>2 DEF IsSpace, IsSign
<1>3. ASSUME NEW k \in 0 .. 9 PROVE radix_val(Numerals[k + 1]) = k
  <2> DEFINE c == Numerals[k + 1]
             n == k + 1
  <2>1. n \in 1 .. 10 /\ n \in 1 .. 36 /\ n - 1 = k
    OBVIOUS
  <2>2. c = Numerals[n]
    OBVIOUS
  <2> HIDE DEF c, n
  <2>3. \E i \in 1 .. 36 : Numerals[i] = c
    BY <2>1, <2>2
  <2>4. PICK i \in 1 .. 36 : i = (CHOOSE j \in 1 .. 36 : Numerals[j] = c) /\ Numerals[i] = c
    BY <2>3
  <2>5. radix_val(c) = i - 1
    BY <2>3, <2>4 DEF radix_val
  <2>6. i = n
    BY <2>1, <2>2, <2>4, NumeralsDiffer
  <2> QED
    BY <2>1, <2>5, <2>6 DEF c
<1>4. radix_val("x") >= 16
  <2>1. CASE radix_val("x") = 36
    BY <2>1
  <2>2. CASE \E i \in 1 .. 36 : Numerals[i] = "x" /\ radix_val("x") = i - 1
    <3>1. PICK i \in 1 .. 36 : i > 16 /\ radix_val("x") = i - 1
      BY <2>2, NumeralsDiffer
    <3> QED
      BY <3>1
  <2> QED
    BY <1>1, <2>1, <2>2
<1> QED
  BY <1>2, <1>3, <1>4

(* The longest start of a text that parse_int reads. *)
LEMMA DigitsAre ==
  ASSUME NEW w \in Text, NEW r \in Int, NEW k \in 0 .. Len(w),
         \A i \in 1 .. k : radix_val(w[i]) <= r,
         k < Len(w) => radix_val(w[k + 1]) > r
  PROVE  Digits(w, r) = SubSeq(w, 1, k)
<1> DEFINE len == Len(w)
           good == {n \in 0 .. len : \A i \in 1 .. n : radix_val(w[i]) <= r}
           n == CHOOSE n \in good : \A m \in good : m <= n
<1>1. len \in Nat /\ k \in 0 .. len
  BY TextHas
<1>2. Digits(w, r) = SubSeq(w, 1, n)
  BY DEF Digits
<1>3. good \in SUBSET (0 .. len) /\ k \in good /\ \A m \in good : \A i \in 1 .. m : radix_val(w[i]) <= r
  <2> HIDE DEF len
  <2> QED
    BY <1>1
<1>4. k < len => radix_val(w[k + 1]) > r
  OBVIOUS
<1> HIDE DEF good, len
<1>5. \A m \in good : m <= k
  <2> SUFFICES ASSUME NEW m \in good, ~ (m <= k) PROVE FALSE
    OBVIOUS
  <2>1. m \in 0 .. len
    BY <1>3
  <2>2. k + 1 \in 1 .. m /\ k < len
    BY <1>1, <2>1
  <2>3. radix_val(w[k + 1]) <= r /\ radix_val(w[k + 1]) > r /\ radix_val(w[k + 1]) \in Int
    BY <1>3, <1>4, <2>2, RadixVal
  <2> QED
    BY <2>3
<1>6. n \in good /\ \A m \in good : m <= n
  BY <1>3, <1>5
<1>7. n = k
  <2> HIDE DEF n
  <2>1. n \in 0 .. len /\ n <= k /\ k <= n
    BY <1>3, <1>5, <1>6
  <2> QED
    BY <1>1, <2>1
<1> QED
  BY <1>2, <1>7

(* One more character. *)
LEMMA PositionalAppend ==
  ASSUME NEW s \in Text, NEW c \in Character, NEW radix \in Int
  PROVE  Positional(Append(s, c), radix) = Positional(s, radix) * radix + radix_val(c)
<1> DEFINE w == Append(s, c)
           len == Len(s)
           S == 0 .. len
<1>1. w \in Text /\ Len(w) = len + 1 /\ (\A i \in 1 .. len : w[i] = s[i]) /\ w[len + 1] = c /\ len \in Nat
  BY AppendProperties, TextHas DEF Text
<1>2. PICK f \in [0 .. Len(s) -> Int] :
           /\ f[0] = 0
           /\ \A i \in 1 .. Len(s) : f[i] = f[i - 1] * radix + radix_val(s[i])
           /\ Positional(s, radix) = f[Len(s)]
  BY PositionalSteps
<1> HIDE DEF w
<1>3. PICK g \in [0 .. Len(w) -> Int] :
           /\ g[0] = 0
           /\ \A i \in 1 .. Len(w) : g[i] = g[i - 1] * radix + radix_val(w[i])
           /\ Positional(w, radix) = g[Len(w)]
  BY <1>1, PositionalSteps
<1>4. \A i \in S : g[i] = f[i]
  <2> DEFINE P == {i \in S : g[i] = f[i]}
             rank == [i \in S |-> i]
  <2>1. ASSUME NEW i \in S, \A j \in S : rank[j] < rank[i] => j \in P PROVE i \in P
    <3>1. CASE i = 0
      BY <1>2, <1>3, <3>1
    <3>2. CASE i # 0
      <4>1. i - 1 \in S /\ i \in 1 .. len /\ i \in 1 .. Len(w) /\ rank[i - 1] < rank[i]
        BY <1>1, <3>2
      <4>2. g[i - 1] = f[i - 1]
        BY <2>1, <4>1
      <4>3. g[i] = g[i - 1] * radix + radix_val(w[i]) /\ f[i] = f[i - 1] * radix + radix_val(s[i]) /\ w[i] = s[i]
        BY <1>1, <1>2, <1>3, <4>1
      <4> QED
        BY <4>2, <4>3
    <3> QED
      BY <3>1, <3>2
  <2>2. rank \in [S -> Nat]
    BY <1>1
  <2> HIDE DEF P, rank, S
  <2>3. \A i \in S : i \in P
    BY <2>1, <2>2, ByRank
  <2> QED
    BY <2>3 DEF P
<1>5. Len(w) \in 1 .. Len(w) /\ Len(w) = len + 1 /\ Len(w) - 1 = len /\ len \in S
  BY <1>1
<1>6. g[Len(w)] = g[len] * radix + radix_val(c)
  BY <1>1, <1>3, <1>5
<1>7. g[len] = Positional(s, radix)
  BY <1>2, <1>4, <1>5
<1>8. Positional(w, radix) = g[Len(w)]
  BY <1>3
<1> QED
  BY <1>6, <1>7, <1>8 DEF w

LEMMA PositionalEmpty ==
  ASSUME NEW radix \in Int
  PROVE  Positional(<<>>, radix) = 0
BY EmptyText, PositionalSteps

LEMMA AppendIs ==
  ASSUME NEW s \in Text, NEW c \in Character
  PROVE  Append(s, c) \in Text /\ Append(s, c) = s \o <<c>> /\ <<c>> \in Text
BY AppendProperties, AppendIsConcat, OneCharacter DEF Text

LEMMA PositionalOne ==
  ASSUME NEW c \in Character, NEW radix \in Int
  PROVE  Positional(<<c>>, radix) = radix_val(c)
<1>1. Append(<<>>, c) = <<c>>
  OBVIOUS
<1>2. Positional(Append(<<>>, c), radix) = Positional(<<>>, radix) * radix + radix_val(c)
  BY EmptyText, PositionalAppend
<1>3. Positional(<<>>, radix) = 0 /\ radix_val(c) \in Int
  BY PositionalEmpty, RadixVal
<1>4. 0 * radix = 0
  OBVIOUS
<1> QED
  BY <1>1, <1>2, <1>3, <1>4

LEMMA ConcatHas ==
  ASSUME NEW s \in Text, NEW x \in Text
  PROVE  /\ s \o x \in Text /\ Len(s \o x) = Len(s) + Len(x)
         /\ \A i \in 1 .. Len(s) : (s \o x)[i] = s[i]
         /\ \A i \in 1 .. Len(x) : (s \o x)[Len(s) + i] = x[i]
BY ConcatParts DEF Text

(* What follows does not change how a text begins. *)
LEMMA SkipConcat ==
  ASSUME NEW s \in Text, NEW x \in Text, SkipSpaces(s) # <<>>
  PROVE  SkipSpaces(s \o x) = SkipSpaces(s) \o x
<1> DEFINE w == s \o x
           len == Len(s)
           more == Len(x)
           t == SkipSpaces(s)
           a == SkipSpaces(w)
           b == t \o x
<1>1. PICK n \in 0 .. Len(s) : InFront(s, n) /\ Behind(SkipSpaces(s), s, n)
  BY SkipIsBehind
<1>2. len \in Nat /\ more \in Nat /\ n \in 0 .. len
  BY TextHas
<1>3. t \in Text /\ Len(t) = len - n /\ \A i \in 1 .. len - n : t[i] = s[n + i]
  BY <1>1 DEF Behind
<1>4. n < len
  <2> HIDE DEF t, len
  <2>1. Len(t) # 0
    BY <1>3, EmptySeq DEF Text, t
  <2> QED
    BY <1>2, <1>3, <2>1
<1>5. (\A j \in 1 .. n : IsSpace(s[j])) /\ (n < len => ~ IsSpace(s[n + 1]))
  BY <1>1 DEF InFront
<1>6. /\ w \in Text /\ Len(w) = len + more /\ (\A i \in 1 .. len : w[i] = s[i])
      /\ \A i \in 1 .. more : w[len + i] = x[i]
  BY ConcatHas
<1>7. /\ b \in Text /\ Len(b) = Len(t) + more /\ (\A i \in 1 .. Len(t) : b[i] = t[i])
      /\ \A i \in 1 .. more : b[Len(t) + i] = x[i]
  <2> HIDE DEF t
  <2> QED
    BY <1>3, ConcatHas
<1> HIDE DEF w, len, more, t, a, b
<1>8. n \in 0 .. Len(w) /\ InFront(w, n)
  <2>1. n \in 0 .. Len(w) /\ n + 1 \in 1 .. len /\ \A j \in 1 .. n : j \in 1 .. len
    BY <1>2, <1>4, <1>6
  <2>2. (\A j \in 1 .. n : IsSpace(w[j])) /\ ~ IsSpace(w[n + 1])
    BY <1>4, <1>5, <1>6, <2>1
  <2> QED
    BY <2>1, <2>2 DEF InFront
<1>9. a \in Text /\ Len(a) = Len(w) - n /\ \A i \in 1 .. Len(w) - n : a[i] = w[n + i]
  BY <1>6, <1>8, SkipFrom DEF a
<1>10. Len(a) = Len(b) /\ Len(b) = (len - n) + more
  BY <1>2, <1>3, <1>6, <1>7, <1>9
<1>11. ASSUME NEW i \in 1 .. Len(a) PROVE a[i] = b[i]
  <2>1. i \in 1 .. Len(w) - n /\ i \in 1 .. (len - n) + more
    BY <1>9, <1>10
  <2>2. CASE i <= len - n
    <3>1. i \in 1 .. len - n /\ n + i \in 1 .. len
      BY <1>2, <2>1, <2>2
    <3> QED
      BY <1>3, <1>6, <1>7, <1>9, <2>1, <3>1
  <2>3. CASE ~ (i <= len - n)
    <3> DEFINE k == i - (len - n)
    <3>1. k \in 1 .. more /\ n + i = len + k /\ i = Len(t) + k
      BY <1>2, <1>3, <2>1, <2>3
    <3> HIDE DEF k
    <3>2. a[i] = w[n + i] /\ w[len + k] = x[k] /\ b[Len(t) + k] = x[k]
      BY <1>6, <1>7, <1>9, <2>1, <3>1
    <3> QED
      BY <3>1, <3>2
  <2> QED
    BY <2>2, <2>3
<1>12. a = b
  BY <1>7, <1>9, <1>10, <1>11, SeqEqual DEF Text
<1> QED
  BY <1>12 DEF a, b, w, t

LEMMA NotEmpty ==
  ASSUME NEW s \in Text
  PROVE  s # <<>> <=> Len(s) > 0
BY EmptySeq, TextHas DEF Text

LEMMA SignIsBySigns ==
  ASSUME NEW s \in Text
  PROVE  /\ Unsigned(s) = IF s # <<>> /\ IsSign(s[1]) THEN Tail(s) ELSE s
         /\ SignOf(s) = IF s # <<>> /\ IsMinus(s[1]) THEN -1 ELSE 1
         /\ s # <<>> /\ IsMinus(s[1]) => IsSign(s[1])
BY DEF Unsigned, SignOf, IsSign, IsMinus

LEMMA UnsignedConcat ==
  ASSUME NEW t \in Text, NEW x \in Text, t # <<>>
  PROVE  Unsigned(t \o x) = Unsigned(t) \o x /\ SignOf(t \o x) = SignOf(t)
<1> DEFINE w == t \o x
<1>1. /\ w \in Text /\ Len(w) = Len(t) + Len(x) /\ (\A i \in 1 .. Len(t) : w[i] = t[i])
      /\ \A i \in 1 .. Len(x) : w[Len(t) + i] = x[i]
  BY ConcatHas
<1>2. Len(t) \in Nat /\ Len(x) \in Nat /\ Len(t) > 0
  BY NotEmpty, TextHas
<1> DEFINE a == Tail(w)
           b == Tail(t) \o x
<1>3. Tail(t) \in Text /\ Len(Tail(t)) = Len(t) - 1 /\ \A i \in 1 .. Len(t) - 1 : Tail(t)[i] = t[i + 1]
  BY HeadTailProperties DEF Text
<1>4. /\ b \in Text /\ Len(b) = Len(Tail(t)) + Len(x) /\ (\A i \in 1 .. Len(Tail(t)) : b[i] = Tail(t)[i])
      /\ \A i \in 1 .. Len(x) : b[Len(Tail(t)) + i] = x[i]
  BY <1>3, ConcatHas
<1> HIDE DEF w, b
<1>5. w # <<>> /\ w[1] = t[1]
  <2>1. 1 \in 1 .. Len(t) /\ Len(w) > 0
    BY <1>1, <1>2
  <2> QED
    BY <1>1, <2>1, NotEmpty
<1>6. a \in Text /\ Len(a) = Len(w) - 1 /\ \A i \in 1 .. Len(w) - 1 : a[i] = w[i + 1]
  <2>1. w \in Seq(Character) /\ w # <<>>
    BY <1>1, <1>5 DEF Text
  <2>2. Tail(w) \in Seq(Character) /\ Len(Tail(w)) = Len(w) - 1 /\ \A i \in 1 .. Len(Tail(w)) : Tail(w)[i] = w[i + 1]
    BY <2>1, HeadTailProperties
  <2> QED
    BY <2>2 DEF Text
<1> DEFINE m == Len(t)
           n == Len(x)
           tail == Tail(t)
<1> HIDE DEF a, m, n, tail
<1>7. ASSUME NEW i \in 1 .. Len(a) PROVE a[i] = b[i]
  <2>1. i \in 1 .. Len(w) - 1 /\ i \in 1 .. (m - 1) + n
    BY <1>1, <1>2, <1>6 DEF m, n
  <2>2. CASE i <= m - 1
    <3>1. i \in 1 .. m - 1 /\ i + 1 \in 1 .. m
      BY <1>2, <2>1, <2>2 DEF m
    <3>2. a[i] = w[i + 1] /\ w[i + 1] = t[i + 1] /\ b[i] = tail[i] /\ tail[i] = t[i + 1]
      BY <1>1, <1>3, <1>4, <1>6, <2>1, <3>1 DEF m, tail
    <3> QED
      BY <3>2
  <2>3. CASE ~ (i <= m - 1)
    <3> DEFINE k == i - (m - 1)
    <3>1. k \in 1 .. n /\ i + 1 = m + k /\ i = (m - 1) + k
      BY <1>2, <2>1, <2>3 DEF m, n
    <3> HIDE DEF k
    <3>2. a[i] = w[m + k] /\ w[m + k] = x[k] /\ b[(m - 1) + k] = x[k]
      BY <1>1, <1>3, <1>4, <1>6, <2>1, <3>1 DEF m, n, tail
    <3> QED
      BY <3>1, <3>2
  <2> QED
    BY <2>2, <2>3
<1>8. a = b
  <2>1. Len(a) = Len(b)
    BY <1>1, <1>2, <1>3, <1>4, <1>6
  <2> QED
    BY <1>4, <1>6, <1>7, <2>1, SeqEqual DEF Text
<1>9. SignOf(w) = SignOf(t)
  BY <1>1, <1>5, SignIsBySigns
<1>10. Unsigned(w) = Unsigned(t) \o x
  <2>1. CASE IsSign(t[1])
    <3>1. Unsigned(w) = a /\ Unsigned(t) = Tail(t)
      BY <1>1, <1>5, <2>1, SignIsBySigns DEF a
    <3> QED
      BY <1>8, <3>1 DEF b
  <2>2. CASE ~ IsSign(t[1])
    <3>1. Unsigned(w) = w /\ Unsigned(t) = t
      BY <1>1, <1>5, <2>2, SignIsBySigns
    <3> QED
      BY <3>1 DEF w
  <2> QED
    BY <2>1, <2>2
<1> QED
  BY <1>9, <1>10 DEF w

(* parse_int reads the digits at the front. *)
LEMMA ParsedDigits ==
  ASSUME NEW s \in Text, NEW r \in Int, r >= 2, r <= 32,
         NEW d \in Text, NEW x \in Text, d # <<>>,
         Unsigned(SkipSpaces(s)) = d \o x,
         \A i \in 1 .. Len(d) : radix_val(d[i]) <= r,
         x # <<>> => radix_val(x[1]) > r,
         ~ (r = 16 /\ HasPrefix(d \o x))
  PROVE  parse_int(s, r) = Num(SignOf(SkipSpaces(s)) * Positional(d, r))
<1> DEFINE u == d \o x
           len == Len(d)
<1>1. /\ u \in Text /\ Len(u) = len + Len(x) /\ (\A i \in 1 .. len : u[i] = d[i])
      /\ \A i \in 1 .. Len(x) : u[len + i] = x[i]
  BY ConcatHas
<1>2. len \in Nat /\ Len(x) \in Nat
  BY TextHas
<1>3. \A i \in 1 .. len : radix_val(d[i]) <= r
  OBVIOUS
<1> HIDE DEF u, len
<1>4. len \in 0 .. Len(u) /\ \A i \in 1 .. len : radix_val(u[i]) <= r
  <2>1. \A i \in 1 .. len : radix_val(u[i]) <= r
    BY <1>1, <1>3
  <2> QED
    BY <1>1, <1>2, <2>1
<1>5. len < Len(u) => radix_val(u[len + 1]) > r
  <2> SUFFICES ASSUME len < Len(u) PROVE radix_val(u[len + 1]) > r
    OBVIOUS
  <2>1. Len(x) > 0 /\ 1 \in 1 .. Len(x)
    BY <1>1, <1>2
  <2> QED
    BY <1>1, <2>1, NotEmpty
<1>6. Digits(u, r) = SubSeq(u, 1, len)
  BY <1>1, <1>4, <1>5, DigitsAre
<1>7. SubSeq(u, 1, len) = d
  <2> DEFINE a == SubSeq(u, 1, len)
  <2>1. 1 \in Int /\ len \in Int /\ len <= Len(u) /\ (IF 1 <= len THEN len - 1 + 1 ELSE 0) = len /\ len - 1 + 1 = len
        /\ \A i \in 1 .. len : 1 + i - 1 = i
    BY <1>1, <1>2
  <2>2. /\ a \in Text /\ Len(a) = IF 1 <= len THEN len - 1 + 1 ELSE 0
        /\ \A i \in 1 .. len - 1 + 1 : a[i] = u[1 + i - 1]
    BY <1>1, <2>1, PartOfText
  <2> HIDE DEF a
  <2>3. Len(a) = Len(d) /\ \A i \in 1 .. Len(a) : a[i] = d[i]
    BY <1>1, <2>1, <2>2 DEF len
  <2>4. a = d
    BY <2>2, <2>3, SeqEqual DEF Text
  <2> QED
    BY <2>4 DEF a
<1>8. Digits(u, r) = d
  BY <1>6, <1>7
<1>9. ~ (r \in {0, 16} /\ HasPrefix(u)) /\ r # 0 /\ r \in 2 .. 32
  BY DEF u
<1>10. parse_int(s, r) = IF (r # 0 /\ r \notin 2 .. 32) \/ Digits(u, r) = <<>> THEN JSNAN
                         ELSE Num(SignOf(SkipSpaces(s)) * Positional(Digits(u, r), r))
  BY <1>9 DEF parse_int, u
<1> QED
  BY <1>8, <1>9, <1>10

LEMMA TextAndNothing ==
  ASSUME NEW s \in Text
  PROVE  s \o <<>> = s
BY ConcatEmptySeq DEF Text

LEMMA NothingSkipped ==
  ASSUME NEW s \in Text, s # <<>>, ~ IsSpace(s[1])
  PROVE  SkipSpaces(s) = s
<1> DEFINE len == Len(s)
           a == SkipSpaces(s)
           n == 0
<1>1. len \in Nat /\ len > 0
  BY NotEmpty, TextHas
<1>2. n \in 0 .. Len(s) /\ InFront(s, n)
  <2>1. \A j \in 1 .. 0 : IsSpace(s[j])
    OBVIOUS
  <2>2. 0 \in 0 .. Len(s) /\ 0 + 1 = 1
    BY <1>1
  <2> QED
    BY <2>1, <2>2 DEF InFront
<1>3. a \in Text /\ Len(a) = len - n /\ \A i \in 1 .. len - n : a[i] = s[n + i]
  <2> HIDE DEF n
  <2> QED
    BY <1>2, SkipFrom
<1>4. len - n = len /\ \A i \in 1 .. len : n + i = i
  BY <1>1
<1> HIDE DEF n, a
<1>5. Len(a) = Len(s) /\ \A i \in 1 .. Len(a) : a[i] = s[i]
  BY <1>3, <1>4
<1>6. a = s
  BY <1>3, <1>5, SeqEqual DEF Text
<1> QED
  BY <1>6 DEF a

(* Of texts that begin with a digit nothing is skipped. *)
LEMMA DigitInFront ==
  ASSUME NEW s \in Text, s # <<>>, radix_val(s[1]) < 36
  PROVE  SkipSpaces(s) = s /\ Unsigned(s) = s /\ SignOf(s) = 1
<1>1. ~ IsSpace(s[1]) /\ ~ IsSign(s[1])
  BY RadixOf
<1>2. Unsigned(s) = s /\ SignOf(s) = 1
  BY <1>1, SignIsBySigns
<1> QED
  BY <1>1, <1>2, NothingSkipped

(* What a number prints. *)
Prints(d, n) == d # <<>> /\ (\A i \in 1 .. Len(d) : radix_val(d[i]) < 10) /\ Positional(d, 10) = n

LEMMA DigitCharacter ==
  ASSUME NEW k \in 0 .. 9
  PROVE  Numerals[k + 1] \in Character /\ radix_val(Numerals[k + 1]) = k
<1>1. k + 1 \in 1 .. 36
  OBVIOUS
<1>2. Numerals[k + 1] \in Character
  BY <1>1, NumeralsAre
<1> QED
  BY <1>2, RadixOf

LEMMA PrintsOne ==
  ASSUME NEW k \in 0 .. 9
  PROVE  Prints(<<Numerals[k + 1]>>, k)
<1> DEFINE c == Numerals[k + 1]
           d == <<c>>
<1>1. c \in Character /\ radix_val(c) = k
  BY DigitCharacter
<1> HIDE DEF c
<1>2. Positional(d, 10) = k
  BY <1>1, PositionalOne
<1>3. d \in Text /\ Len(d) = 1 /\ d[1] = c
  BY <1>1, OneCharacter
<1> HIDE DEF d
<1>4. d # <<>> /\ \A i \in 1 .. Len(d) : radix_val(d[i]) < 10
  <2>1. \A i \in 1 .. Len(d) : i = 1
    BY <1>3
  <2> QED
    BY <1>1, <1>3, <2>1, NotEmpty
<1> QED
  BY <1>2, <1>4 DEF Prints, d, c

LEMMA PrintsNext ==
  ASSUME NEW d \in Text, NEW k \in Nat, Prints(d, k \div 10)
  PROVE  Prints(Append(d, Numerals[(k % 10) + 1]), k)
<1> DEFINE n == k % 10
           c == Numerals[n + 1]
           w == Append(d, c)
           q == k \div 10
<1>1. n \in 0 .. 9 /\ q \in Nat /\ k = q * 10 + n
  OBVIOUS
<1> HIDE DEF n, q
<1>2. c \in Character /\ radix_val(c) = n
  BY <1>1, DigitCharacter
<1>3. d # <<>> /\ (\A i \in 1 .. Len(d) : radix_val(d[i]) < 10) /\ Positional(d, 10) = q
  BY DEF Prints, q
<1> HIDE DEF c
<1>4. /\ w \in Text /\ w # <<>> /\ Len(w) = Len(d) + 1 /\ (\A i \in 1 .. Len(d) : w[i] = d[i])
      /\ w[Len(d) + 1] = c /\ Len(d) \in Nat
  BY <1>2, AppendProperties, TextHas DEF Text
<1>5. Positional(w, 10) = q * 10 + n
  <2>1. 10 \in Int
    OBVIOUS
  <2>2. Positional(w, 10) = Positional(d, 10) * 10 + radix_val(c)
    BY <1>2, <2>1, PositionalAppend
  <2> QED
    BY <1>2, <1>3, <2>2
<1> HIDE DEF w
<1>6. ASSUME NEW i \in 1 .. Len(w) PROVE radix_val(w[i]) < 10
  <2>1. i \in 1 .. Len(d) \/ i = Len(d) + 1
    BY <1>4
  <2>2. n < 10
    BY <1>1
  <2> QED
    BY <1>2, <1>3, <1>4, <2>1, <2>2
<1> QED
  BY <1>1, <1>4, <1>5, <1>6 DEF Prints, w, c, n

LEMMA DecimalPrints ==
  ASSUME NEW n \in Int
  PROVE  \E d \in Text : IF n < 0 THEN Decimal(n) = <<"-">> \o d /\ Prints(d, -n)
                         ELSE Decimal(n) = d /\ Prints(d, n)
<1>1. PICK digits \in [Nat -> Text] :
        /\ \A k \in Nat : digits[k] = DecimalStep(digits, k)
        /\ Decimal(n) = IF n < 0 THEN <<"-">> \o digits[-n] ELSE digits[n]
  BY DecimalSteps
<1>2. \A k \in Nat : Prints(digits[k], k)
  <2> DEFINE P == {k \in Nat : Prints(digits[k], k)}
             rank == [k \in Nat |-> k]
  <2>1. ASSUME NEW k \in Nat, \A j \in Nat : rank[j] < rank[k] => j \in P PROVE k \in P
    <3>1. CASE k < 10
      <4>1. k \in 0 .. 9 /\ digits[k] = <<Numerals[k + 1]>>
        BY <1>1, <3>1 DEF DecimalStep
      <4>2. Prints(digits[k], k)
        BY <4>1, PrintsOne
      <4> QED
        BY <4>2
    <3>2. CASE ~ (k < 10)
      <4>1. k \div 10 \in Nat /\ k \div 10 < k
        BY <3>2
      <4>2. digits[k] = Append(digits[k \div 10], Numerals[(k % 10) + 1])
        BY <1>1, <3>2 DEF DecimalStep
      <4>3. digits[k \div 10] \in Text /\ Prints(digits[k \div 10], k \div 10)
        BY <2>1, <4>1
      <4>4. Prints(digits[k], k)
        BY <4>2, <4>3, PrintsNext
      <4> QED
        BY <4>4
    <3> QED
      BY <3>1, <3>2
  <2>2. rank \in [Nat -> Nat]
    OBVIOUS
  <2> HIDE DEF P, rank
  <2>3. \A k \in Nat : k \in P
    BY <2>1, <2>2, ByRank
  <2> QED
    BY <2>3 DEF P
<1>3. CASE n < 0
  <2>1. -n \in Nat
    BY <1>3
  <2> QED
    BY <1>1, <1>2, <1>3, <2>1
<1>4. CASE ~ (n < 0)
  BY <1>1, <1>2, <1>4
<1> QED
  BY <1>3, <1>4

ZeroX(a, b) == a = "0" /\ b = "x"

LEMMA PrefixIs ==
  ASSUME NEW s
  PROVE  HasPrefix(s) <=> Len(s) >= 2 /\ ZeroX(s[1], s[2])
BY DEF HasPrefix, ZeroX

LEMMA XIsNoDigit ==
  ASSUME NEW a, NEW b, ZeroX(a, b)
  PROVE  radix_val(b) >= 16 /\ radix_val(a) = 0
<1>1. Numerals[0 + 1] = "0"
  BY DEF Numerals
<1>2. 0 \in 0 .. 9
  OBVIOUS
<1>3. radix_val("0") = 0
  BY <1>1, <1>2, RadixOf
<1> QED
  BY <1>3, RadixOf DEF ZeroX

LEMMA MinusInFront ==
  ASSUME NEW d \in Text
  PROVE  LET s == <<"-">> \o d
         IN  SkipSpaces(s) = s /\ Unsigned(s) = d /\ SignOf(s) = -1 /\ s \in Text
<1> DEFINE minus == <<"-">>
           s == minus \o d
<1>1. minus \in Text /\ Len(minus) = 1 /\ ~ IsSpace(minus[1]) /\ IsMinus(minus[1]) /\ IsSign(minus[1])
  BY NumeralsAre, OneCharacter DEF IsSpace, IsMinus, IsSign
<1> HIDE DEF minus
<1>2. /\ s \in Text /\ Len(s) = 1 + Len(d) /\ (\A i \in 1 .. 1 : s[i] = minus[i])
      /\ \A i \in 1 .. Len(d) : s[1 + i] = d[i]
  <2> DEFINE one == Len(minus)
  <2>1. /\ s \in Text /\ Len(s) = one + Len(d) /\ (\A i \in 1 .. one : s[i] = minus[i])
        /\ \A i \in 1 .. Len(d) : s[one + i] = d[i]
    BY <1>1, ConcatHas
  <2>2. one = 1
    BY <1>1
  <2> HIDE DEF one, s
  <2> QED
    BY <2>1, <2>2
<1>3. s[1] = minus[1] /\ Len(d) \in Nat /\ s # <<>>
  <2>1. Len(d) \in Nat /\ 1 \in 1 .. 1
    BY TextHas
  <2>2. Len(s) > 0
    BY <1>2, <2>1
  <2> HIDE DEF s
  <2> QED
    BY <1>2, <2>1, <2>2, NotEmpty
<1> HIDE DEF s
<1>4. SkipSpaces(s) = s
  BY <1>1, <1>2, <1>3, NothingSkipped
<1>5. Unsigned(s) = Tail(s) /\ SignOf(s) = -1
  BY <1>1, <1>2, <1>3, SignIsBySigns
<1>6. Tail(s) = d
  <2> DEFINE a == Tail(s)
  <2>1. a \in Text /\ Len(a) = Len(s) - 1 /\ \A i \in 1 .. Len(a) : a[i] = s[i + 1]
    BY <1>2, <1>3, HeadTailProperties DEF Text
  <2> HIDE DEF a
  <2>2. Len(a) = Len(d)
    BY <1>2, <1>3, <2>1
  <2>3. \A i \in 1 .. Len(d) : i + 1 = 1 + i
    BY <1>3
  <2>4. \A i \in 1 .. Len(a) : a[i] = d[i]
    BY <1>2, <2>1, <2>2, <2>3
  <2>5. a = d
    BY <2>1, <2>2, <2>4, SeqEqual DEF Text
  <2> QED
    BY <2>5 DEF a
<1> QED
  BY <1>2, <1>4, <1>5, <1>6 DEF s, minus

(* parse_int reads what a number prints. *)
LEMMA PrintedIsRead ==
  ASSUME NEW n \in Int
  PROVE  parse_int(Decimal(n), 10) = Num(n)
<1> DEFINE s == Decimal(n)
           ten == 10
<1>1. PICK d \in Text : IF n < 0 THEN s = <<"-">> \o d /\ Prints(d, -n) ELSE s = d /\ Prints(d, n)
  BY DecimalPrints
<1>2. s \in Text /\ Unsigned(SkipSpaces(s)) = d /\ SignOf(SkipSpaces(s)) = (IF n < 0 THEN -1 ELSE 1)
      /\ d # <<>> /\ (\A i \in 1 .. Len(d) : radix_val(d[i]) < 10)
      /\ Positional(d, 10) = (IF n < 0 THEN -n ELSE n)
  <2>1. CASE n < 0
    BY <1>1, <2>1, MinusInFront DEF Prints
  <2>2. CASE ~ (n < 0)
    <3>1. s = d /\ d # <<>> /\ (\A i \in 1 .. Len(d) : radix_val(d[i]) < 10) /\ Positional(d, 10) = n
      BY <1>1, <2>2 DEF Prints
    <3>2. 1 \in 1 .. Len(d)
      BY <3>1, NotEmpty, TextHas
    <3>3. radix_val(d[1]) < 36
      <4>1. radix_val(d[1]) < 10 /\ radix_val(d[1]) \in Int
        BY <3>1, <3>2, RadixVal
      <4> QED
        BY <4>1
    <3> HIDE DEF s
    <3> QED
      BY <2>2, <3>1, <3>3, DigitInFront
  <2> QED
    BY <2>1, <2>2
<1> HIDE DEF s
<1> DEFINE x == <<>>
<1>3. x \in Text /\ ~ (x # <<>>)
  BY EmptyText
<1> HIDE DEF x
<1>4. d \o x = d
  BY <1>3, TextAndNothing
<1>5. ten \in Int /\ ten >= 2 /\ ten <= 32 /\ ~ (ten = 16)
  OBVIOUS
<1>6. \A i \in 1 .. Len(d) : radix_val(d[i]) <= ten
  BY <1>2, RadixVal
<1>7. parse_int(s, ten) = Num(SignOf(SkipSpaces(s)) * Positional(d, ten))
  <2> HIDE DEF ten
  <2> QED
    BY <1>2, <1>3, <1>4, <1>5, <1>6, ParsedDigits
<1>8. SignOf(SkipSpaces(s)) * Positional(d, ten) = n
  <2>1. CASE n < 0
    <3>1. SignOf(SkipSpaces(s)) = -1 /\ Positional(d, ten) = -n /\ (-1) * (-n) = n
      BY <1>2, <2>1
    <3> QED
      BY <3>1
  <2>2. CASE ~ (n < 0)
    <3>1. SignOf(SkipSpaces(s)) = 1 /\ Positional(d, ten) = n /\ 1 * n = n
      BY <1>2, <2>2
    <3> QED
      BY <3>1
  <2> QED
    BY <2>1, <2>2
<1> QED
  BY <1>7, <1>8 DEF s, ten

(* Behind 0x digits are hexadecimal. *)
LEMMA PrefixIsHex ==
  ASSUME NEW s \in Text, s # <<>>, radix_val(s[1]) < 16, ~ HasPrefix(s)
  PROVE  parse_int(<<"0", "x">> \o s, 0) = parse_int(s, 16)
<1> DEFINE p == <<"0", "x">>
           w == p \o s
           d == Digits(s, 16)
           len == Len(s)
<1>1. p \in Text /\ Len(p) = 2 /\ ZeroX(p[1], p[2])
  <2>1. Numerals[1] = "0" /\ Numerals[34] = "x"
    BY DEF Numerals
  <2>2. 1 \in 1 .. 36 /\ 34 \in 1 .. 36
    OBVIOUS
  <2>3. "0" \in Character /\ "x" \in Character
    BY <2>1, <2>2, NumeralsAre
  <2> QED
    BY <2>3 DEF Text, ZeroX
<1> HIDE DEF p
<1>2. /\ w \in Text /\ Len(w) = Len(p) + len /\ (\A i \in 1 .. Len(p) : w[i] = p[i])
      /\ \A i \in 1 .. len : w[Len(p) + i] = s[i]
  BY <1>1, ConcatHas
<1>3. len \in Nat /\ len > 0
  BY NotEmpty, TextHas
<1> HIDE DEF w
<1>4. w # <<>> /\ w[1] = p[1] /\ w[2] = p[2] /\ Len(w) >= 2 /\ Len(w) = 2 + len
  <2>1. 1 \in 1 .. Len(p) /\ 2 \in 1 .. Len(p) /\ Len(w) > 0 /\ Len(w) >= 2
    BY <1>1, <1>2, <1>3
  <2> QED
    BY <1>1, <1>2, <2>1, NotEmpty
<1>5. HasPrefix(w) /\ radix_val(w[1]) < 36
  BY <1>1, <1>4, PrefixIs, XIsNoDigit
<1>6. SkipSpaces(w) = w /\ Unsigned(w) = w /\ SignOf(w) = 1
  BY <1>2, <1>4, <1>5, DigitInFront
<1>7. SkipSpaces(s) = s /\ Unsigned(s) = s /\ SignOf(s) = 1
  <2>1. radix_val(s[1]) < 36
    BY RadixVal
  <2> QED
    BY <2>1, DigitInFront
<1>8. SubSeq(w, 3, Len(w)) = s
  <2> DEFINE n == 3
             a == SubSeq(w, n, Len(w))
  <2>1. n \in Int /\ Len(w) \in Int /\ 1 <= n /\ Len(w) <= Len(w) /\ Len(w) - n + 1 = len
        /\ (IF n <= Len(w) THEN Len(w) - n + 1 ELSE 0) = len
        /\ \A i \in 1 .. len : n + i - 1 = Len(p) + i
    BY <1>1, <1>3, <1>4
  <2> HIDE DEF n
  <2>2. /\ a \in Text /\ Len(a) = IF n <= Len(w) THEN Len(w) - n + 1 ELSE 0
        /\ \A i \in 1 .. Len(w) - n + 1 : a[i] = w[n + i - 1]
    BY <1>2, <2>1, PartOfText
  <2> HIDE DEF a, len
  <2>3. Len(a) = len /\ \A i \in 1 .. len : a[i] = s[i]
    BY <1>2, <2>1, <2>2
  <2>4. a = s
    BY <2>2, <2>3, SeqEqual DEF Text, len
  <2> QED
    BY <2>4 DEF a, n
<1>9. parse_int(w, 0) = IF d = <<>> THEN JSNAN ELSE Num(1 * Positional(d, 16))
  <2> HIDE DEF d
  <2> QED
    BY <1>5, <1>6, <1>8 DEF parse_int, d
<1>10. parse_int(s, 16) = IF d = <<>> THEN JSNAN ELSE Num(1 * Positional(d, 16))
  <2>1. 16 \in 2 .. 32 /\ 16 # 0
    OBVIOUS
  <2> HIDE DEF d
  <2> QED
    BY <1>7, <2>1 DEF parse_int, d
<1> QED
  BY <1>9, <1>10 DEF w, p

(* What parse_int reads from a text, and from the text with one more       *)
(* character.                                                              *)
LEMMA TextIsRead ==
  ASSUME NEW s \in Text, NEW r \in Int, r >= 2, r <= 32,
         Unsigned(SkipSpaces(s)) # <<>>,
         \A i \in 1 .. Len(Unsigned(SkipSpaces(s))) : radix_val(Unsigned(SkipSpaces(s))[i]) < r,
         NEW c \in Character
  PROVE  /\ radix_val(c) < r =>
              parse_int(Append(s, c), r)
                = Num(r * parse_int(s, r).val[2] + SignOf(SkipSpaces(s)) * radix_val(c))
         /\ radix_val(c) > r /\ ~ HasPrefix(Append(Unsigned(SkipSpaces(s)), c)) =>
              parse_int(s \o <<c, "1">>, r) = parse_int(s, r)
<1> DEFINE t == SkipSpaces(s)
           u == Unsigned(t)
           sg == SignOf(t)
           pos == Positional(u, r)
           k == radix_val(c)
           none == <<>>
<1>1. t \in Text /\ u \in Text /\ sg \in {-1, 1} /\ pos \in Int
  BY SkipIs, UnsignedIs, PositionalIs
<1>2. u # <<>> /\ \A i \in 1 .. Len(u) : radix_val(u[i]) < r
  OBVIOUS
<1>3. t # <<>>
  <2> SUFFICES ASSUME t = <<>> PROVE FALSE
    OBVIOUS
  <2>1. u = t
    BY <1>1, SignIsBySigns
  <2> QED
    BY <1>2, <2>1
<1>4. none \in Text /\ ~ (none # <<>>)
  BY EmptyText
<1>5. k \in Int
  BY RadixVal
<1> HIDE DEF t, u, sg, pos, k, none
<1>6. Len(u) \in Nat /\ Len(u) > 0 /\ \A i \in 1 .. Len(u) : radix_val(u[i]) <= r
  BY <1>1, <1>2, NotEmpty, TextHas, RadixVal
<1>7. ASSUME NEW d \in Text, r = 16, HasPrefix(d), \A i \in 1 .. Len(d) : radix_val(d[i]) < r PROVE FALSE
  <2>1. Len(d) >= 2 /\ ZeroX(d[1], d[2])
    BY <1>7, PrefixIs
  <2>2. 2 \in 1 .. Len(d) /\ radix_val(d[2]) >= 16
    BY <2>1, TextHas, XIsNoDigit
  <2>3. radix_val(d[2]) < 16 /\ radix_val(d[2]) \in Int
    BY <1>7, <2>2, RadixVal
  <2> QED
    BY <2>2, <2>3
<1>8. parse_int(s, r) = Num(sg * pos)
  <2>1. u \o none = u /\ Unsigned(SkipSpaces(s)) = u
    BY <1>1, TextAndNothing DEF none, u, t
  <2>2. ~ (r = 16 /\ HasPrefix(u \o none))
    BY <1>1, <1>2, <1>7, <2>1
  <2>3. parse_int(s, r) = Num(SignOf(SkipSpaces(s)) * Positional(u, r))
    BY <1>1, <1>2, <1>4, <1>6, <2>1, <2>2, ParsedDigits
  <2> QED
    BY <2>3 DEF sg, pos, t
<1>9. parse_int(s, r).val[2] = sg * pos
  <2>1. sg * pos \in Int
    BY <1>1
  <2> QED
    BY <1>8, <2>1, NumIs DEF Fin
<1>10. ASSUME k < r PROVE parse_int(Append(s, c), r) = Num(r * (sg * pos) + sg * k)
  <2> DEFINE w == Append(s, c)
             d == Append(u, c)
  <2>1. w \in Text /\ w = s \o <<c>> /\ <<c>> \in Text /\ d = u \o <<c>>
    BY <1>1, AppendIs
  <2>2. d \in Text /\ d # <<>> /\ Len(d) = Len(u) + 1 /\ (\A i \in 1 .. Len(u) : d[i] = u[i]) /\ d[Len(u) + 1] = c
    BY <1>1, AppendProperties DEF Text
  <2> DEFINE x == <<c>>
  <2>3. SkipSpaces(w) = t \o x
    BY <1>3, <2>1, SkipConcat DEF t
  <2>4. Unsigned(t \o x) = u \o x /\ SignOf(t \o x) = sg
    <3> HIDE DEF x
    <3> QED
      BY <1>1, <1>3, <2>1, UnsignedConcat DEF u, sg, x
  <2>5. Unsigned(SkipSpaces(w)) = d /\ SignOf(SkipSpaces(w)) = sg
    BY <2>1, <2>3, <2>4
  <2>6. Positional(d, r) = pos * r + k
    BY <1>1, PositionalAppend DEF pos, k
  <2> HIDE DEF w, d, x
  <2>7. ASSUME NEW i \in 1 .. Len(d) PROVE radix_val(d[i]) < r
    <3>1. i \in 1 .. Len(u) \/ i = Len(u) + 1
      BY <1>6, <2>2
    <3> QED
      BY <1>2, <1>10, <2>2, <3>1 DEF k
  <2>8. \A i \in 1 .. Len(d) : radix_val(d[i]) <= r
    BY <2>7, RadixVal
  <2>9. d \o none = d
    BY <2>2, TextAndNothing DEF none
  <2>10. ~ (r = 16 /\ HasPrefix(d \o none))
    BY <1>7, <2>2, <2>7, <2>9
  <2>11. parse_int(w, r) = Num(SignOf(SkipSpaces(w)) * Positional(d, r))
    <3>1. Unsigned(SkipSpaces(w)) = d \o none /\ (none # <<>> => radix_val(none[1]) > r)
      BY <1>4, <2>5, <2>9
    <3>2. w \in Text /\ d \in Text /\ d # <<>> /\ none \in Text
      BY <1>4, <2>1, <2>2
    <3> QED
      BY <2>8, <2>10, <3>1, <3>2, ParsedDigits
  <2>12. sg * (pos * r + k) = r * (sg * pos) + sg * k
    <3> DEFINE q == pos * r
    <3>1. q \in Int /\ q = r * pos
      BY <1>1
    <3>2. CASE sg = 1
      <4>1. sg * pos = pos /\ sg * k = k /\ sg * (q + k) = q + k
        <5> HIDE DEF q
        <5> QED
          BY <1>1, <1>5, <3>1, <3>2
      <4> QED
        BY <3>1, <4>1
    <3>3. CASE sg = -1
      <4>1. sg * pos = -pos /\ sg * k = -k /\ sg * (q + k) = -q - k
        <5> HIDE DEF q
        <5> QED
          BY <1>1, <1>5, <3>1, <3>3
      <4>2. r * (-pos) = -(r * pos)
        BY <1>1
      <4>3. -q - k = -q + -k
        <5> HIDE DEF q
        <5> QED
          BY <1>5, <3>1
      <4> QED
        BY <3>1, <4>1, <4>2, <4>3
    <3> QED
      BY <1>1, <3>2, <3>3
  <2> QED
    BY <2>5, <2>6, <2>11, <2>12 DEF w
<1>11. ASSUME k > r, ~ HasPrefix(Append(u, c)) PROVE parse_int(s \o <<c, "1">>, r) = Num(sg * pos)
  <2> DEFINE x == <<c, "1">>
             w == s \o x
             d == Append(u, c)
  <2>1. x \in Text /\ x[1] = c /\ Len(x) = 2
    <3>1. Numerals[2] = "1"
      BY DEF Numerals
    <3>2. 2 \in 1 .. 36
      OBVIOUS
    <3>3. "1" \in Character
      BY <3>1, <3>2, NumeralsAre
    <3> QED
      BY <3>3 DEF Text
  <2>2. d \in Text /\ Len(d) = Len(u) + 1 /\ (\A i \in 1 .. Len(u) : d[i] = u[i]) /\ d[Len(u) + 1] = c
    BY <1>1, AppendProperties DEF Text
  <2> HIDE DEF x, d
  <2>3. SkipSpaces(w) = t \o x
    BY <1>3, <2>1, SkipConcat DEF t
  <2>4. Unsigned(t \o x) = u \o x /\ SignOf(t \o x) = sg
    BY <1>1, <1>3, <2>1, UnsignedConcat DEF u, sg
  <2>5. /\ u \o x \in Text /\ Len(u \o x) = Len(u) + Len(x) /\ (\A i \in 1 .. Len(u) : (u \o x)[i] = u[i])
        /\ \A i \in 1 .. Len(x) : (u \o x)[Len(u) + i] = x[i]
    BY <1>1, <2>1, ConcatHas
  <2> DEFINE y == u \o x
  <2>6. ~ HasPrefix(y)
    <3>1. 1 \in 1 .. Len(x) /\ y[Len(u) + 1] = c
      BY <2>1, <2>5
    <3>2. \A i \in 1 .. Len(u) + 1 : y[i] = d[i]
      <4> SUFFICES ASSUME NEW i \in 1 .. Len(u) + 1 PROVE y[i] = d[i]
        OBVIOUS
      <4>1. i \in 1 .. Len(u) \/ i = Len(u) + 1
        BY <1>6
      <4> QED
        BY <2>2, <2>5, <3>1, <4>1
    <3>3. 1 \in 1 .. Len(u) + 1 /\ 2 \in 1 .. Len(u) + 1 /\ Len(d) >= 2
      BY <1>6, <2>2
    <3>4. y[1] = d[1] /\ y[2] = d[2]
      BY <3>2, <3>3
    <3> HIDE DEF y
    <3> QED
      BY <1>11, <3>3, <3>4, PrefixIs DEF d
  <2>7. w \in Text
    BY <2>1, ConcatHas
  <2> HIDE DEF w
  <2>8. Unsigned(SkipSpaces(w)) = u \o x /\ ~ (r = 16 /\ HasPrefix(u \o x))
    BY <2>3, <2>4, <2>6
  <2>9. x # <<>> => radix_val(x[1]) > r
    BY <1>11, <2>1 DEF k
  <2>10. parse_int(w, r) = Num(SignOf(SkipSpaces(w)) * Positional(u, r))
    <3> HIDE DEF y
    <3> QED
      BY <1>1, <1>2, <1>6, <2>1, <2>7, <2>8, <2>9, ParsedDigits
  <2> QED
    BY <2>3, <2>4, <2>10 DEF w, x, pos
<1> QED
  BY <1>8, <1>9, <1>10, <1>11 DEF t, u, sg, k

LEMMA ParseHolds == PrimitiveTypeOK => ParseIntReads
<1> SUFFICES ASSUME PrimitiveTypeOK PROVE ParseIntReads
  OBVIOUS
<1>1. v \in JSValue /\ (IS_STR(v) => v.ptr \in Text)
  BY StateIs
<1>2. HasText(v) /\ ~ IS_STR(v) => parse_int(fh_to_string(v).ptr, 10) = v
  <2> SUFFICES ASSUME HasText(v), ~ IS_STR(v) PROVE parse_int(fh_to_string(v).ptr, 10) = v
    OBVIOUS
  <2>1. v \in JSNumber /\ ~ v.is_nan /\ IsFin(v.val)
    BY <1>1, ValueCases DEF HasText
  <2>2. v.val \in CDouble /\ v.is_nan \in BOOLEAN
    BY <2>1, NumberHas
  <2>3. v.val[2] \in Int /\ v.val = Fin(v.val[2])
    BY <2>1, <2>2, DoubleCases
  <2> DEFINE n == v.val[2]
  <2>4. Num(n) = v
    <3>1. Num(n) \in JSNumber /\ Num(n).val = v.val /\ Num(n).is_nan = v.is_nan
      BY <2>1, <2>2, <2>3, NumIs DEF JSNumber
    <3> HIDE DEF n
    <3> QED
      BY <2>1, <3>1 DEF JSNumber
  <2>5. fh_to_string(v).ptr = Decimal(n)
    BY DEF fh_to_string, JSSTR
  <2> HIDE DEF n
  <2>6. n \in Int
    BY <2>3 DEF n
  <2> QED
    BY <2>4, <2>5, <2>6, PrintedIsRead
<1>3. ASSUME IS_STR(v), NEW r \in Radices \cap 2 .. 36
      PROVE  LET s == v.ptr
                 n == parse_int(s, r)
                 u == Unsigned(SkipSpaces(s))
             IN  /\ parse_int(<<" ">> \o s, r) = n
                 /\ s # <<>> /\ radix_val(s[1]) < 16 /\ ~HasPrefix(s) =>
                      parse_int(<<"0", "x">> \o s, 0) = parse_int(s, 16)
                 /\ u # <<>> /\ r <= 32 /\ (\A i \in 1 .. Len(u) : radix_val(u[i]) < r) =>
                      \A c \in ToSet(Collation) :
                        /\ radix_val(c) < r =>
                             parse_int(Append(s, c), r)
                               = Num(r * n.val[2] + SignOf(SkipSpaces(s)) * radix_val(c))
                        /\ radix_val(c) > r /\ ~HasPrefix(Append(u, c)) => parse_int(s \o <<c, "1">>, r) = n
  <2> DEFINE s == v.ptr
             u == Unsigned(SkipSpaces(s))
             n == parse_int(s, r)
  <2>1. s \in Text /\ r \in Int /\ r >= 2
    BY <1>1, <1>3
  <2> HIDE DEF s
  <2>2. parse_int(<<" ">> \o s, r) = n
    <3> DEFINE w == <<" ">> \o s
    <3>1. SkipSpaces(w) = SkipSpaces(s)
      BY <2>1, SkipOneMore
    <3> HIDE DEF w
    <3>2. parse_int(w, r) = parse_int(s, r)
      BY <3>1 DEF parse_int
    <3> QED
      BY <3>2 DEF w
  <2>3. s # <<>> /\ radix_val(s[1]) < 16 /\ ~HasPrefix(s) => parse_int(<<"0", "x">> \o s, 0) = parse_int(s, 16)
    BY <2>1, PrefixIsHex
  <2>4. ASSUME u # <<>>, r <= 32, \A i \in 1 .. Len(u) : radix_val(u[i]) < r, NEW c \in ToSet(Collation)
        PROVE  /\ radix_val(c) < r =>
                    parse_int(Append(s, c), r) = Num(r * n.val[2] + SignOf(SkipSpaces(s)) * radix_val(c))
               /\ radix_val(c) > r /\ ~HasPrefix(Append(u, c)) => parse_int(s \o <<c, "1">>, r) = n
    <3>1. c \in Character
      BY DEF Character
    <3> QED
      BY <2>1, <2>4, <3>1, TextIsRead
  <2> QED
    BY <2>2, <2>3, <2>4 DEF s
<1> QED
  BY <1>2, <1>3 DEF ParseIntReads

(* Whatever a script has made of its variable, parseInt (runtime.c:74-130) *)
(* reads back the decimal text of a whole number, skips spaces, reads what *)
(* follows 0x as hexadecimal, and with one more character behind a numeral *)
(* it answers one more digit, or the same if that is no digit of the radix.*)
THEOREM ParseIntCorrect == PrimitiveSpec => []ParseIntReads
<1>1. PrimitiveTypeOK => ParseIntReads
  BY ParseHolds
<1>2. PrimitiveSpec => []PrimitiveTypeOK
  BY PrimitiveTypeCorrect
<1> QED
  BY <1>1, <1>2, PTL

-----------------------------------------------------------------------------
(* Where a text is in a string.                                            *)

(* The first k characters of t are behind the first p of s. *)
Fits(s, t, p, k) == \A j \in 1 .. k : t[j] = s[p + j]

LEMMA PlaceIs ==
  ASSUME NEW s \in Text, NEW t \in Text, NEW p \in 0 .. Len(s)
  PROVE  p \in Places(s, t) <=> p + Len(t) <= Len(s) /\ Fits(s, t, p, Len(t))
<1> DEFINE rest == Slice(s, p, Len(s))
           m == Len(t)
           len == Len(s)
           a == SubSeq(t, 1, m)
           b == SubSeq(rest, 1, m)
<1>1. m \in Nat /\ len \in Nat /\ p \in 0 .. len
  BY TextHas
<1>2. rest \in Text /\ Len(rest) = len - p /\ \A i \in 1 .. len - p : rest[i] = s[p + i]
  <2>1. p + 1 \in Int /\ 1 <= p + 1 /\ len \in Int /\ len <= Len(s)
        /\ (IF p + 1 <= len THEN len - (p + 1) + 1 ELSE 0) = len - p
        /\ \A i \in 1 .. len - p : i \in 1 .. len - (p + 1) + 1 /\ (p + 1) + i - 1 = p + i
    BY <1>1 DEF len
  <2> DEFINE q == p + 1
  <2> HIDE DEF q, len
  <2>2. /\ SubSeq(s, q, len) \in Text
        /\ Len(SubSeq(s, q, len)) = IF q <= len THEN len - q + 1 ELSE 0
        /\ \A i \in 1 .. len - q + 1 : SubSeq(s, q, len)[i] = s[q + i - 1]
    BY <2>1, PartOfText DEF q
  <2>3. rest = SubSeq(s, q, len)
    BY DEF Slice, q, len
  <2> HIDE DEF rest
  <2> QED
    BY <2>1, <2>2, <2>3 DEF q
<1>3. p \in Places(s, t) <=> m <= Len(rest) /\ a = b
  BY DEF Places, IsPrefix
<1> SUFFICES p \in Places(s, t) <=> p + m <= len /\ Fits(s, t, p, m)
  BY DEF m, len
<1> HIDE DEF rest, m, len
<1>4. CASE m <= Len(rest)
  <2>1. /\ a \in Text /\ Len(a) = m /\ \A i \in 1 .. m : a[i] = t[i]
    BY <1>1, Prefix DEF Text, m
  <2>2. /\ b \in Text /\ Len(b) = m /\ \A i \in 1 .. m : b[i] = rest[i]
    <3>1. m \in 0 .. Len(rest)
      BY <1>1, <1>2, <1>4
    <3> QED
      BY <1>2, <3>1, Prefix DEF Text
  <2> HIDE DEF a, b
  <2>3. \A i \in 1 .. m : i \in 1 .. len - p
    BY <1>1, <1>2, <1>4
  <2>4. a = b => Fits(s, t, p, m)
    BY <1>2, <2>1, <2>2, <2>3 DEF Fits
  <2>5. Fits(s, t, p, m) => a = b
    <3> SUFFICES ASSUME Fits(s, t, p, m) PROVE a = b
      OBVIOUS
    <3>1. \A i \in 1 .. m : a[i] = b[i]
      BY <1>2, <2>1, <2>2, <2>3 DEF Fits
    <3> QED
      BY <2>1, <2>2, <3>1, SeqEqual DEF Text
  <2>6. p + m <= len
    BY <1>1, <1>2, <1>4
  <2> QED
    BY <1>3, <1>4, <2>4, <2>5, <2>6
<1>5. CASE ~ (m <= Len(rest))
  <2>1. ~ (p + m <= len)
    BY <1>1, <1>2, <1>5
  <2> QED
    BY <1>3, <1>5, <2>1
<1> QED
  BY <1>4, <1>5

LEMMA InPlaces ==
  ASSUME NEW s \in Text, NEW t \in Text
  PROVE  \A p : p \in Places(s, t) <=> p \in Nat /\ p + Len(t) <= Len(s) /\ Fits(s, t, p, Len(t))
<1>1. Len(s) \in Nat /\ Len(t) \in Nat
  BY TextHas
<1> SUFFICES ASSUME NEW p
             PROVE  p \in Places(s, t) <=> p \in Nat /\ p + Len(t) <= Len(s) /\ Fits(s, t, p, Len(t))
  OBVIOUS
<1>2. p \in Places(s, t) => p \in 0 .. Len(s)
  BY DEF Places
<1>3. p \in Nat /\ p + Len(t) <= Len(s) => p \in 0 .. Len(s)
  BY <1>1
<1>4. p \in 0 .. Len(s) => p \in Nat
  BY <1>1
<1> QED
  BY <1>2, <1>3, <1>4, PlaceIs

(* What a scan has matched at position i it has matched at i + 1, with one *)
(* character more, or it starts again.                                     *)
LEMMA ScanFits ==
  ASSUME NEW s \in Text, NEW t \in Text, t # <<>>, NEW i \in Nat, i < Len(s),
         NEW k \in Nat, k <= i, k < Len(t), Fits(s, t, i - k, k)
  PROVE  LET m == Scan(s, i, t, k)
         IN  /\ m \in 0 .. Len(t) /\ m <= k + 1 /\ Fits(s, t, i + 1 - m, m)
             /\ Scannable(t) => \A p \in i - k .. i - m : ~ Fits(s, t, p, Len(t))
<1> DEFINE m == Scan(s, i, t, k)
           here == s[i + 1]
           size == Len(t)
<1>1. size \in Nat /\ size > 0
  BY NotEmpty, TextHas
<1>2. m = IF t[k + 1] = here THEN k + 1 ELSE IF t[0 + 1] = here THEN 1 ELSE 0
  <2>1. k < Len(t) /\ 0 < Len(t)
    BY <1>1
  <2> QED
    BY <2>1 DEF Scan, IsAt, At
<1>3. \A j \in 1 .. k : t[j] = s[(i - k) + j]
  BY DEF Fits
<1>4. 0 + 1 = 1
  OBVIOUS
<1>5. k < size /\ k <= i
  OBVIOUS
<1> SUFFICES /\ m \in 0 .. size /\ m <= k + 1 /\ Fits(s, t, i + 1 - m, m)
             /\ Scannable(t) => \A p \in i - k .. i - m : ~ Fits(s, t, p, size)
  OBVIOUS
<1> HIDE DEF m, size
<1>6. CASE t[k + 1] = here
  <2>1. m = k + 1
    BY <1>2, <1>6
  <2>2. ASSUME NEW j \in 1 .. k + 1 PROVE t[j] = s[(i - k) + j]
    <3>1. CASE j \in 1 .. k
      BY <1>3, <3>1
    <3>2. CASE j = k + 1
      <4>1. (i - k) + j = i + 1
        BY <3>2
      <4> QED
        BY <1>6, <3>2, <4>1
    <3> QED
      BY <3>1, <3>2
  <2>3. i + 1 - m = i - k /\ m \in 0 .. size /\ i - m < i - k
    BY <1>1, <1>5, <2>1
  <2>4. Fits(s, t, i - k, k + 1)
    BY <2>2 DEF Fits
  <2>5. \A p \in i - k .. i - m : FALSE
    BY <2>1
  <2> QED
    BY <2>1, <2>3, <2>4, <2>5
<1>7. CASE t[k + 1] # here
  <2>1. m = IF t[1] = here THEN 1 ELSE 0
    BY <1>2, <1>4, <1>7
  <2>2. m \in 0 .. size /\ m <= k + 1
    BY <1>1, <2>1
  <2>3. Fits(s, t, i + 1 - m, m)
    <3>1. CASE m = 1
      <4>1. t[1] = here
        BY <2>1, <3>1
      <4>2. i + 1 - m = i /\ \A j \in 1 .. m : j = 1
        BY <3>1
      <4>3. \A j \in 1 .. m : t[j] = s[i + j]
        BY <4>1, <4>2
      <4> QED
        BY <4>2, <4>3 DEF Fits
    <3>2. CASE m = 0
      BY <3>2 DEF Fits
    <3> QED
      BY <2>1, <3>1, <3>2
  <2>4. ASSUME Scannable(t), NEW p \in i - k .. i - m, Fits(s, t, p, size) PROVE FALSE
    <3>1. \A j \in 1 .. size : t[j] = s[p + j]
      BY <2>4 DEF Fits
    <3>2. \A j \in 2 .. size : t[j] # t[1]
      BY <2>4 DEF Scannable, size
    <3>3. p \in Int /\ i - k <= p /\ p <= i - m /\ m \in {0, 1}
      BY <2>1
    <3>4. CASE p = i - k
      <4>1. k + 1 \in 1 .. size /\ p + (k + 1) = i + 1
        BY <1>1, <1>5, <3>4
      <4>2. t[k + 1] = s[p + (k + 1)]
        BY <3>1, <4>1
      <4> QED
        BY <1>7, <4>1, <4>2
    <3>5. CASE p # i - k /\ p < i
      <4> DEFINE j == p - (i - k) + 1
      <4>1. j \in 2 .. k /\ j \in 2 .. size /\ j \in 1 .. k /\ (i - k) + j = p + 1
        BY <1>1, <1>5, <3>3, <3>5
      <4> HIDE DEF j
      <4>2. t[j] = s[p + 1]
        BY <1>3, <4>1
      <4>3. 1 \in 1 .. size
        BY <1>1
      <4>4. t[1] = s[p + 1]
        BY <3>1, <4>3
      <4> QED
        BY <3>2, <4>1, <4>2, <4>4
    <3>6. CASE p # i - k /\ p >= i
      <4>1. p = i /\ m = 0
        BY <3>3, <3>6
      <4>2. 1 \in 1 .. size /\ p + 1 = i + 1
        BY <1>1, <4>1
      <4>3. t[1] = here
        BY <3>1, <4>2
      <4> QED
        BY <2>1, <4>1, <4>3
    <3> QED
      BY <3>3, <3>4, <3>5, <3>6
  <2> QED
    BY <2>2, <2>3, <2>4
<1> QED
  BY <1>6, <1>7

(* The answer of a search from b on. *)
IsFirst(s, t, b, r) ==
  /\ r = -1 \/ (r \in Places(s, t) /\ r >= b)
  /\ Scannable(t) => \A p \in Places(s, t) : p >= b => r # -1 /\ r <= p

LEMMA FindsFirst ==
  ASSUME NEW s \in Text, NEW t \in Text, t # <<>>, NEW find \in [Nat -> [Nat -> Int]],
         \A i \in Nat : find[i] = FindRow(s, t, i, find[i + 1])
  PROVE  \A i \in Nat : \A k \in 0 .. i : k < Len(t) /\ Fits(s, t, i - k, k) => IsFirst(s, t, i - k, find[i][k])
<1> DEFINE len == Len(s)
           size == Len(t)
           rank == [i \in Nat |-> IF i < len THEN len - i ELSE 0]
           P == {i \in Nat : \A k \in 0 .. i : k < size /\ Fits(s, t, i - k, k) => IsFirst(s, t, i - k, find[i][k])}
<1>1. len \in Nat /\ size \in Nat
  BY TextHas
<1>2. rank \in [Nat -> Nat]
  <2> HIDE DEF len
  <2> QED
    BY <1>1
<1>3. \A p : p \in Places(s, t) <=> p \in Nat /\ p + size <= len /\ Fits(s, t, p, size)
  BY InPlaces
<1>4. ASSUME NEW i \in Nat, \A j \in Nat : rank[j] < rank[i] => j \in P,
             NEW k \in 0 .. i, k < size, Fits(s, t, i - k, k)
      PROVE  IsFirst(s, t, i - k, find[i][k])
  <2> DEFINE b == i - k
             m == Scan(s, i, t, k)
  <2>1. k \in Nat /\ k <= i /\ b \in Nat /\ b + k = i
    BY <1>4
  <2>2. find[i][k] = IF i >= len THEN -1 ELSE IF m = size THEN i - size + 1 ELSE find[i + 1][m]
    BY <2>1, ZenonT(60) DEF FindRow
  <2>3. CASE i >= len
    <3>1. find[i][k] = -1
      BY <2>2, <2>3
    <3>2. ASSUME NEW p \in Places(s, t), p >= b PROVE FALSE
      <4>1. p \in Nat /\ p + size <= len
        BY <1>3, <3>2
      <4> HIDE DEF len, size, b
      <4> QED
        BY <1>1, <1>4, <2>1, <2>3, <3>2, <4>1
    <3> QED
      BY <3>1, <3>2 DEF IsFirst
  <2>4. CASE ~ (i >= len)
    <3>1. i < Len(s)
      BY <1>1, <2>4
    <3>2. /\ m \in 0 .. size /\ m <= k + 1 /\ Fits(s, t, i + 1 - m, m)
          /\ Scannable(t) => \A p \in i - k .. i - m : ~ Fits(s, t, p, size)
      BY <1>4, <2>1, <3>1, ScanFits
    <3> HIDE DEF m
    <3> DEFINE a == i + 1 - m
    <3>3. m \in Nat /\ a \in Nat /\ b <= a /\ a + m = i + 1 /\ i - m = a - 1
      BY <1>1, <2>1, <3>2
    <3>4. Scannable(t) => \A p \in Places(s, t) : p >= b => p >= a
      <4> SUFFICES ASSUME Scannable(t), NEW p \in Places(s, t), p >= b, ~ (p >= a) PROVE FALSE
        OBVIOUS
      <4>1. p \in Nat /\ Fits(s, t, p, size)
        BY <1>3
      <4> HIDE DEF a
      <4>2. p \in i - k .. i - m
        BY <2>1, <3>3, <4>1
      <4> QED
        BY <3>2, <4>1, <4>2
    <3> HIDE DEF a, b
    <3>5. CASE m = size
      <4>1. find[i][k] = a
        BY <2>2, <2>4, <3>5 DEF a
      <4>2. a \in Places(s, t)
        <5>1. a + size <= len /\ Fits(s, t, a, size)
          BY <1>1, <3>1, <3>2, <3>3, <3>5 DEF a
        <5> QED
          BY <1>3, <3>3, <5>1
      <4>3. a >= b /\ a # -1
        BY <2>1, <3>3
      <4> QED
        BY <3>4, <4>1, <4>2, <4>3 DEF IsFirst, b
    <3>6. CASE m # size
      <4>1. find[i][k] = find[i + 1][m]
        BY <2>2, <2>4, <3>6
      <4>2. i + 1 \in Nat /\ rank[i + 1] < rank[i] /\ m \in 0 .. i + 1 /\ m < size
        <5>1. rank[i + 1] < rank[i]
          <6>1. rank[i] = (IF i < len THEN len - i ELSE 0) /\ rank[i + 1] = IF i + 1 < len THEN len - (i + 1) ELSE 0
            OBVIOUS
          <6> DEFINE x == rank[i]
                     y == rank[i + 1]
          <6> HIDE DEF len, size, rank, P, x, y
          <6>2. x = len - i
            BY <1>1, <2>4, <6>1 DEF x
          <6>3. y = IF i + 1 < len THEN len - (i + 1) ELSE 0
            BY <6>1 DEF y
          <6>4. y < x
            BY <1>1, <2>4, <6>2, <6>3
          <6> QED
            BY <6>4 DEF x, y
        <5> HIDE DEF size
        <5> QED
          BY <1>1, <2>1, <3>2, <3>6, <5>1
      <4>3. i + 1 \in P
        BY <1>4, <4>2
      <4>4. IsFirst(s, t, a, find[i + 1][m])
        BY <3>2, <4>2, <4>3 DEF a
      <4>5. \A p \in Places(s, t) : p \in Nat
        BY <1>3
      <4>6. \A p \in Places(s, t) : p >= a => p >= b
        BY <2>1, <3>3, <4>5
      <4> QED
        BY <3>4, <4>1, <4>4, <4>6 DEF IsFirst, b
    <3> QED
      BY <3>5, <3>6
  <2> QED
    BY <2>3, <2>4
<1>5. \A i \in Nat : (\A j \in Nat : rank[j] < rank[i] => j \in P) => i \in P
  BY <1>4
<1> HIDE DEF P, rank
<1>6. \A i \in Nat : i \in P
  BY <1>2, <1>5, ByRank
<1> QED
  BY <1>6 DEF P

LEMMA IndexFinds ==
  ASSUME NEW s \in Text, NEW t \in Text, t # <<>>, NEW from \in Nat
  PROVE  LET at == {p \in Places(s, t) : p >= from}
             i  == index_of(s, t, from)
         IN  i \in at \cup {-1} /\ (Scannable(t) => i = MinOr(at, -1))
<1> DEFINE at == {p \in Places(s, t) : p >= from}
           i == index_of(s, t, from)
<1>1. IsFirst(s, t, from, i)
  <2>1. PICK find \in [Nat -> [Nat -> Int]] :
           /\ \A j \in Nat : find[j] = FindRow(s, t, j, find[j + 1])
           /\ i = IF t = <<>> THEN IF from <= Len(s) THEN from ELSE Len(s)
                  ELSE IF Len(t) > Len(s) THEN -1
                  ELSE find[from][0]
    BY IndexSteps
  <2> HIDE DEF i
  <2>2. Len(t) \in Nat /\ Len(s) \in Nat /\ Len(t) > 0
    BY TextHas, NotEmpty
  <2>3. CASE Len(t) > Len(s)
    <3>1. i = -1
      BY <2>1, <2>3
    <3>2. \A p \in Places(s, t) : FALSE
      <4>1. \A p \in Places(s, t) : p \in Nat /\ p + Len(t) <= Len(s)
        BY InPlaces
      <4> QED
        BY <2>2, <2>3, <4>1, SMTT(40)
    <3> QED
      BY <3>1, <3>2 DEF IsFirst
  <2>4. CASE ~ (Len(t) > Len(s))
    <3>1. i = find[from][0]
      BY <2>1, <2>4
    <3>2. 0 \in 0 .. from /\ 0 < Len(t) /\ from - 0 = from /\ Fits(s, t, from, 0)
      BY <2>2 DEF Fits
    <3> DEFINE k == 0
    <3> HIDE DEF k
    <3>3. k \in 0 .. from /\ k < Len(t) /\ from - k = from /\ Fits(s, t, from - k, k) /\ i = find[from][k]
      BY <3>1, <3>2 DEF k
    <3>4. IsFirst(s, t, from - k, find[from][k])
      BY <2>1, <3>3, FindsFirst
    <3> QED
      BY <3>3, <3>4
  <2> QED
    BY <2>3, <2>4
<1> HIDE DEF i
<1>2. i \in at \cup {-1}
  BY <1>1 DEF IsFirst
<1>3. ASSUME Scannable(t) PROVE i = MinOr(at, -1)
  <2>1. \A p \in at : i # -1 /\ i <= p
    BY <1>1, <1>3 DEF IsFirst
  <2>2. CASE at = {}
    BY <1>2, <2>2 DEF MinOr
  <2>3. CASE at # {}
    <3>1. i \in at
      BY <1>2, <2>1, <2>3
    <3>2. \A p \in at : p \in Nat
      BY InPlaces
    <3> HIDE DEF at
    <3>3. MinOr(at, -1) \in at /\ \A q \in at : MinOr(at, -1) <= q
      BY <2>1, <2>3, <3>1 DEF MinOr
    <3>4. MinOr(at, -1) <= i /\ i <= MinOr(at, -1)
      BY <2>1, <3>1, <3>3
    <3> QED
      BY <3>1, <3>2, <3>3, <3>4
  <2> QED
    BY <2>2, <2>3
<1> QED
  BY <1>2, <1>3 DEF i

(* The answer of a search for one character, from b back. *)
IsLast(s, t, b, r) ==
  /\ r = -1 \/ (r \in Places(s, t) /\ r <= b)
  /\ \A p \in Places(s, t) : p <= b => p <= r

LEMMA BeforeOrAt ==
  ASSUME NEW x \in Nat, NEW y \in Nat, x # y
  PROVE  x <= y <=> x <= y - 1
OBVIOUS

LEMMA OnePlace ==
  ASSUME NEW s \in Text, NEW t \in Text, Len(t) = 1
  PROVE  \A p : p \in Places(s, t) <=> p \in Nat /\ p < Len(s) /\ t[1] = s[p + 1]
<1>1. Len(s) \in Nat
  BY TextHas
<1>2. \A p : Fits(s, t, p, 1) <=> t[1] = s[p + 1]
  <2>1. \A j \in 1 .. 1 : j = 1
    OBVIOUS
  <2>2. 1 \in 1 .. 1
    OBVIOUS
  <2> QED
    BY <2>1, <2>2 DEF Fits
<1>3. \A p \in Nat : p + 1 <= Len(s) <=> p < Len(s)
  BY <1>1
<1> QED
  BY <1>2, <1>3, InPlaces

LEMMA BackOne ==
  ASSUME NEW s \in Text, NEW t \in Text, Len(t) = 1, NEW i \in Nat, NEW k \in {-1, 0}
  PROVE  Back(s, t, i, k) = IF t[1] = s[i + 1] THEN -1 ELSE 0
<1> DEFINE here == s[i + 1]
<1>1. IsAt(t, 0, here) <=> t[1] = here
  <2>1. 0 < Len(t) /\ 0 + 1 = 1
    OBVIOUS
  <2> QED
    BY <2>1 DEF IsAt, At
<1>2. Back(s, t, i, k) = IF k >= 0 /\ IsAt(t, k, here) THEN k - 1
                         ELSE Len(t) - (IF IsAt(t, 0, here) THEN 2 ELSE 1)
  BY DEF Back, At
<1> HIDE DEF here
<1>3. CASE t[1] = here
  <2>1. CASE k = 0
    BY <1>1, <1>2, <1>3, <2>1 DEF here
  <2>2. CASE k = -1
    BY <1>1, <1>2, <1>3, <2>2 DEF here
  <2> QED
    BY <2>1, <2>2
<1>4. CASE t[1] # here
  <2>1. CASE k = 0
    BY <1>1, <1>2, <1>4, <2>1 DEF here
  <2>2. CASE k = -1
    BY <1>1, <1>2, <1>4, <2>2 DEF here
  <2> QED
    BY <2>1, <2>2
<1> QED
  BY <1>3, <1>4

LEMMA FindsLast ==
  ASSUME NEW s \in Text, NEW t \in Text, Len(t) = 1, NEW limit \in Nat,
         NEW find \in [Int -> [Int -> Int]],
         \A i \in Int : find[i] = BackRow(s, t, limit, i, find[i - 1])
  PROVE  \A i \in -1 .. Len(s) - 1 : \A k \in {-1, 0} :
           IsLast(s, t, IF i < limit THEN i ELSE limit, find[i][k])
<1> DEFINE len == Len(s)
           S == -1 .. len - 1
           rank == [i \in S |-> i + 1]
           least(i) == IF i < limit THEN i ELSE limit
           P == {i \in S : \A k \in {-1, 0} : IsLast(s, t, least(i), find[i][k])}
<1>1. len \in Nat
  BY TextHas
<1>2. \A p : p \in Places(s, t) <=> p \in Nat /\ p < len /\ t[1] = s[p + 1]
  BY OnePlace
<1>3. rank \in [S -> Nat]
  <2> HIDE DEF len
  <2> QED
    BY <1>1
<1>4. ASSUME NEW i \in S, \A j \in S : rank[j] < rank[i] => j \in P, NEW k \in {-1, 0}
      PROVE  IsLast(s, t, least(i), find[i][k])
  <2> DEFINE m == Back(s, t, i, k)
  <2>1. i \in Int /\ -1 <= i /\ i < len /\ k \in Int
    <3> HIDE DEF len
    <3> QED
      BY <1>1
  <2>2. find[i][k] = IF i < 0 THEN -1 ELSE IF m < 0 /\ i <= limit THEN i ELSE find[i - 1][m]
    <3> DEFINE row == find[i - 1]
    <3>1. find[i] = BackRow(s, t, limit, i, row)
      BY <2>1
    <3> HIDE DEF row
    <3>2. BackRow(s, t, limit, i, row)[k] = IF i < 0 THEN -1 ELSE IF m < 0 /\ i <= limit THEN i ELSE row[m]
      BY <2>1 DEF BackRow
    <3> QED
      BY <3>1, <3>2 DEF row
  <2>3. CASE i < 0
    <3>1. find[i][k] = -1 /\ i = -1
      BY <2>1, <2>2, <2>3
    <3>2. \A p \in Places(s, t) : ~ (p <= least(i))
      <4>1. \A p \in Places(s, t) : p \in Nat
        BY <1>2
      <4> QED
        BY <3>1, <4>1
    <3> HIDE DEF least
    <3> QED
      BY <3>1, <3>2 DEF IsLast
  <2>4. CASE ~ (i < 0)
    <3>1. i \in Nat
      BY <2>1, <2>4
    <3>2. m = IF t[1] = s[i + 1] THEN -1 ELSE 0
      BY <3>1, BackOne
    <3> HIDE DEF m
    <3>3. i - 1 \in S /\ rank[i - 1] < rank[i]
      <4>1. i - 1 \in S
        <5> HIDE DEF len
        <5> QED
          BY <1>1, <2>1, <3>1
      <4>2. rank[i - 1] = (i - 1) + 1 /\ rank[i] = i + 1
        BY <4>1
      <4>3. (i - 1) + 1 < i + 1
        BY <3>1
      <4> QED
        BY <4>1, <4>2, <4>3
    <3>4. i - 1 \in P
      BY <1>4, <3>3
    <3>5. m \in {-1, 0} /\ m \in Int
      BY <3>2
    <3>6. IsLast(s, t, least(i - 1), find[i - 1][m])
      BY <3>4, <3>5
    <3>7. CASE m < 0 /\ i <= limit
      <4>1. find[i][k] = i /\ t[1] = s[i + 1]
        BY <2>2, <2>4, <3>2, <3>7
      <4>2. i \in Places(s, t)
        BY <1>2, <2>1, <3>1, <4>1
      <4>3. least(i) = i
        BY <3>1, <3>7
      <4> HIDE DEF least
      <4> QED
        BY <3>1, <4>1, <4>2, <4>3 DEF IsLast
    <3>8. CASE ~ (m < 0 /\ i <= limit)
      <4>1. find[i][k] = find[i - 1][m]
        BY <2>2, <2>4, <3>8
      <4>2. ASSUME NEW p \in Places(s, t) PROVE p <= least(i) <=> p <= least(i - 1)
        <5>1. p \in Nat /\ t[1] = s[p + 1]
          BY <1>2
        <5>2. CASE i <= limit
          <6>1. ~ (t[1] = s[i + 1])
            <7>1. ~ (m < 0)
              BY <3>8, <5>2
            <7>2. ~ (m = -1)
              BY <7>1
            <7> QED
              BY <3>2, <7>2
          <6>2. p # i
            BY <5>1, <6>1
          <6>3. least(i) = i /\ least(i - 1) = i - 1
            BY <3>1, <5>2
          <6>4. p <= i <=> p <= i - 1
            BY <3>1, <5>1, <6>2, BeforeOrAt
          <6> HIDE DEF least
          <6> QED
            BY <6>3, <6>4
        <5>3. CASE ~ (i <= limit)
          <6>1. least(i) = limit /\ least(i - 1) = limit
            BY <3>1, <5>3
          <6> QED
            BY <6>1
        <5> QED
          BY <5>2, <5>3
      <4> HIDE DEF least
      <4> QED
        BY <3>6, <4>1, <4>2 DEF IsLast
    <3> QED
      BY <3>7, <3>8
  <2> QED
    BY <2>3, <2>4
<1>5. \A i \in S : (\A j \in S : rank[j] < rank[i] => j \in P) => i \in P
  BY <1>4
<1> HIDE DEF P, rank, S
<1>6. \A i \in S : i \in P
  BY <1>3, <1>5, ByRank
<1> QED
  BY <1>6 DEF P, S

LEMMA LastIndexFinds ==
  ASSUME NEW s \in Text, NEW t \in Text, Len(t) = 1, NEW from \in 0 .. Len(s) - 1
  PROVE  last_index_of(s, t, from) = MaxOr({p \in Places(s, t) : p <= from}, -1)
<1> DEFINE at == {p \in Places(s, t) : p <= from}
           r == last_index_of(s, t, from)
           last == Len(s) - 1
<1>1. Len(s) \in Nat /\ from \in Nat /\ from <= last /\ last \in -1 .. Len(s) - 1 /\ Len(s) >= 1
  BY TextHas
<1>2. Limit(s, from) = from
  BY <1>1 DEF Limit
<1>3. PICK find \in [Int -> [Int -> Int]] :
        /\ \A i \in Int : find[i] = BackRow(s, t, from, i, find[i - 1])
        /\ r = IF t = <<>> THEN from ELSE IF Len(t) > Len(s) THEN -1 ELSE find[Len(s) - 1][Len(t) - 1]
  <2>1. from \in Int
    BY <1>1
  <2>2. \E find \in [Int -> [Int -> Int]] :
           /\ \A i \in Int : find[i] = BackRow(s, t, Limit(s, from), i, find[i - 1])
           /\ r = IF t = <<>> THEN Limit(s, from)
                  ELSE IF Len(t) > Len(s) THEN -1
                  ELSE find[Len(s) - 1][Len(t) - 1]
    BY <2>1, LastIndexSteps
  <2> HIDE DEF r
  <2> QED
    BY <1>2, <2>2
<1> HIDE DEF r
<1>4. t # <<>> /\ ~ (Len(t) > Len(s)) /\ Len(t) - 1 = 0
  <2>1. Len(t) > 0 /\ Len(t) - 1 = 0
    OBVIOUS
  <2>2. ~ (Len(t) > Len(s))
    BY <1>1
  <2> QED
    BY <2>1, <2>2, NotEmpty
<1>5. r = find[last][0]
  BY <1>3, <1>4
<1>6. (IF last < from THEN last ELSE from) = from
  BY <1>1
<1> HIDE DEF last
<1>7. IsLast(s, t, from, r)
  <2>1. 0 \in {-1, 0}
    OBVIOUS
  <2>2. \A i \in -1 .. Len(s) - 1 : \A k \in {-1, 0} : IsLast(s, t, IF i < from THEN i ELSE from, find[i][k])
    BY <1>1, <1>3, FindsLast
  <2> QED
    BY <1>1, <1>5, <1>6, <2>1, <2>2
<1>8. \A p \in at : p \in Nat /\ p <= r
  BY <1>7, InPlaces DEF IsLast
<1>9. r \in at \/ r = -1
  BY <1>7 DEF IsLast
<1>10. CASE at = {}
  BY <1>9, <1>10 DEF MaxOr, r
<1>11. CASE at # {}
  <2>1. r \in at
    BY <1>8, <1>9, <1>11
  <2> HIDE DEF at
  <2>2. MaxOr(at, -1) \in at /\ \A q \in at : q <= MaxOr(at, -1)
    BY <1>8, <1>11, <2>1 DEF MaxOr
  <2>3. MaxOr(at, -1) = r
    BY <1>8, <2>1, <2>2
  <2> QED
    BY <2>3 DEF at, r
<1> QED
  BY <1>10, <1>11

(* Some texts in a row. *)
JoinedStep(from, parts, t, i) == IF i = Len(parts) THEN parts[i] ELSE parts[i] \o t \o from[i + 1]
JoinedFunction(parts, t) == CHOOSE from : from = [i \in 1 .. Len(parts) |-> JoinedStep(from, parts, t, i)]

LEMMA JoinedSteps ==
  ASSUME NEW parts \in Seq(Text), parts # <<>>, NEW t \in Text
  PROVE  \E from \in [1 .. Len(parts) -> Text] :
           /\ \A i \in 1 .. Len(parts) : from[i] = JoinedStep(from, parts, t, i)
           /\ Joined(parts, t) = from[1]
<1> DEFINE n == Len(parts)
           S == 1 .. n
           T == Text
           rank == [i \in S |-> n - i]
           stop == {n}
           next == [i \in S |-> i + 1]
           out == [i \in S |-> parts[i]]
           op == [y \in S \X T |-> parts[y[1]] \o t \o y[2]]
           from == JoinedFunction(parts, t)
<1>1. n \in Nat /\ n > 0
  BY EmptySeq, LenProperties
<1>2. \A i \in S : parts[i] \in T
  BY ElementOfSeq, LenProperties
<1>3. Descends(S, rank, stop, next)
  <2> HIDE DEF n
  <2> QED
    BY <1>1 DEF Descends
<1>4. \A i \in S, u \in T : parts[i] \o t \o u \in T
  <2> SUFFICES ASSUME NEW i \in S, NEW u \in T PROVE parts[i] \o t \o u \in T
    OBVIOUS
  <2> HIDE DEF S
  <2>1. parts[i] \o t \in Text
    BY <1>2, TextConcat
  <2> QED
    BY <2>1, TextConcat
<1>5. MakesValues(S, T, rank, stop, next, out, op)
  <2>1. op \in [S \X T -> T]
    <3>1. \A y \in S \X T : parts[y[1]] \o t \o y[2] \in T
      <4> HIDE DEF S, T
      <4> QED
        BY <1>4
    <3> QED
      BY <3>1
  <2>2. T # {} /\ \A i \in S : out[i] \in T
    BY <1>2
  <2> HIDE DEF T, out, op, rank, stop, next
  <2> QED
    BY <1>3, <2>1, <2>2 DEF MakesValues
<1>a. /\ \A i \in S : (i \in stop <=> i = n) /\ next[i] = i + 1 /\ out[i] = parts[i] /\ (i # n => i + 1 \in S)
      /\ \A i \in S, u \in T : op[<<i, u>>] = parts[i] \o t \o u
  <2>1. \A i \in S : i # n => i + 1 \in S
    <3> HIDE DEF n
    <3> QED
      BY <1>1
  <2> QED
    BY <2>1
<1> HIDE DEF S, T, rank, stop, next, out, op, n, from
<1>6. PICK f \in [S -> T] : \A i \in S : f[i] = IF i \in stop THEN out[i] ELSE op[<<i, f[next[i]]>>]
  BY <1>5, Descent
<1>7. f = [i \in S |-> JoinedStep(f, parts, t, i)]
  <2>1. ASSUME NEW i \in S PROVE f[i] = JoinedStep(f, parts, t, i)
    <3>1. CASE i = n
      BY <1>6, <1>a, <3>1 DEF JoinedStep, n
    <3>2. CASE i # n
      <4>1. f[i + 1] \in T /\ f[i] = op[<<i, f[i + 1]>>]
        BY <1>6, <1>a, <3>2
      <4>2. f[i] = parts[i] \o t \o f[i + 1]
        BY <1>a, <4>1
      <4> QED
        BY <3>2, <4>2 DEF JoinedStep, n
    <3> QED
      BY <3>1, <3>2
  <2> QED
    BY <2>1
<1>8. from = [i \in S |-> JoinedStep(from, parts, t, i)]
  BY <1>7 DEF JoinedFunction, S, n, from
<1>9. \A i \in S : from[i] \in T
  <2>1. ASSUME NEW i \in S, i \in stop \/ from[next[i]] \in T PROVE from[i] \in T
    <3>1. CASE i = n
      BY <1>2, <1>8, <3>1 DEF JoinedStep, n
    <3>2. CASE i # n
      <4>1. from[i + 1] \in T
        BY <1>a, <2>1, <3>2
      <4>2. from[i] = parts[i] \o t \o from[i + 1]
        BY <1>8, <3>2 DEF JoinedStep, n
      <4> QED
        BY <1>4, <4>1, <4>2
    <3> QED
      BY <3>1, <3>2
  <2> QED
    BY <1>3, <2>1, DescentType
<1>10. Joined(parts, t) = from[1]
  BY DEF Joined, from, JoinedFunction, JoinedStep
<1>11. from \in [S -> T] /\ \A i \in S : from[i] = JoinedStep(from, parts, t, i)
  BY <1>8, <1>9
<1> QED
  BY <1>10, <1>11 DEF S, T, n

LEMMA JoinedOne ==
  ASSUME NEW p \in Text, NEW t \in Text
  PROVE  Joined(<<p>>, t) = p
<1> DEFINE parts == <<p>>
<1>1. parts \in Seq(Text) /\ parts # <<>> /\ Len(parts) = 1 /\ parts[1] = p /\ 1 \in 1 .. 1
  OBVIOUS
<1> HIDE DEF parts
<1>2. PICK from \in [1 .. Len(parts) -> Text] :
         /\ \A i \in 1 .. Len(parts) : from[i] = JoinedStep(from, parts, t, i)
         /\ Joined(parts, t) = from[1]
  BY <1>1, JoinedSteps
<1>3. from[1] = p
  BY <1>1, <1>2 DEF JoinedStep
<1> QED
  BY <1>2, <1>3 DEF parts

LEMMA JoinedCons ==
  ASSUME NEW p \in Text, NEW ps \in Seq(Text), ps # <<>>, NEW t \in Text
  PROVE  Joined(<<p>> \o ps, t) = p \o t \o Joined(ps, t)
<1> DEFINE w == <<p>> \o ps
           n == Len(ps)
           S == 1 .. n
           rank == [i \in S |-> n - i]
<1>1. w \in Seq(Text) /\ w # <<>> /\ Len(w) = n + 1 /\ w[1] = p /\ \A i \in S : w[i + 1] = ps[i]
  BY InFrontOf
<1>2. n \in Nat /\ n > 0
  BY EmptySeq, LenProperties
<1> HIDE DEF w
<1>3. PICK f \in [1 .. Len(w) -> Text] :
        (\A i \in 1 .. Len(w) : f[i] = JoinedStep(f, w, t, i)) /\ Joined(w, t) = f[1]
  BY <1>1, JoinedSteps
<1>4. PICK g \in [1 .. Len(ps) -> Text] :
        (\A i \in 1 .. Len(ps) : g[i] = JoinedStep(g, ps, t, i)) /\ Joined(ps, t) = g[1]
  BY JoinedSteps
<1> DEFINE P == {i \in S : f[i + 1] = g[i]}
<1>5. ASSUME NEW i \in S, \A j \in S : rank[j] < rank[i] => j \in P PROVE f[i + 1] = g[i]
  <2>1. i \in Nat /\ i + 1 \in 1 .. Len(w) /\ (i + 1 = Len(w) <=> i = n)
    <3> HIDE DEF n
    <3> QED
      BY <1>1, <1>2
  <2>2. f[i + 1] = IF i + 1 = Len(w) THEN w[i + 1] ELSE w[i + 1] \o t \o f[(i + 1) + 1]
    BY <1>3, <2>1 DEF JoinedStep
  <2>3. g[i] = IF i = n THEN ps[i] ELSE ps[i] \o t \o g[i + 1]
    BY <1>4 DEF JoinedStep
  <2>4. w[i + 1] = ps[i]
    BY <1>1
  <2>5. CASE i = n
    BY <2>1, <2>2, <2>3, <2>4, <2>5
  <2>6. CASE i # n
    <3>1. i + 1 \in S /\ rank[i + 1] < rank[i]
      <4>1. i + 1 \in S
        <5> HIDE DEF n
        <5> QED
          BY <1>2, <2>6
      <4>2. rank[i] = n - i /\ rank[i + 1] = n - (i + 1) /\ n - (i + 1) < n - i
        <5>1. n - (i + 1) < n - i
          <6> HIDE DEF n
          <6> QED
            BY <1>2, <2>1
        <5> QED
          BY <4>1, <5>1
      <4> QED
        BY <4>1, <4>2
    <3>2. f[(i + 1) + 1] = g[i + 1]
      BY <1>5, <3>1
    <3> QED
      BY <2>1, <2>2, <2>3, <2>4, <2>6, <3>2
  <2> QED
    BY <2>5, <2>6
<1>6. rank \in [S -> Nat]
  <2> HIDE DEF n
  <2> QED
    BY <1>2
<1>7. \A i \in S : (\A j \in S : rank[j] < rank[i] => j \in P) => i \in P
  BY <1>5
<1>8. \A i \in S : i \in P
  <2> HIDE DEF P, S, rank
  <2> QED
    BY <1>6, <1>7, ByRank
<1>9. 1 \in S /\ 1 \in 1 .. Len(w) /\ 1 # Len(w) /\ 1 + 1 = 2
  <2> HIDE DEF n
  <2> QED
    BY <1>1, <1>2
<1>10. f[1] = p \o t \o f[1 + 1]
  BY <1>1, <1>3, <1>9 DEF JoinedStep
<1>11. f[1 + 1] = g[1]
  BY <1>8, <1>9
<1> QED
  BY <1>3, <1>4, <1>10, <1>11 DEF w

LEMMA SliceAt ==
  ASSUME NEW s \in Text, NEW a \in Nat, NEW b \in Nat, a <= b, b <= Len(s)
  PROVE  /\ Slice(s, a, b) \in Text /\ Len(Slice(s, a, b)) = b - a
         /\ \A i \in 1 .. b - a : Slice(s, a, b)[i] = s[a + i]
<1> DEFINE q == a + 1
           rest == Slice(s, a, b)
<1>1. /\ q \in Int /\ 1 <= q /\ b \in Int /\ (IF q <= b THEN b - q + 1 ELSE 0) = b - a
      /\ \A i \in 1 .. b - a : i \in 1 .. b - q + 1 /\ q + i - 1 = a + i
  OBVIOUS
<1>2. rest = SubSeq(s, q, b)
  BY DEF Slice
<1> HIDE DEF q, rest
<1>3. /\ SubSeq(s, q, b) \in Text
      /\ Len(SubSeq(s, q, b)) = IF q <= b THEN b - q + 1 ELSE 0
      /\ \A i \in 1 .. b - q + 1 : SubSeq(s, q, b)[i] = s[q + i - 1]
  BY <1>1, PartOfText
<1>4. rest \in Text /\ Len(rest) = b - a /\ \A i \in 1 .. b - a : rest[i] = s[a + i]
  BY <1>1, <1>2, <1>3
<1> QED
  BY <1>4 DEF rest

LEMMA SlicesMeet ==
  ASSUME NEW s \in Text, NEW a \in Nat, NEW b \in Nat, NEW c \in Nat, a <= b, b <= c, c <= Len(s)
  PROVE  Slice(s, a, b) \o Slice(s, b, c) = Slice(s, a, c)
<1> DEFINE x == Slice(s, a, b)
           y == Slice(s, b, c)
           z == Slice(s, a, c)
           w == x \o y
<1>1. /\ a <= c /\ b <= Len(s)
  BY TextHas
<1>2. x \in Text /\ Len(x) = b - a /\ \A i \in 1 .. b - a : x[i] = s[a + i]
  BY <1>1, SliceAt
<1>3. y \in Text /\ Len(y) = c - b /\ \A i \in 1 .. c - b : y[i] = s[b + i]
  BY SliceAt
<1>4. z \in Text /\ Len(z) = c - a /\ \A i \in 1 .. c - a : z[i] = s[a + i]
  BY <1>1, SliceAt
<1> HIDE DEF x, y, z
<1>5. /\ w \in Text /\ Len(w) = Len(x) + Len(y) /\ (\A i \in 1 .. Len(x) : w[i] = x[i])
      /\ \A i \in 1 .. Len(y) : w[Len(x) + i] = y[i]
  BY <1>2, <1>3, ConcatHas
<1> HIDE DEF w
<1>6. Len(w) = Len(z) /\ Len(w) = c - a
  BY <1>2, <1>3, <1>4, <1>5
<1>7. ASSUME NEW i \in 1 .. Len(w) PROVE w[i] = z[i]
  <2>1. i \in 1 .. c - a
    BY <1>6
  <2>2. CASE i <= b - a
    <3>1. i \in 1 .. b - a
      BY <2>1, <2>2
    <3> QED
      BY <1>2, <1>4, <1>5, <2>1, <3>1
  <2>3. CASE ~ (i <= b - a)
    <3> DEFINE j == i - (b - a)
    <3>1. j \in 1 .. c - b /\ (b - a) + j = i /\ b + j = a + i
      BY <2>1, <2>3
    <3> HIDE DEF j
    <3>2. w[(b - a) + j] = y[j] /\ y[j] = s[b + j] /\ z[i] = s[a + i]
      BY <1>2, <1>3, <1>4, <1>5, <2>1, <3>1
    <3> QED
      BY <3>1, <3>2
  <2> QED
    BY <2>2, <2>3
<1>8. w = z
  BY <1>4, <1>5, <1>6, <1>7, SeqEqual DEF Text
<1> QED
  BY <1>8 DEF w, x, y, z

LEMMA FitsIsSlice ==
  ASSUME NEW s \in Text, NEW t \in Text, NEW b \in Nat, b + Len(t) <= Len(s), Fits(s, t, b, Len(t))
  PROVE  Slice(s, b, b + Len(t)) = t
<1> DEFINE c == b + Len(t)
           x == Slice(s, b, c)
<1>1. Len(t) \in Nat
  BY TextHas
<1>2. c \in Nat /\ b <= c /\ c <= Len(s) /\ c - b = Len(t)
  BY <1>1
<1>3. \A i \in 1 .. Len(t) : t[i] = s[b + i]
  BY DEF Fits
<1> HIDE DEF c
<1>4. x \in Text /\ Len(x) = c - b /\ \A i \in 1 .. c - b : x[i] = s[b + i]
  BY <1>2, SliceAt
<1> HIDE DEF x
<1>5. Len(x) = Len(t) /\ \A i \in 1 .. Len(x) : x[i] = t[i]
  BY <1>2, <1>3, <1>4
<1>6. x = t
  BY <1>4, <1>5, SeqEqual DEF Text
<1> QED
  BY <1>6 DEF x, c

(* What is in a slice is in the whole. *)
LEMMA PlaceInSlice ==
  ASSUME NEW s \in Text, NEW t \in Text, NEW a \in Nat, NEW b \in Nat, a <= b, b <= Len(s),
         NEW q \in Places(Slice(s, a, b), t)
  PROVE  q \in Nat /\ a + q + Len(t) <= b /\ Fits(s, t, a + q, Len(t))
<1> DEFINE x == Slice(s, a, b)
           size == Len(t)
<1>1. x \in Text /\ Len(x) = b - a /\ \A i \in 1 .. b - a : x[i] = s[a + i]
  BY SliceAt
<1>2. q \in Places(x, t)
  OBVIOUS
<1> HIDE DEF x
<1>3. q \in Nat /\ q + Len(t) <= Len(x) /\ Fits(x, t, q, Len(t))
  BY <1>1, <1>2, InPlaces
<1>4. \A j \in 1 .. size : t[j] = x[q + j]
  BY <1>3 DEF Fits
<1>5. size \in Nat /\ q + size <= b - a
  BY <1>1, <1>3, TextHas
<1> HIDE DEF size
<1>6. a + q + size <= b
  BY <1>3, <1>5
<1>7. ASSUME NEW j \in 1 .. size PROVE t[j] = s[(a + q) + j]
  <2>1. q + j \in 1 .. b - a /\ a + (q + j) = (a + q) + j
    BY <1>3, <1>5
  <2>2. t[j] = x[q + j] /\ x[q + j] = s[a + (q + j)]
    BY <1>1, <1>4, <2>1
  <2> QED
    BY <2>1, <2>2
<1> QED
  BY <1>3, <1>6, <1>7 DEF Fits, size

(* The texts of some strings. *)
TextsOf(ps) == [i \in DOMAIN ps |-> ps[i].ptr]

LEMMA TextsOfStrings ==
  ASSUME NEW ps \in Seq(MadeString)
  PROVE  TextsOf(ps) \in Seq(Text) /\ Len(TextsOf(ps)) = Len(ps) /\ \A i \in 1 .. Len(ps) : TextsOf(ps)[i] = ps[i].ptr
<1> DEFINE n == Len(ps)
           f == [i \in 1 .. n |-> ps[i].ptr]
<1>1. n \in Nat /\ DOMAIN ps = 1 .. n /\ \A i \in 1 .. n : ps[i] \in MadeString
  BY LenProperties, ElementOfSeq
<1>2. \A i \in 1 .. n : ps[i].ptr \in Text
  BY <1>1, MadeIs, StringHas
<1>3. f \in [1 .. n -> Text] /\ TextsOf(ps) = f
  BY <1>1, <1>2 DEF TextsOf
<1>4. f \in Seq(Text) /\ Len(f) = n
  <2> HIDE DEF f
  <2> QED
    BY <1>1, <1>3, FunctionIsSeq
<1>5. \A i \in 1 .. n : f[i] = ps[i].ptr
  OBVIOUS
<1> QED
  BY <1>3, <1>4, <1>5

LEMMA TextsOfCons ==
  ASSUME NEW p \in MadeString, NEW ps \in Seq(MadeString)
  PROVE  TextsOf(<<p>> \o ps) = <<p.ptr>> \o TextsOf(ps)
<1> DEFINE w == <<p>> \o ps
           a == TextsOf(w)
           b == <<p.ptr>> \o TextsOf(ps)
           n == Len(ps)
<1>0. p.ptr \in Text
  BY MadeIs, StringHas
<1>1. w \in Seq(MadeString) /\ Len(w) = n + 1 /\ w[1] = p /\ \A i \in 1 .. n : w[i + 1] = ps[i]
  BY InFrontOf
<1>2. TextsOf(ps) \in Seq(Text) /\ Len(TextsOf(ps)) = n /\ \A i \in 1 .. n : TextsOf(ps)[i] = ps[i].ptr
  BY TextsOfStrings
<1>3. b \in Seq(Text) /\ Len(b) = n + 1 /\ b[1] = p.ptr /\ \A i \in 1 .. n : b[i + 1] = TextsOf(ps)[i]
  BY <1>0, <1>2, InFrontOf
<1> HIDE DEF w, b
<1>4. a \in Seq(Text) /\ Len(a) = n + 1 /\ \A i \in 1 .. n + 1 : a[i] = w[i].ptr
  BY <1>1, TextsOfStrings
<1>5. n \in Nat
  BY LenProperties
<1> HIDE DEF a, n
<1>6. ASSUME NEW i \in 1 .. n + 1 PROVE a[i] = b[i]
  <2>1. CASE i = 1
    BY <1>1, <1>3, <1>4, <2>1
  <2>2. CASE i # 1
    <3> DEFINE j == i - 1
    <3>1. j \in 1 .. n /\ j + 1 = i
      BY <1>5, <2>2
    <3> HIDE DEF j
    <3>2. w[j + 1] = ps[j] /\ b[j + 1] = TextsOf(ps)[j] /\ TextsOf(ps)[j] = ps[j].ptr
      BY <1>1, <1>2, <1>3, <3>1
    <3> QED
      BY <1>4, <3>1, <3>2
  <2> QED
    BY <2>1, <2>2
<1>7. a = b
  BY <1>3, <1>4, <1>6, SeqEqual
<1> QED
  BY <1>7 DEF a, b, w

(* What the parts of s from start on are. *)
CutsUp(s, sep, start, ps) ==
  /\ ps \in Seq(MadeString) /\ ps # <<>>
  /\ Joined(TextsOf(ps), sep) = Slice(s, start, Len(s))
  /\ Scannable(sep) => \A i \in 1 .. Len(ps) : Places(ps[i].ptr, sep) = {}

LEMMA CutOne ==
  ASSUME NEW s \in Text, NEW sep \in Text, NEW start \in Nat, start <= Len(s),
         Scannable(sep) => Places(Slice(s, start, Len(s)), sep) = {}
  PROVE  CutsUp(s, sep, start, <<JSSTR(Slice(s, start, Len(s)))>>)
<1> DEFINE x == Slice(s, start, Len(s))
           p == JSSTR(x)
           ps == <<p>>
<1>1. x \in Text /\ Len(s) \in Nat
  BY TextHas, SliceAt
<1>2. Scannable(sep) => Places(x, sep) = {}
  OBVIOUS
<1> HIDE DEF x
<1>3. p \in MadeString /\ p.ptr = x
  BY <1>1, MadeIs, StringIs
<1> HIDE DEF p
<1>4. ps \in Seq(MadeString) /\ ps # <<>> /\ Len(ps) = 1 /\ ps[1] = p
  BY <1>3
<1>5. TextsOf(ps) = <<x>>
  <2>1. DOMAIN ps = {1} /\ DOMAIN <<x>> = {1}
    OBVIOUS
  <2>2. ps[1].ptr = x
    BY <1>3, <1>4
  <2>3. TextsOf(ps) = [i \in {1} |-> x]
    BY <2>1, <2>2 DEF TextsOf
  <2>4. <<x>> = [i \in {1} |-> x]
    OBVIOUS
  <2> QED
    BY <2>3, <2>4
<1>6. Joined(TextsOf(ps), sep) = x
  BY <1>1, <1>5, JoinedOne
<1>7. \A i \in 1 .. Len(ps) : ps[i].ptr = x
  BY <1>3, <1>4
<1> HIDE DEF ps
<1>8. Scannable(sep) => \A i \in 1 .. Len(ps) : Places(ps[i].ptr, sep) = {}
  BY <1>2, <1>7
<1> QED
  BY <1>4, <1>6, <1>8 DEF CutsUp, x, p, ps

LEMMA CutMore ==
  ASSUME NEW s \in Text, NEW sep \in Text, NEW start \in Nat, NEW b \in Nat, start <= b, b + Len(sep) <= Len(s),
         Fits(s, sep, b, Len(sep)),
         Scannable(sep) => Places(Slice(s, start, b), sep) = {},
         NEW ps, CutsUp(s, sep, b + Len(sep), ps)
  PROVE  CutsUp(s, sep, start, <<JSSTR(Slice(s, start, b))>> \o ps)
<1> DEFINE x == Slice(s, start, b)
           p == JSSTR(x)
           w == <<p>> \o ps
           c == b + Len(sep)
           y == Slice(s, c, Len(s))
<1>1. Len(s) \in Nat /\ Len(sep) \in Nat /\ c \in Nat /\ b <= c /\ c <= Len(s) /\ b <= Len(s) /\ start <= c
  BY TextHas
<1>2. x \in Text /\ y \in Text
  BY <1>1, SliceAt
<1>3. Scannable(sep) => Places(x, sep) = {}
  OBVIOUS
<1>4. /\ ps \in Seq(MadeString) /\ ps # <<>>
      /\ Joined(TextsOf(ps), sep) = y
      /\ Scannable(sep) => \A i \in 1 .. Len(ps) : Places(ps[i].ptr, sep) = {}
  BY DEF CutsUp
<1>5. x \o sep \o y = Slice(s, start, Len(s))
  <2>1. sep = Slice(s, b, c)
    BY FitsIsSlice
  <2>2. x \o sep = Slice(s, start, c)
    <3> HIDE DEF c
    <3>1. Slice(s, start, b) \o Slice(s, b, c) = Slice(s, start, c)
      BY <1>1, SlicesMeet
    <3> QED
      BY <2>1, <3>1
  <2> DEFINE len == Len(s)
  <2> HIDE DEF c, len
  <2>3. len \in Nat /\ c \in Nat /\ c <= len /\ len <= Len(s) /\ start <= c
    BY <1>1 DEF len
  <2>4. Slice(s, start, c) \o Slice(s, c, len) = Slice(s, start, len)
    BY <2>3, SlicesMeet
  <2> QED
    BY <2>2, <2>4 DEF len
<1> HIDE DEF x, y, c
<1>6. p \in MadeString /\ p.ptr = x
  BY <1>2, MadeIs, StringIs
<1> HIDE DEF p
<1>7. w \in Seq(MadeString) /\ w # <<>> /\ Len(w) = Len(ps) + 1 /\ w[1] = p /\ \A i \in 1 .. Len(ps) : w[i + 1] = ps[i]
  BY <1>4, <1>6, InFrontOf
<1>8. TextsOf(w) = <<x>> \o TextsOf(ps)
  BY <1>4, <1>6, TextsOfCons
<1>9. TextsOf(ps) \in Seq(Text) /\ TextsOf(ps) # <<>>
  <2>1. TextsOf(ps) \in Seq(Text) /\ Len(TextsOf(ps)) = Len(ps)
    BY <1>4, TextsOfStrings
  <2>2. Len(ps) # 0
    BY <1>4, EmptySeq
  <2>3. Len(TextsOf(ps)) # 0
    BY <2>1, <2>2
  <2> QED
    BY <2>1, <2>3, EmptySeq
<1>10. Joined(TextsOf(w), sep) = Slice(s, start, Len(s))
  <2>1. Joined(<<x>> \o TextsOf(ps), sep) = x \o sep \o Joined(TextsOf(ps), sep)
    BY <1>2, <1>9, JoinedCons
  <2> QED
    BY <1>4, <1>5, <1>8, <2>1
<1> HIDE DEF w
<1>11. ASSUME Scannable(sep), NEW i \in 1 .. Len(w) PROVE Places(w[i].ptr, sep) = {}
  <2>1. CASE i = 1
    BY <1>3, <1>6, <1>7, <1>11, <2>1
  <2>2. CASE i # 1
    <3> DEFINE j == i - 1
    <3>1. Len(ps) \in Nat
      BY <1>4, LenProperties
    <3>2. j \in 1 .. Len(ps) /\ j + 1 = i
      BY <1>7, <2>2, <3>1
    <3> HIDE DEF j
    <3>3. w[i] = ps[j]
      BY <1>7, <3>2
    <3> QED
      BY <1>4, <1>11, <3>2, <3>3
  <2> QED
    BY <2>1, <2>2
<1> QED
  BY <1>7, <1>10, <1>11 DEF CutsUp, w, p, x

(* Where a round of split is: the last k characters are the first ones of  *)
(* the separator, and behind start it has not been seen.                   *)
Cutting(s, sep, i, k, start) ==
  /\ k \in Nat /\ start \in Nat /\ start <= i - k /\ k < Len(sep) /\ Fits(s, sep, i - k, k)
  /\ Scannable(sep) => \A p \in start .. i - k - 1 : ~ Fits(s, sep, p, Len(sep))

LEMMA NoneInside ==
  ASSUME NEW s \in Text, NEW sep \in Text, NEW start \in Nat, NEW b \in Nat, start <= b, b <= Len(s),
         \A p \in Nat : start <= p /\ p + Len(sep) <= b => ~ Fits(s, sep, p, Len(sep))
  PROVE  Places(Slice(s, start, b), sep) = {}
<1> SUFFICES ASSUME NEW q \in Places(Slice(s, start, b), sep) PROVE FALSE
  OBVIOUS
<1>1. q \in Nat /\ start + q + Len(sep) <= b /\ Fits(s, sep, start + q, Len(sep))
  BY PlaceInSlice
<1>2. start + q \in Nat /\ start <= start + q
  BY <1>1
<1> QED
  BY <1>1, <1>2

(* A round of split, of three numbers. *)
Round(w, sep, i, row, k, start, left) ==
  LET m == Scan(w.ptr, i, sep, k)
  IN  IF left = 0 THEN <<>>
      ELSE IF i >= Len(w.ptr) THEN
        IF start # w.length THEN <<fh_str_slice(w.ptr, start, w.length)>>
        ELSE IF start = i /\ w.ptr # <<>> /\ sep # <<>> THEN <<JSSTR(<<>>)>> ELSE <<>>
      ELSE IF m = Len(sep)
      THEN <<fh_str_slice(w.ptr, start, i - Len(sep) + 1)>> \o row[<<0, i + 1, left - 1>>]
      ELSE row[<<m, start, left>>]

LEMMA CutRound ==
  ASSUME NEW w, NEW sep, NEW i, NEW row, NEW k \in Nat, NEW start \in Nat, NEW left \in Nat
  PROVE  CutRow(w, sep, i, row)[<<k, start, left>>] = Round(w, sep, i, row, k, start, left)
<1> DEFINE x == <<k, start, left>>
<1>1. x \in Nat \X Nat \X Nat /\ x[1] = k /\ x[2] = start /\ x[3] = left
  OBVIOUS
<1> HIDE DEF x
<1>2. CutRow(w, sep, i, row)[x] = Round(w, sep, i, row, x[1], x[2], x[3])
  BY <1>1 DEF CutRow, Round
<1> QED
  BY <1>1, <1>2 DEF x

LEMMA SliceMakes ==
  ASSUME NEW s \in Text, NEW a \in Nat, NEW b \in Nat, a <= b, b <= Len(s)
  PROVE  fh_str_slice(s, a, b) = JSSTR(Slice(s, a, b))
<1>1. ~ (a < 0 \/ a > b \/ b > Len(s))
  BY TextHas
<1> QED
  BY <1>1 DEF fh_str_slice, Slice

(* At the end of the string. *)
LEMMA CutEnds ==
  ASSUME NEW s \in Text, NEW sep \in Text, NEW k, NEW start, Cutting(s, sep, Len(s), k, start)
  PROVE  start \in Nat /\ start <= Len(s) /\ CutsUp(s, sep, start, <<JSSTR(Slice(s, start, Len(s)))>>)
<1> DEFINE len == Len(s)
           size == Len(sep)
<1>1. /\ k \in Nat /\ start \in Nat /\ start <= len - k /\ k < size
      /\ Scannable(sep) => \A p \in start .. len - k - 1 : ~ Fits(s, sep, p, Len(sep))
  BY DEF Cutting
<1>2. len \in Nat /\ size \in Nat
  BY TextHas
<1>3. start <= len
  <2> HIDE DEF len
  <2> QED
    BY <1>1, <1>2
<1>4. ASSUME Scannable(sep) PROVE Places(Slice(s, start, len), sep) = {}
  <2>1. ASSUME NEW p \in Nat, start <= p, p + size <= len PROVE ~ Fits(s, sep, p, size)
    <3>1. p \in start .. len - k - 1
      <4> HIDE DEF len, size
      <4> QED
        BY <1>1, <1>2, <2>1
    <3> QED
      BY <1>1, <1>4, <3>1
  <2> QED
    BY <1>1, <1>2, <1>3, <2>1, NoneInside
<1> QED
  BY <1>1, <1>3, <1>4, CutOne

(* A scan goes on. *)
LEMMA CutGoesOn ==
  ASSUME NEW s \in Text, NEW sep \in Text, sep # <<>>, NEW i \in Nat, i < Len(s), NEW k, NEW start,
         Cutting(s, sep, i, k, start), NEW m, m = Scan(s, i, sep, k), m # Len(sep)
  PROVE  m \in Nat /\ Cutting(s, sep, i + 1, m, start)
<1> DEFINE size == Len(sep)
           a == i + 1 - m
           b == i - k
<1>1. /\ k \in Nat /\ start \in Nat /\ start <= b /\ k < size /\ Fits(s, sep, b, k)
      /\ Scannable(sep) => \A p \in start .. b - 1 : ~ Fits(s, sep, p, size)
  BY DEF Cutting
<1>2. size \in Nat /\ m # size
  BY TextHas
<1> HIDE DEF size
<1>3. k <= i /\ b \in Nat /\ b + k = i
  BY <1>1
<1>4. /\ m \in 0 .. size /\ m <= k + 1 /\ Fits(s, sep, i + 1 - m, m)
      /\ Scannable(sep) => \A p \in i - k .. i - m : ~ Fits(s, sep, p, size)
  BY <1>1, <1>3, ScanFits DEF size
<1> HIDE DEF b
<1>5. m \in Nat /\ m < size
  BY <1>2, <1>4
<1>6. a \in Nat /\ a - 1 = i - m /\ b <= a /\ start <= a /\ i - k = b
  BY <1>1, <1>3, <1>4, <1>5 DEF b
<1> HIDE DEF a
<1>7. ASSUME Scannable(sep), NEW p \in start .. a - 1 PROVE ~ Fits(s, sep, p, size)
  <2>1. p \in Int /\ start <= p /\ p <= a - 1
    BY <1>1, <1>6
  <2>2. CASE p <= b - 1
    <3>1. p \in start .. b - 1
      BY <1>1, <1>3, <2>1, <2>2
    <3> QED
      BY <1>1, <1>7, <3>1
  <2>3. CASE ~ (p <= b - 1)
    <3>1. p \in b .. a - 1
      BY <1>3, <1>6, <2>1, <2>3
    <3> QED
      BY <1>4, <1>6, <1>7, <3>1
  <2> QED
    BY <2>2, <2>3
<1> QED
  BY <1>1, <1>4, <1>5, <1>6, <1>7, SMTT(40) DEF Cutting, size, a

(* A scan ends with the separator. *)
LEMMA CutFound ==
  ASSUME NEW s \in Text, NEW sep \in Text, sep # <<>>, NEW i \in Nat, i < Len(s), NEW k, NEW start,
         Cutting(s, sep, i, k, start), Scan(s, i, sep, k) = Len(sep)
  PROVE  LET b == i - Len(sep) + 1
         IN  /\ b \in Nat /\ start \in Nat /\ start <= b /\ b + Len(sep) = i + 1 /\ Fits(s, sep, b, Len(sep))
             /\ Scannable(sep) => Places(Slice(s, start, b), sep) = {}
<1> DEFINE size == Len(sep)
           b == i - size + 1
           c == i - k
<1>1. /\ k \in Nat /\ start \in Nat /\ start <= c /\ k < size /\ Fits(s, sep, c, k)
      /\ Scannable(sep) => \A p \in start .. c - 1 : ~ Fits(s, sep, p, size)
  BY DEF Cutting
<1>2. size \in Nat /\ size > 0
  BY TextHas, NotEmpty
<1>3. k <= i /\ c \in Nat
  BY <1>1
<1>4. size <= k + 1 /\ Fits(s, sep, i + 1 - size, size)
  BY <1>1, <1>3, ScanFits
<1>5. i < Len(s) /\ Len(s) \in Nat
  BY TextHas
<1> HIDE DEF size
<1>6. b = c /\ i + 1 - size = b /\ b + size = i + 1 /\ b <= Len(s)
  <2>1. size = k + 1
    BY <1>1, <1>2, <1>4
  <2> QED
    BY <1>1, <1>3, <1>5, <2>1
<1> HIDE DEF b, c
<1>7. ASSUME Scannable(sep) PROVE Places(Slice(s, start, b), sep) = {}
  <2>1. ASSUME NEW p \in Nat, start <= p, p + size <= b PROVE ~ Fits(s, sep, p, size)
    <3>1. p \in start .. c - 1
      BY <1>1, <1>2, <1>3, <1>6, <2>1
    <3> QED
      BY <1>1, <1>7, <3>1
  <2> QED
    BY <1>1, <1>3, <1>6, <2>1, NoneInside DEF size
<1> QED
  BY <1>1, <1>3, <1>4, <1>6, <1>7 DEF b, size

(* The next one begins behind it. *)
LEMMA CutAgain ==
  ASSUME NEW s \in Text, NEW sep \in Text, sep # <<>>, NEW i \in Nat
  PROVE  Cutting(s, sep, i, 0, i)
<1>1. Len(sep) \in Nat /\ Len(sep) > 0
  BY TextHas, NotEmpty
<1>2. i - 0 = i
  OBVIOUS
<1>3. Fits(s, sep, i, 0)
  BY DEF Fits
<1>4. \A p \in i .. i - 1 : FALSE
  OBVIOUS
<1> QED
  BY <1>1, <1>2, <1>3, <1>4 DEF Cutting

LEMMA CutEmpty ==
  ASSUME NEW s \in Text
  PROVE  Slice(s, Len(s), Len(s)) = <<>>
<1> DEFINE len == Len(s)
           x == Slice(s, len, len)
<1>1. len \in Nat /\ len <= Len(s) /\ len <= len /\ len - len = 0
  BY TextHas
<1> HIDE DEF len
<1>2. x \in Text /\ Len(x) = len - len
  BY <1>1, SliceAt
<1> HIDE DEF x
<1>3. x = <<>>
  BY <1>1, <1>2, EmptySeq DEF Text
<1> QED
  BY <1>3 DEF x, len

(* cut is how split goes through s, rounds being counted from the end. *)
SplitOf(w, s, sep, cut) ==
  /\ w.ptr = s /\ w.length = Len(s)
  /\ \A i \in Nat : cut[i] = CutRow(w, sep, i, cut[i + 1])

LEMMA CutStep ==
  ASSUME NEW s \in Text, NEW sep \in Text, NEW w, NEW cut, SplitOf(w, s, sep, cut),
         NEW i \in Nat, NEW k \in Nat, NEW start \in Nat, NEW left \in Nat
  PROVE  /\ w.ptr = s /\ w.length = Len(s)
         /\ cut[i][<<k, start, left>>] = Round(w, sep, i, cut[i + 1], k, start, left)
<1>1. w.ptr = s /\ w.length = Len(s) /\ cut[i] = CutRow(w, sep, i, cut[i + 1])
  BY DEF SplitOf
<1>2. CutRow(w, sep, i, cut[i + 1])[<<k, start, left>>] = Round(w, sep, i, cut[i + 1], k, start, left)
  BY CutRound
<1> QED
  BY <1>1, <1>2

LEMMA RoundAtEnd ==
  ASSUME NEW s, s # <<>>, NEW sep, sep # <<>>, NEW w, w.ptr = s, w.length = Len(s), NEW row,
         NEW k, NEW start, NEW left, left # 0, Len(s) >= Len(s)
  PROVE  Round(w, sep, Len(s), row, k, start, left)
           = IF start # Len(s) THEN <<fh_str_slice(s, start, Len(s))>> ELSE <<JSSTR(<<>>)>>
BY DEF Round

(* What a round before the end does. *)
Inside(s, sep, cut, i, k, start, left, next, fewer, m) ==
  /\ m = Len(sep)
       => cut[i][<<k, start, left>>]
            = <<fh_str_slice(s, start, i - Len(sep) + 1)>> \o cut[next][<<0, next, fewer>>]
  /\ m # Len(sep) => cut[i][<<k, start, left>>] = cut[next][<<m, start, left>>]

LEMMA CutInside ==
  ASSUME NEW s \in Text, NEW sep \in Text, NEW w, NEW cut, SplitOf(w, s, sep, cut),
         NEW i \in Nat, ~ (i >= Len(s)), NEW k \in Nat, NEW start \in Nat, NEW left \in Nat, left # 0,
         NEW next, next = i + 1, NEW fewer, fewer = left - 1, NEW m, m = Scan(s, i, sep, k)
  PROVE  Inside(s, sep, cut, i, k, start, left, next, fewer, m)
<1> DEFINE row == cut[i + 1]
           res == cut[i][<<k, start, left>>]
<1>1. w.ptr = s /\ res = Round(w, sep, i, row, k, start, left)
  BY CutStep
<1>2. row = cut[next]
  OBVIOUS
<1> HIDE DEF row, res
<1>3. /\ m = Len(sep)
           => res = <<fh_str_slice(s, start, i - Len(sep) + 1)>> \o row[<<0, i + 1, left - 1>>]
      /\ m # Len(sep) => res = row[<<m, start, left>>]
  BY <1>1 DEF Round
<1> QED
  BY <1>2, <1>3 DEF res, Inside

(* From round i on. *)
CutsFrom(s, sep, cut, i) ==
  \A k, start, left \in Nat :
    Cutting(s, sep, i, k, start) /\ left > Len(s) - i => CutsUp(s, sep, start, cut[i][<<k, start, left>>])

LEMMA CutsLast ==
  ASSUME NEW s \in Text, s # <<>>, NEW sep \in Text, sep # <<>>, NEW w, NEW cut, SplitOf(w, s, sep, cut)
  PROVE  CutsFrom(s, sep, cut, Len(s))
<1> DEFINE len == Len(s)
<1>1. len \in Nat
  BY TextHas
<1>2. ASSUME NEW k \in Nat, NEW start \in Nat, NEW left \in Nat, Cutting(s, sep, len, k, start), left > len - len
      PROVE  CutsUp(s, sep, start, cut[len][<<k, start, left>>])
  <2> DEFINE res == cut[len][<<k, start, left>>]
  <2>1. left # 0
    <3> HIDE DEF len
    <3> QED
      BY <1>1, <1>2
  <2>2. start <= len /\ CutsUp(s, sep, start, <<JSSTR(Slice(s, start, len))>>)
    BY <1>2, CutEnds
  <2>3. len >= len
    <3> HIDE DEF len
    <3> QED
      BY <1>1
  <2>4. res = IF start # len THEN <<fh_str_slice(s, start, len)>> ELSE <<JSSTR(<<>>)>>
    <3> DEFINE row == cut[len + 1]
    <3>1. w.ptr = s /\ w.length = Len(s) /\ res = Round(w, sep, len, row, k, start, left)
      BY <1>1, CutStep
    <3> HIDE DEF row, res
    <3> QED
      BY <2>1, <2>3, <3>1, RoundAtEnd
  <2>5. fh_str_slice(s, start, len) = JSSTR(Slice(s, start, len))
    <3>1. len <= Len(s)
      BY <2>3
    <3> HIDE DEF len
    <3> QED
      BY <1>1, <2>2, <3>1, SliceMakes
  <2>6. start = len => Slice(s, start, len) = <<>>
    BY CutEmpty
  <2> HIDE DEF res, len
  <2>7. res = <<JSSTR(Slice(s, start, len))>>
    BY <2>4, <2>5, <2>6
  <2> QED
    BY <2>2, <2>7 DEF res
<1> QED
  BY <1>2 DEF CutsFrom

LEMMA CutsBefore ==
  ASSUME NEW s \in Text, s # <<>>, NEW sep \in Text, sep # <<>>, NEW w, NEW cut, SplitOf(w, s, sep, cut),
         NEW i \in Nat, i < Len(s), CutsFrom(s, sep, cut, i + 1)
  PROVE  CutsFrom(s, sep, cut, i)
<1> DEFINE len == Len(s)
           size == Len(sep)
           next == i + 1
<1>1. len \in Nat /\ size \in Nat /\ ~ (i >= len) /\ next \in Nat
  <2>1. len \in Nat /\ size \in Nat
    BY TextHas
  <2> HIDE DEF size
  <2> QED
    BY <2>1
<1>2. ASSUME NEW k \in Nat, NEW start \in Nat, NEW left \in Nat, Cutting(s, sep, i, k, start), left > len - i
      PROVE  CutsUp(s, sep, start, cut[i][<<k, start, left>>])
  <2> DEFINE res == cut[i][<<k, start, left>>]
             m == Scan(s, i, sep, k)
             fewer == left - 1
             b == i - size + 1
             rest == cut[next][<<0, next, fewer>>]
             p == JSSTR(Slice(s, start, b))
  <2>1. left # 0 /\ fewer \in Nat /\ fewer > len - next /\ left > len - next
    <3>1. i < len
      OBVIOUS
    <3> HIDE DEF len
    <3> QED
      BY <1>1, <1>2, <3>1, LeftEnough
  <2>2. /\ m = size => res = <<fh_str_slice(s, start, b)>> \o rest
        /\ m # size => res = cut[next][<<m, start, left>>]
    <3>1. ~ (i >= Len(s)) /\ next = i + 1 /\ fewer = left - 1 /\ m = Scan(s, i, sep, k)
      BY <1>1
    <3>2. Inside(s, sep, cut, i, k, start, left, next, fewer, m)
      <4> HIDE DEF next, fewer, m
      <4> QED
        BY <2>1, <3>1, CutInside
    <3> HIDE DEF next, fewer, m
    <3> QED
      BY <3>2 DEF Inside
  <2> HIDE DEF res
  <2>3. ASSUME NEW k1 \in Nat, NEW start1 \in Nat, NEW left1 \in Nat, Cutting(s, sep, next, k1, start1), left1 > len - next
        PROVE  CutsUp(s, sep, start1, cut[next][<<k1, start1, left1>>])
    BY <2>3 DEF CutsFrom
  <2>4. CASE m = size
    <3>1. /\ b \in Nat /\ start <= b /\ b + size = next /\ Fits(s, sep, b, size)
          /\ Scannable(sep) => Places(Slice(s, start, b), sep) = {}
      <4>1. Scan(s, i, sep, k) = Len(sep)
        BY <2>4
      <4> QED
        BY <1>2, <4>1, CutFound
    <3>2. b + size <= len /\ b <= len
      <4>1. i < len
        OBVIOUS
      <4> HIDE DEF b, size, len
      <4> QED
        BY <1>1, <3>1, <4>1, EndsInside DEF next
    <3>3. fh_str_slice(s, start, b) = p
      <4> HIDE DEF b
      <4> QED
        BY <3>1, <3>2, SliceMakes
    <3>4. Cutting(s, sep, next, 0, next)
      <4> HIDE DEF next
      <4> QED
        BY <1>1, CutAgain
    <3>5. CutsUp(s, sep, next, rest)
      <4> HIDE DEF next, fewer, len
      <4>1. 0 \in Nat
        OBVIOUS
      <4> QED
        BY <1>1, <2>1, <2>3, <3>4, <4>1
    <3> HIDE DEF rest, b
    <3>6. CutsUp(s, sep, b + Len(sep), rest)
      BY <3>1, <3>5
    <3>7. CutsUp(s, sep, start, <<p>> \o rest)
      BY <3>1, <3>2, <3>6, CutMore
    <3> HIDE DEF p, m, size
    <3>8. res = <<p>> \o rest
      BY <2>2, <2>4, <3>3
    <3> QED
      BY <3>7, <3>8 DEF res
  <2>5. CASE m # size
    <3>1. m \in Nat /\ Cutting(s, sep, next, m, start)
      <4>1. m = Scan(s, i, sep, k) /\ m # Len(sep)
        BY <2>5
      <4> HIDE DEF m
      <4> QED
        BY <1>2, <4>1, CutGoesOn
    <3> HIDE DEF m, next, len, size
    <3>2. CutsUp(s, sep, start, cut[next][<<m, start, left>>])
      BY <2>1, <2>3, <3>1
    <3>3. res = cut[next][<<m, start, left>>]
      BY <2>2, <2>5
    <3> QED
      BY <3>2, <3>3 DEF res
  <2> QED
    BY <2>4, <2>5
<1> QED
  BY <1>2 DEF CutsFrom

LEMMA CutsAll ==
  ASSUME NEW s \in Text, s # <<>>, NEW sep \in Text, sep # <<>>, NEW w, NEW cut, SplitOf(w, s, sep, cut)
  PROVE  CutsFrom(s, sep, cut, 0)
<1> DEFINE len == Len(s)
           S == 0 .. len
           rank == [i \in S |-> len - i]
           P == {i \in S : CutsFrom(s, sep, cut, i)}
<1>1. len \in Nat
  BY TextHas
<1>2. CutsFrom(s, sep, cut, len)
  BY CutsLast
<1>3. ASSUME NEW i \in Nat, i < len, CutsFrom(s, sep, cut, i + 1) PROVE CutsFrom(s, sep, cut, i)
  BY <1>3, CutsBefore
<1> HIDE DEF len
<1>4. /\ rank \in [S -> Nat]
      /\ \A i \in S : i # len => i \in Nat /\ i < len /\ i + 1 \in S /\ rank[i + 1] < rank[i]
  BY <1>1, BackFrom
<1>5. 0 \in S
  BY <1>1
<1>6. P \subseteq S /\ \A i \in S : i \in P <=> CutsFrom(s, sep, cut, i)
  OBVIOUS
<1> HIDE DEF S, rank, P
<1>7. \A i \in S : (\A j \in S : rank[j] < rank[i] => j \in P) => i \in P
  <2> SUFFICES ASSUME NEW i \in S, \A j \in S : rank[j] < rank[i] => j \in P PROVE i \in P
    OBVIOUS
  <2>1. CASE i = len
    BY <1>2, <1>6, <2>1
  <2>2. CASE i # len
    <3>1. i \in Nat /\ i < len /\ i + 1 \in S /\ rank[i + 1] < rank[i]
      BY <1>4, <2>2
    <3>2. i + 1 \in P
      BY <3>1
    <3>3. CutsFrom(s, sep, cut, i + 1)
      BY <1>6, <3>1, <3>2
    <3> QED
      BY <1>3, <1>6, <3>1, <3>3
  <2> QED
    BY <2>1, <2>2
<1>8. \A i \in S : i \in P
  BY <1>4, <1>7, ByRank
<1> QED
  BY <1>5, <1>6, <1>8

LEMMA WholeSlice ==
  ASSUME NEW s \in Text
  PROVE  Slice(s, 0, Len(s)) = s
<1> DEFINE len == Len(s)
           x == Slice(s, 0, len)
<1>1. len \in Nat /\ len <= Len(s) /\ 0 \in Nat /\ 0 <= len
  BY TextHas
<1> HIDE DEF len
<1>2. x \in Text /\ Len(x) = len - 0 /\ \A i \in 1 .. len - 0 : x[i] = s[0 + i]
  BY <1>1, SliceAt
<1> HIDE DEF x
<1>3. len - 0 = len /\ \A i \in 1 .. len : 0 + i = i
  BY <1>1
<1>4. Len(x) = len /\ \A i \in 1 .. len : x[i] = s[i]
  BY <1>2, <1>3
<1>5. x = s
  BY <1>2, <1>4, SeqEqual DEF Text, len
<1> QED
  BY <1>5 DEF x, len

(* The parts of split and what they are when joined. *)
LEMMA SplitFinds ==
  ASSUME NEW w \in JSString, NEW sep \in Text, sep # <<>>, w.ptr # <<>>, w.length = Len(w.ptr)
  PROVE  LET parts == split(w, sep, Len(w.ptr) + 1)
             texts == [i \in DOMAIN parts |-> parts[i].ptr]
         IN  /\ Joined(texts, sep) = w.ptr
             /\ Scannable(sep) => \A i \in DOMAIN texts : Places(texts[i], sep) = {}
<1> DEFINE s == w.ptr
           len == Len(s)
           limit == len + 1
           parts == split(w, sep, limit)
           texts == [i \in DOMAIN parts |-> parts[i].ptr]
           zero == 0
<1>1. s \in Text /\ s # <<>>
  BY StringHas
<1>2. len \in Nat /\ limit \in Nat /\ zero \in Nat /\ limit > len - zero
  <2>1. len \in Nat
    BY <1>1, TextHas
  <2> HIDE DEF len
  <2> QED
    BY <2>1
<1> HIDE DEF limit
<1>3. PICK cut : /\ \A i \in Nat : cut[i] = CutRow(w, sep, i, cut[i + 1])
                 /\ parts = cut[0][<<0, 0, limit>>]
  BY <1>2, SplitSteps
<1>4. SplitOf(w, s, sep, cut)
  BY <1>3 DEF SplitOf
<1>5. CutsFrom(s, sep, cut, zero)
  BY <1>1, <1>4, CutsAll
<1>6. parts = cut[zero][<<zero, zero, limit>>]
  BY <1>3
<1> HIDE DEF parts, zero, s
<1>7. Cutting(s, sep, zero, zero, zero)
  BY <1>1, <1>2, CutAgain DEF zero
<1>8. CutsUp(s, sep, zero, parts)
  BY <1>2, <1>5, <1>6, <1>7 DEF CutsFrom
<1>9. /\ parts \in Seq(MadeString)
      /\ Joined(TextsOf(parts), sep) = Slice(s, 0, Len(s))
      /\ Scannable(sep) => \A i \in 1 .. Len(parts) : Places(parts[i].ptr, sep) = {}
  BY <1>8 DEF CutsUp, zero
<1>10. Joined(texts, sep) = s
  BY <1>1, <1>9, WholeSlice DEF TextsOf
<1>11. DOMAIN parts = 1 .. Len(parts) /\ DOMAIN texts = DOMAIN parts /\ \A i \in DOMAIN parts : texts[i] = parts[i].ptr
  BY <1>9
<1>12. Scannable(sep) => \A i \in DOMAIN texts : Places(texts[i], sep) = {}
  BY <1>9, <1>11
<1> QED
  BY <1>10, <1>12 DEF parts, limit, len, s

LEMMA SearchesHold == PrimitiveTypeOK => SearchesAgree
<1> SUFFICES ASSUME PrimitiveTypeOK, IS_STR(v), NEW t \in Texts \ {<<>>}
             PROVE  LET s == v.ptr
                        parts == split(v, t, Len(s) + 1)
                    IN  /\ \A from \in 0 .. Len(s) + 1 :
                             LET at == {p \in Places(s, t) : p >= from}
                                 i  == index_of(s, t, from)
                             IN  i \in at \cup {-1} /\ (Scannable(t) => i = MinOr(at, -1))
                        /\ Len(t) = 1 => \A from \in 0 .. Len(s) - 1 :
                             last_index_of(s, t, from) = MaxOr({p \in Places(s, t) : p <= from}, -1)
                        /\ v.length = Len(s) /\ s # <<>> =>
                             LET texts == [i \in DOMAIN parts |-> parts[i].ptr]
                             IN  /\ Joined(texts, t) = s
                                 /\ Scannable(t) => \A i \in DOMAIN texts : Places(texts[i], t) = {}
  BY DEF SearchesAgree
<1>1. v \in JSString /\ v.ptr \in Text
  BY StateIs
<1>2. t \in Text /\ t # <<>>
  BY ConstantsAre
<1>3. ASSUME NEW from \in 0 .. Len(v.ptr) + 1
      PROVE  LET at == {p \in Places(v.ptr, t) : p >= from}
                 i  == index_of(v.ptr, t, from)
             IN  i \in at \cup {-1} /\ (Scannable(t) => i = MinOr(at, -1))
  <2>1. from \in Nat
    BY <1>1, TextHas
  <2> QED
    BY <1>1, <1>2, <2>1, IndexFinds
<1>4. ASSUME Len(t) = 1, NEW from \in 0 .. Len(v.ptr) - 1
      PROVE  last_index_of(v.ptr, t, from) = MaxOr({p \in Places(v.ptr, t) : p <= from}, -1)
  BY <1>1, <1>2, <1>4, LastIndexFinds
<1>5. ASSUME v.length = Len(v.ptr), v.ptr # <<>>
      PROVE  LET parts == split(v, t, Len(v.ptr) + 1)
                 texts == [i \in DOMAIN parts |-> parts[i].ptr]
             IN  /\ Joined(texts, t) = v.ptr
                 /\ Scannable(t) => \A i \in DOMAIN texts : Places(texts[i], t) = {}
  BY <1>1, <1>2, <1>5, SplitFinds
<1> QED
  BY <1>3, <1>4, <1>5

(* Whatever a script has made of its variable, indexOf (String.c:86-158)   *)
(* answers a place of the needle or -1, the first place if its scan can    *)
(* miss none, and lastIndexOf the last place of a character; and the parts *)
(* that split (String.c:356-423) makes are the string again when joined,   *)
(* none of them holding a separator that the scan cannot miss.             *)
THEOREM SearchesCorrect == PrimitiveSpec => []SearchesAgree
<1>1. PrimitiveTypeOK => SearchesAgree
  BY SearchesHold
<1>2. PrimitiveSpec => []PrimitiveTypeOK
  BY PrimitiveTypeCorrect
<1> QED
  BY <1>1, <1>2, PTL

-----------------------------------------------------------------------------
(* The matches of a global expression.                                     *)

(* What exec answers from lastIndex i on. *)
MatchFrom(s, words, i) == IF i \in 0 .. Len(s) THEN fh_regexp(s, words, i) ELSE <<>>

(* What match finds in n rounds. *)
MatchesRow(s, words, n, row) ==
  [i \in Nat |->
     LET m == MatchFrom(s, words, i)
     IN  IF n = 0 THEN <<Hung>>
         ELSE IF m = <<>> THEN <<>>
         ELSE <<m>> \o row[IF m[2] = i THEN i + 1 ELSE m[2]]]
MatchesFunction(s, words) == CHOOSE find : find = [n \in Nat |-> MatchesRow(s, words, n, find[n - 1])]

Global(words) == [words |-> words, global |-> TRUE, lastIndex |-> 0]

LEMMA ExecFrom ==
  ASSUME NEW s, NEW words, NEW i \in Nat
  PROVE  exec(s, [Global(words) EXCEPT !.lastIndex = i]).match = MatchFrom(s, words, i)
<1> DEFINE r == [Global(words) EXCEPT !.lastIndex = i]
<1>1. r.words = words /\ r.global = TRUE /\ r.lastIndex = i
  BY DEF Global
<1> HIDE DEF r
<1>2. exec(s, r).match = IF i \in 0 .. Len(s) THEN fh_regexp(s, words, i) ELSE <<>>
  BY <1>1 DEF exec
<1> QED
  BY <1>2 DEF MatchFrom, r

LEMMA MatchIsFunction ==
  ASSUME NEW s, NEW words
  PROVE  match(s, Global(words)) = MatchesFunction(s, words)[Rounds(s)][0]
<1> DEFINE Row(n, row) ==
             [i \in Nat |->
                LET m == exec(s, [Global(words) EXCEPT !.lastIndex = i]).match
                IN  IF n = 0 THEN <<Hung>>
                    ELSE IF m = <<>> THEN <<>>
                    ELSE <<m>> \o row[IF m[2] = i THEN i + 1 ELSE m[2]]]
<1>1. ASSUME NEW n \in Nat, NEW row PROVE Row(n, row) = MatchesRow(s, words, n, row)
  BY ExecFrom DEF MatchesRow
<1>2. match(s, Global(words)) = (CHOOSE find : find = [n \in Nat |-> Row(n, find[n - 1])])[Rounds(s)][0]
  BY DEF match
<1> HIDE DEF Row
<1>3. ASSUME NEW find
      PROVE  (find = [n \in Nat |-> Row(n, find[n - 1])]) <=> (find = [n \in Nat |-> MatchesRow(s, words, n, find[n - 1])])
  BY <1>1
<1>4. (CHOOSE find : find = [n \in Nat |-> Row(n, find[n - 1])]) = MatchesFunction(s, words)
  BY <1>3 DEF MatchesFunction
<1> QED
  BY <1>2, <1>4

Matches == Seq(Int \X Int)

LEMMA MatchFromIs ==
  ASSUME NEW s \in Text, NEW words \in SUBSET Text, NEW i \in Nat
  PROVE  MatchFrom(s, words, i) = <<>> \/ \E a, b \in Nat : MatchFrom(s, words, i) = <<a, b>>
<1>1. fh_regexp(s, words, i) = <<>> \/ \E a, b \in Nat : fh_regexp(s, words, i) = <<a, b>>
  BY MatchIs
<1> QED
  BY <1>1 DEF MatchFrom

LEMMA MatchSteps ==
  ASSUME NEW s \in Text, NEW words \in SUBSET Text
  PROVE  \E find \in [Nat -> [Nat -> Matches]] :
           /\ \A n \in Nat : find[n] = MatchesRow(s, words, n, find[n - 1])
           /\ match(s, Global(words)) = find[Rounds(s)][0]
<1> DEFINE S == Nat
           T == [Nat -> Matches]
           rank == [n \in S |-> n]
           stop == {0}
           next == [n \in S |-> n - 1]
           out == [n \in S |-> MatchesRow(s, words, n, next)]
           op == [y \in S \X T |-> MatchesRow(s, words, y[1], y[2])]
           find == MatchesFunction(s, words)
<1>1. <<>> \in Matches /\ <<Hung>> \in Matches
  BY DEF Matches, Hung
<1>2. ASSUME NEW a \in Nat, NEW b \in Nat, NEW ms \in Matches PROVE << <<a, b>> >> \o ms \in Matches
  <2> DEFINE Pair == Int \X Int
             p == <<a, b>>
  <2>1. p \in Pair
    OBVIOUS
  <2> HIDE DEF Pair, p
  <2>2. <<p>> \in Seq(Pair)
    BY <2>1
  <2>3. ms \in Seq(Pair)
    BY DEF Matches, Pair
  <2>4. <<p>> \o ms \in Seq(Pair)
    BY <2>2, <2>3, ConcatProperties
  <2> QED
    BY <2>4 DEF Matches, Pair, p
<1>a. /\ \A n \in S : (n \in stop <=> n = 0) /\ next[n] = n - 1 /\ out[n] = MatchesRow(s, words, n, next)
      /\ \A n \in S, t \in T : op[<<n, t>>] = MatchesRow(s, words, n, t)
  <2> HIDE DEF T
  <2> QED
    OBVIOUS
<1>b. Descends(S, rank, stop, next)
  BY DEF Descends
<1>c. op = [y \in S \X T |-> MatchesRow(s, words, y[1], y[2])] /\ T # {}
  <2>1. [i \in Nat |-> <<>>] \in T
    BY <1>1
  <2> QED
    BY <2>1
<1>d. \A n \in S : n # 0 => n - 1 \in S
  OBVIOUS
<1> HIDE DEF rank, stop, next, out, op, find
<1>5. ASSUME NEW n \in S, NEW row, n = 0 \/ row \in T PROVE MatchesRow(s, words, n, row) \in T
  <2>1. ASSUME NEW i \in Nat
        PROVE  LET m == MatchFrom(s, words, i)
               IN  (IF n = 0 THEN <<Hung>>
                    ELSE IF m = <<>> THEN <<>>
                    ELSE <<m>> \o row[IF m[2] = i THEN i + 1 ELSE m[2]]) \in Matches
    <3> DEFINE m == MatchFrom(s, words, i)
               j == IF m[2] = i THEN i + 1 ELSE m[2]
    <3>1. m = <<>> \/ \E a, b \in Nat : m = <<a, b>>
      BY MatchFromIs
    <3> HIDE DEF m
    <3>2. CASE m = <<>> \/ n = 0
      BY <1>1, <3>2 DEF m
    <3>3. CASE m # <<>> /\ n # 0
      <4>1. PICK a, b \in Nat : m = <<a, b>>
        BY <3>1, <3>3
      <4>2. j \in Nat
        BY <4>1
      <4> HIDE DEF j
      <4>3. row[j] \in Matches
        BY <1>5, <3>3, <4>2
      <4>4. <<m>> \o row[j] \in Matches
        BY <1>2, <4>1, <4>3
      <4> QED
        BY <3>3, <4>4 DEF m, j
    <3> QED
      BY <3>2, <3>3
  <2> QED
    BY <2>1 DEF MatchesRow
<1>6. ASSUME NEW n \in S, n = 0, NEW row PROVE MatchesRow(s, words, n, row) = out[n]
  <2>1. MatchesRow(s, words, n, row) = MatchesRow(s, words, n, next)
    BY <1>6 DEF MatchesRow
  <2> QED
    BY <1>a, <2>1
<1>7. MakesValues(S, T, rank, stop, next, out, op)
  <2>1. \A y \in S \X T : MatchesRow(s, words, y[1], y[2]) \in T
    BY <1>5
  <2> HIDE DEF S, T
  <2>2. op \in [S \X T -> T]
    BY <1>c, <2>1
  <2>3. \A n \in S : n \in stop => out[n] \in T
    BY <1>5, <1>a
  <2> QED
    BY <1>b, <1>c, <2>2, <2>3 DEF MakesValues
<1> HIDE DEF S, T
<1>8. PICK f \in [S -> T] : \A n \in S : f[n] = IF n \in stop THEN out[n] ELSE op[<<n, f[next[n]]>>]
  BY <1>7, Descent
<1>9. f = [n \in S |-> MatchesRow(s, words, n, f[n - 1])]
  <2>1. ASSUME NEW n \in S PROVE f[n] = MatchesRow(s, words, n, f[n - 1])
    <3>1. CASE n \in stop
      BY <1>6, <1>8, <1>a, <3>1
    <3>2. CASE n \notin stop
      <4>1. f[n - 1] \in T /\ f[n] = op[<<n, f[n - 1]>>]
        BY <1>8, <1>a, <1>d, <3>2
      <4> QED
        BY <1>a, <4>1
    <3> QED
      BY <3>1, <3>2
  <2> QED
    BY <2>1
<1>10. find = [n \in S |-> MatchesRow(s, words, n, find[n - 1])]
  BY <1>9 DEF MatchesFunction, S, find
<1>11. \A n \in S : find[n] \in T
  <2>1. ASSUME NEW n \in S, n \in stop \/ find[next[n]] \in T PROVE find[n] \in T
    BY <1>5, <1>10, <1>a, <2>1
  <2> QED
    BY <1>b, <2>1, DescentType
<1>12. match(s, Global(words)) = find[Rounds(s)][0]
  BY MatchIsFunction DEF find
<1>13. find \in [S -> T] /\ \A n \in S : find[n] = MatchesRow(s, words, n, find[n - 1])
  BY <1>10, <1>11
<1> QED
  BY <1>12, <1>13 DEF S, T

LEMMA WordIs ==
  ASSUME NEW s \in Text, NEW words \in SUBSET Text, NEW p \in Nat, p <= Len(s), NEW w
  PROVE  w \in WordsAt(s, words, p) <=> w \in words /\ p + Len(w) <= Len(s) /\ Fits(s, w, p, Len(w))
<1>1. p \in 0 .. Len(s)
  BY TextHas
<1>2. ASSUME w \in words PROVE IsPrefix(w, Slice(s, p, Len(s))) <=> p + Len(w) <= Len(s) /\ Fits(s, w, p, Len(w))
  <2>1. w \in Text
    BY <1>2
  <2>2. p \in Places(s, w) <=> p + Len(w) <= Len(s) /\ Fits(s, w, p, Len(w))
    BY <1>1, <2>1, PlaceIs
  <2> QED
    BY <1>1, <2>2 DEF Places
<1> QED
  BY <1>2 DEF WordsAt

(* The empty word is everywhere. *)
LEMMA EmptyWord ==
  ASSUME NEW s \in Text, NEW words \in SUBSET Text, NEW p \in Nat, p <= Len(s), <<>> \in words
  PROVE  <<>> \in WordsAt(s, words, p)
<1> DEFINE w == <<>>
<1>1. Len(w) = 0 /\ Fits(s, w, p, 0) /\ p + 0 <= Len(s)
  BY EmptyText DEF Fits
<1>2. w \in words
  OBVIOUS
<1> HIDE DEF w
<1>3. w \in WordsAt(s, words, p)
  BY <1>1, <1>2, WordIs
<1> QED
  BY <1>3 DEF w

(* An empty match is found at once. *)
LEMMA EmptyMatch ==
  ASSUME NEW s \in Text, NEW words \in SUBSET Text, NEW i \in Nat, NEW a, FirstAt(s, words, i, a),
         LongestAt(s, words, a) \in WordsAt(s, words, a), Len(LongestAt(s, words, a)) = 0
  PROVE  <<>> \in words /\ a = i
<1> DEFINE w == LongestAt(s, words, a)
<1>1. w \in words /\ w \in Text
  BY DEF WordsAt
<1>2. w = <<>>
  BY <1>1, EmptySeq DEF Text
<1> HIDE DEF w
<1>3. a \in Nat /\ i <= a /\ a <= Len(s) /\ Len(s) \in Nat /\ \A p \in Nat : i <= p /\ p < a => WordsAt(s, words, p) = {}
  BY TextHas DEF FirstAt
<1>4. i <= Len(s)
  BY <1>3
<1>5. WordsAt(s, words, i) # {}
  BY <1>1, <1>2, <1>4, EmptyWord
<1>6. ~ (i < a)
  BY <1>3, <1>5
<1> QED
  BY <1>1, <1>2, <1>3, <1>6

(* The matches from i on. *)
Finds(s, words, i, ms) ==
  /\ ms \in Seq(Nat \X Nat)
  /\ \A j \in 1 .. Len(ms) : i <= ms[j][1]
  /\ \A j \in 1 .. Len(ms) - 1 : ms[j][1] < ms[j + 1][1] /\ ms[j][2] <= ms[j + 1][1]
  /\ \A p \in Nat : i <= p /\ p <= Len(s) /\ WordsAt(s, words, p) # {} =>
       \E j \in 1 .. Len(ms) : p = ms[j][1] \/ (ms[j][1] <= p /\ p < ms[j][2])

LEMMA FindsNone ==
  ASSUME NEW s, NEW words, NEW i,
         \A p \in Nat : i <= p /\ p <= Len(s) => WordsAt(s, words, p) = {}
  PROVE  Finds(s, words, i, <<>>)
<1> DEFINE ms == <<>>
<1>1. ms \in Seq(Nat \X Nat) /\ Len(ms) = 0
  BY EmptySeq
<1> HIDE DEF ms
<1>2. (\A j \in 1 .. Len(ms) : FALSE) /\ (\A j \in 1 .. Len(ms) - 1 : FALSE)
  BY <1>1
<1>3. Finds(s, words, i, ms)
  BY <1>1, <1>2 DEF Finds
<1> QED
  BY <1>3 DEF ms

(* One more match in front, with the place where the next search starts. *)
LEMMA FindsMore ==
  ASSUME NEW s, NEW words, NEW i \in Nat, NEW a \in Nat, NEW b \in Nat, FirstAt(s, words, i, a), a <= b,
         a = b => a = i, NEW next, next = IF b = i THEN i + 1 ELSE b, NEW ms, Finds(s, words, next, ms)
  PROVE  Finds(s, words, i, << <<a, b>> >> \o ms)
<1> DEFINE Pair == Nat \X Nat
           m == <<a, b>>
           ws == <<m>> \o ms
<1>1. m \in Pair /\ m[1] = a /\ m[2] = b
  OBVIOUS
<1>2. /\ ms \in Seq(Pair)
      /\ \A j \in 1 .. Len(ms) : next <= ms[j][1]
      /\ \A j \in 1 .. Len(ms) - 1 : ms[j][1] < ms[j + 1][1] /\ ms[j][2] <= ms[j + 1][1]
      /\ \A p \in Nat : next <= p /\ p <= Len(s) /\ WordsAt(s, words, p) # {} =>
           \E j \in 1 .. Len(ms) : p = ms[j][1] \/ (ms[j][1] <= p /\ p < ms[j][2])
  BY DEF Finds
<1>3. next \in Nat /\ a < next /\ b <= next /\ i <= next /\ i <= a /\ \A p \in Nat : i <= p /\ p < next => p = a \/ p < a \/ (a <= p /\ p < b)
  BY DEF FirstAt
<1>4. Len(ms) \in Nat /\ \A j \in 1 .. Len(ms) : ms[j] \in Pair
  BY <1>2, LenProperties, ElementOfSeq
<1> HIDE DEF m
<1>5. ws \in Seq(Pair) /\ Len(ws) = Len(ms) + 1 /\ ws[1] = m /\ \A j \in 1 .. Len(ms) : ws[j + 1] = ms[j]
  <2> HIDE DEF Pair
  <2> QED
    BY <1>1, <1>2, InFrontOf
<1> HIDE DEF ws
<1>a. (\A j \in 1 .. Len(ws) - 1 : j \in 1 .. Len(ms) /\ j \in 1 .. Len(ws)) /\ (\A j \in 1 .. Len(ms) : j + 1 \in 1 .. Len(ws))
  <2> DEFINE k == Len(ms)
             l == Len(ws)
  <2>1. k \in Nat /\ l = k + 1
    BY <1>4, <1>5
  <2> HIDE DEF k, l
  <2>2. (\A j \in 1 .. l - 1 : j \in 1 .. k /\ j \in 1 .. l) /\ (\A j \in 1 .. k : j + 1 \in 1 .. l)
    BY <2>1
  <2> QED
    BY <2>2 DEF k, l
<1>6. ASSUME NEW j \in 1 .. Len(ws), j # 1 PROVE j - 1 \in 1 .. Len(ms) /\ (j - 1) + 1 = j /\ ws[j] = ms[j - 1]
  <2>1. j - 1 \in 1 .. Len(ms) /\ (j - 1) + 1 = j
    BY <1>4, <1>5, <1>6
  <2> QED
    BY <1>5, <2>1
<1>7. ASSUME NEW j \in 1 .. Len(ws) PROVE i <= ws[j][1]
  <2>1. CASE j = 1
    BY <1>1, <1>3, <1>5, <2>1
  <2>2. CASE j # 1
    <3> DEFINE k == j - 1
    <3>1. k \in 1 .. Len(ms) /\ ws[j] = ms[k]
      BY <1>6, <2>2
    <3> HIDE DEF k
    <3>2. next <= ms[k][1] /\ ms[k][1] \in Nat
      BY <1>2, <1>4, <3>1
    <3> QED
      BY <1>3, <3>1, <3>2
  <2> QED
    BY <2>1, <2>2
<1>8. ASSUME NEW j \in 1 .. Len(ws) - 1 PROVE ws[j][1] < ws[j + 1][1] /\ ws[j][2] <= ws[j + 1][1]
  <2>1. j \in 1 .. Len(ms) /\ j \in 1 .. Len(ws) /\ ws[j + 1] = ms[j]
    BY <1>5, <1>a
  <2>2. next <= ms[j][1] /\ ms[j][1] \in Nat
    BY <1>2, <1>4, <2>1
  <2>3. CASE j = 1
    BY <1>1, <1>3, <1>5, <2>1, <2>2, <2>3
  <2>4. CASE j # 1
    <3> DEFINE k == j - 1
    <3>1. k \in 1 .. Len(ms) /\ k + 1 = j /\ ws[j] = ms[k]
      BY <1>6, <2>1, <2>4
    <3>2. k \in 1 .. Len(ms) - 1
      BY <1>4, <1>5, <2>4
    <3> HIDE DEF k
    <3>3. ms[k][1] < ms[k + 1][1] /\ ms[k][2] <= ms[k + 1][1]
      BY <1>2, <3>2
    <3> QED
      BY <2>1, <3>1, <3>3
  <2> QED
    BY <2>3, <2>4
<1>9. ASSUME NEW p \in Nat, i <= p, p <= Len(s), WordsAt(s, words, p) # {}
      PROVE  \E j \in 1 .. Len(ws) : p = ws[j][1] \/ (ws[j][1] <= p /\ p < ws[j][2])
  <2>1. ~ (p < a)
    BY <1>9 DEF FirstAt
  <2>2. CASE p < next
    <3>1. p = a \/ (a <= p /\ p < b)
      BY <1>3, <1>9, <2>1, <2>2
    <3>2. 1 \in 1 .. Len(ws)
      BY <1>4, <1>5
    <3> QED
      BY <1>1, <1>5, <3>1, <3>2
  <2>3. CASE ~ (p < next)
    <3>1. next <= p
      BY <1>3, <2>3
    <3>2. PICK k \in 1 .. Len(ms) : p = ms[k][1] \/ (ms[k][1] <= p /\ p < ms[k][2])
      BY <1>2, <1>9, <3>1
    <3>3. k + 1 \in 1 .. Len(ws) /\ ws[k + 1] = ms[k]
      BY <1>5, <1>a
    <3> QED
      BY <3>2, <3>3
  <2> QED
    BY <2>2, <2>3
<1> QED
  BY <1>5, <1>7, <1>8, <1>9 DEF Finds, ws, m

LEMMA MatchRound ==
  ASSUME NEW s, NEW words, NEW n, n # 0, NEW row, NEW i \in Nat
  PROVE  MatchesRow(s, words, n, row)[i]
           = IF MatchFrom(s, words, i) = <<>> THEN <<>>
             ELSE <<MatchFrom(s, words, i)>>
                    \o row[IF MatchFrom(s, words, i)[2] = i THEN i + 1 ELSE MatchFrom(s, words, i)[2]]
BY DEF MatchesRow

LEMMA NoneFound ==
  ASSUME NEW s \in Text, NEW words \in SUBSET Text, NEW i \in Nat, fh_regexp(s, words, i) = <<>>
  PROVE  \A p \in Nat : i <= p /\ p <= Len(s) => WordsAt(s, words, p) = {}
<1> DEFINE m == fh_regexp(s, words, i)
           None == \A p \in Nat : i <= p /\ p <= Len(s) => WordsAt(s, words, p) = {}
<1>1. (m = <<>> /\ None) \/ \E a, b \in Nat : m = <<a, b>>
  BY MatchFinds
<1>2. m = <<>>
  OBVIOUS
<1> HIDE DEF m, None
<1>3. None
  BY <1>1, <1>2
<1> QED
  BY <1>3 DEF None

(* find is what match finds, by rounds. *)
MatchesOf(s, words, find) == \A n \in Nat : find[n] = MatchesRow(s, words, n, find[n - 1])

LEMMA MatchesAll ==
  ASSUME NEW s \in Text, NEW words \in SUBSET Text, NEW find, MatchesOf(s, words, find)
  PROVE  \A n \in Nat : \A i \in Nat : n # 0 /\ n > Len(s) + 1 - i => Finds(s, words, i, find[n][i])
<1> DEFINE S == Nat
           len == Len(s)
           rank == [n \in S |-> n]
           P == {n \in S : \A i \in Nat : n # 0 /\ n > len + 1 - i => Finds(s, words, i, find[n][i])}
<1>1. len \in Nat
  BY TextHas
<1>2. ASSUME NEW n \in Nat, n # 0 => n - 1 \in P, NEW i \in Nat, n # 0, n > len + 1 - i
      PROVE  Finds(s, words, i, find[n][i])
  <2> DEFINE m == MatchFrom(s, words, i)
             row == find[n - 1]
             res == find[n][i]
  <2>1. find[n] = MatchesRow(s, words, n, row)
    BY DEF MatchesOf
  <2> HIDE DEF row
  <2>2. res = IF m = <<>> THEN <<>> ELSE <<m>> \o row[IF m[2] = i THEN i + 1 ELSE m[2]]
    <3>1. n # 0
      BY <1>2
    <3> HIDE DEF P
    <3>2. MatchesRow(s, words, n, row)[i]
            = IF m = <<>> THEN <<>> ELSE <<m>> \o row[IF m[2] = i THEN i + 1 ELSE m[2]]
      BY <3>1, MatchRound
    <3> QED
      BY <2>1, <3>2
  <2> HIDE DEF res
  <2>3. CASE m = <<>>
    <3>1. \A p \in Nat : i <= p /\ p <= len => WordsAt(s, words, p) = {}
      <4>1. CASE i <= len
        <5>1. i \in 0 .. Len(s)
          BY <1>1, <4>1
        <5>2. fh_regexp(s, words, i) = <<>>
          BY <2>3, <5>1 DEF MatchFrom
        <5> QED
          BY <5>2, NoneFound
      <4>2. CASE ~ (i <= len)
        <5> HIDE DEF len, m
        <5> QED
          BY <1>1, <4>2
      <4> QED
        BY <4>1, <4>2
    <3>2. Finds(s, words, i, <<>>)
      BY <3>1, FindsNone
    <3> QED
      BY <2>2, <2>3, <3>2 DEF res
  <2>4. CASE m # <<>>
    <3>1. i <= len /\ m = fh_regexp(s, words, i)
      <4>1. i \in 0 .. Len(s) /\ m = fh_regexp(s, words, i)
        BY <2>4 DEF MatchFrom
      <4>2. i \in 0 .. len
        BY <4>1
      <4> HIDE DEF len, m
      <4> QED
        BY <1>1, <4>1, <4>2
    <3>2. PICK a, b \in Nat : /\ m = <<a, b>> /\ FirstAt(s, words, i, a)
                              /\ LongestAt(s, words, a) \in WordsAt(s, words, a)
                              /\ b = a + Len(LongestAt(s, words, a)) /\ a <= b /\ b <= Len(s)
      BY <2>4, <3>1, MatchFinds
    <3> DEFINE next == IF b = i THEN i + 1 ELSE b
               rest == row[next]
    <3>3. a = b => a = i
      <4>1. LongestAt(s, words, a) \in Text
        BY <3>2 DEF WordsAt
      <4>2. a = b => Len(LongestAt(s, words, a)) = 0
        BY <3>2, <4>1, TextHas
      <4> QED
        BY <3>2, <4>2, EmptyMatch
    <3>4. next \in Nat /\ i < next
      BY <3>2 DEF FirstAt
    <3>5. res = << <<a, b>> >> \o rest
      <4>1. m # <<>> /\ m = <<a, b>> /\ m[2] = b
        BY <2>4, <3>2
      <4> HIDE DEF m
      <4> QED
        BY <2>2, <4>1
    <3> HIDE DEF m, next, rest
    <3>6. n - 1 \in P /\ n - 1 # 0 /\ n - 1 > len + 1 - next
      <4> HIDE DEF len, P
      <4>1. n - 1 # 0 /\ n - 1 > len + 1 - next
        BY <1>1, <1>2, <3>1, <3>4, RoundsLeft
      <4> QED
        BY <1>2, <4>1
    <3>7. Finds(s, words, next, rest)
      <4> DEFINE k == n - 1
      <4>1. k \in P /\ k # 0 /\ k > len + 1 - next
        BY <3>6
      <4>2. rest = find[k][next]
        BY DEF rest, row
      <4> HIDE DEF k, len
      <4> QED
        BY <3>4, <4>1, <4>2
    <3>8. next = IF b = i THEN i + 1 ELSE b
      BY DEF next
    <3>9. Finds(s, words, i, << <<a, b>> >> \o rest)
      BY <3>2, <3>3, <3>7, <3>8, FindsMore
    <3> QED
      BY <3>5, <3>9 DEF res
  <2> QED
    BY <2>3, <2>4
<1>3. rank \in [S -> Nat] /\ \A n \in S : n # 0 => n - 1 \in S /\ rank[n - 1] < rank[n]
  OBVIOUS
<1>4. \A n \in S : (n # 0 => n - 1 \in P) => n \in P
  BY <1>2
<1> HIDE DEF P, rank
<1>5. \A n \in S : (\A k \in S : rank[k] < rank[n] => k \in P) => n \in P
  BY <1>3, <1>4
<1> HIDE DEF S
<1>6. \A n \in S : n \in P
  BY <1>3, <1>5, ByRank
<1> QED
  BY <1>6 DEF P, S

LEMMA MatchFindsAll ==
  ASSUME NEW s \in Text, NEW words \in SUBSET Text
  PROVE  LET ms == match(s, Global(words))
         IN  /\ Hung \notin ToSet(ms)
             /\ \A i \in 1 .. Len(ms) - 1 : ms[i][1] < ms[i + 1][1] /\ ms[i][2] <= ms[i + 1][1]
             /\ \A p \in 0 .. Len(s) : WordsAt(s, words, p) # {} =>
                  \E m \in ToSet(ms) : p = m[1] \/ p \in m[1] .. m[2] - 1
<1> DEFINE ms == match(s, Global(words))
           n == Rounds(s)
           zero == 0
<1>1. PICK find : MatchesOf(s, words, find) /\ ms = find[n][zero]
  BY MatchSteps DEF MatchesOf
<1>2. n \in Nat /\ n # 0 /\ n > Len(s) + 1 - zero /\ zero \in Nat
  BY TextHas DEF Rounds
<1> HIDE DEF ms, n, zero
<1>3. Finds(s, words, zero, ms)
  BY <1>1, <1>2, MatchesAll
<1>4. ms \in Seq(Nat \X Nat)
  BY <1>3 DEF Finds
<1>5. DOMAIN ms = 1 .. Len(ms) /\ \A j \in 1 .. Len(ms) : ms[j] \in Nat \X Nat
  <2> DEFINE Pair == Nat \X Nat
  <2> HIDE DEF Pair
  <2>1. ms \in Seq(Pair)
    BY <1>4 DEF Pair
  <2>2. DOMAIN ms = 1 .. Len(ms) /\ \A j \in 1 .. Len(ms) : ms[j] \in Pair
    BY <2>1, LenProperties, ElementOfSeq
  <2> QED
    BY <2>2 DEF Pair
<1>6. Hung \notin Nat \X Nat
  BY DEF Hung
<1>7. Hung \notin ToSet(ms)
  BY <1>5, <1>6 DEF ToSet
<1>8. \A i \in 1 .. Len(ms) - 1 : ms[i][1] < ms[i + 1][1] /\ ms[i][2] <= ms[i + 1][1]
  BY <1>3 DEF Finds
<1>9. ASSUME NEW p \in 0 .. Len(s), WordsAt(s, words, p) # {}
      PROVE  \E m \in ToSet(ms) : p = m[1] \/ p \in m[1] .. m[2] - 1
  <2>1. p \in Nat /\ zero <= p /\ p <= Len(s)
    BY TextHas DEF zero
  <2>2. PICK j \in 1 .. Len(ms) : p = ms[j][1] \/ (ms[j][1] <= p /\ p < ms[j][2])
    BY <1>3, <1>9, <2>1 DEF Finds
  <2>3. ms[j] \in ToSet(ms) /\ ms[j] \in Nat \X Nat
    BY <1>5 DEF ToSet
  <2> DEFINE m == ms[j]
  <2>4. m \in ToSet(ms) /\ m[1] \in Nat /\ m[2] \in Nat /\ (p = m[1] \/ (m[1] <= p /\ p < m[2]))
    BY <2>2, <2>3
  <2> HIDE DEF m
  <2>5. p = m[1] \/ p \in m[1] .. m[2] - 1
    BY <2>1, <2>4
  <2> QED
    BY <2>4, <2>5
<1> QED
  BY <1>7, <1>8, <1>9 DEF ms

-----------------------------------------------------------------------------
(* Replacing: what is done, and what is left of the string from j on.      *)

With(done, s, j) == done \o Slice(s, j, Len(s))

LEMMA WithIs ==
  ASSUME NEW s \in Text, NEW done \in Text, NEW j \in Nat, j <= Len(s)
  PROVE  /\ With(done, s, j) \in Text /\ Len(With(done, s, j)) = Len(done) + (Len(s) - j)
         /\ \A x \in 1 .. Len(done) : With(done, s, j)[x] = done[x]
         /\ \A x \in 1 .. Len(s) - j : With(done, s, j)[Len(done) + x] = s[j + x]
<1> DEFINE len == Len(s)
           rest == Slice(s, j, len)
<1>1. len \in Nat /\ len <= Len(s) /\ j <= len
  BY TextHas
<1>2. rest \in Text /\ Len(rest) = len - j /\ \A x \in 1 .. len - j : rest[x] = s[j + x]
  <2> HIDE DEF len
  <2> QED
    BY <1>1, SliceAt
<1> HIDE DEF rest
<1>3. /\ done \o rest \in Text /\ Len(done \o rest) = Len(done) + Len(rest)
      /\ \A x \in 1 .. Len(done) : (done \o rest)[x] = done[x]
      /\ \A x \in 1 .. Len(rest) : (done \o rest)[Len(done) + x] = rest[x]
  BY <1>2, ConcatHas
<1>4. With(done, s, j) = done \o rest
  BY DEF With, rest
<1> HIDE DEF len
<1>5. \A x \in 1 .. len - j : (done \o rest)[Len(done) + x] = s[j + x]
  BY <1>2, <1>3
<1> QED
  BY <1>2, <1>3, <1>4, <1>5 DEF len

(* The same words are at the same places of what is left. *)
LEMMA WordsShift ==
  ASSUME NEW s \in Text, NEW done \in Text, NEW words \in SUBSET Text, NEW j \in Nat, j <= Len(s),
         NEW q \in Nat, j + q <= Len(s)
  PROVE  WordsAt(With(done, s, j), words, Len(done) + q) = WordsAt(s, words, j + q)
<1> DEFINE t == With(done, s, j)
           d == Len(done)
           len == Len(s)
           size == Len(t)
           a == d + q
           b == j + q
<1>1. /\ t \in Text /\ size = d + (len - j)
      /\ \A x \in 1 .. len - j : t[d + x] = s[j + x]
  BY WithIs
<1>2. d \in Nat /\ len \in Nat /\ size \in Nat
  BY <1>1, TextHas
<1>3. j <= len /\ b <= len
  OBVIOUS
<1> HIDE DEF t, d, len, size
<1>4. a \in Nat /\ a <= size /\ b \in Nat
  BY <1>1, <1>2, <1>3
<1>5. ASSUME NEW w \in words
      PROVE  (a + Len(w) <= size /\ Fits(t, w, a, Len(w))) <=> (b + Len(w) <= len /\ Fits(s, w, b, Len(w)))
  <2> DEFINE m == Len(w)
  <2>1. m \in Nat
    BY TextHas
  <2> HIDE DEF m
  <2>2. a + m <= size <=> b + m <= len
    BY <1>1, <1>2, <2>1
  <2>3. ASSUME b + m <= len, NEW x \in 1 .. m PROVE t[a + x] = s[b + x]
    <3> DEFINE y == q + x
    <3>1. y \in 1 .. len - j /\ d + y = a + x /\ j + y = b + x
      BY <1>2, <2>1, <2>3
    <3> HIDE DEF y, a, b
    <3>2. t[d + y] = s[j + y]
      BY <1>1, <3>1
    <3> QED
      BY <3>1, <3>2
  <2>4. b + m <= len => (Fits(t, w, a, m) <=> Fits(s, w, b, m))
    BY <2>3 DEF Fits
  <2> QED
    BY <2>2, <2>4 DEF m
<1> HIDE DEF a, b
<1>6. \A w : w \in WordsAt(t, words, a) <=> w \in words /\ a + Len(w) <= Len(t) /\ Fits(t, w, a, Len(w))
  BY <1>1, <1>4, WordIs DEF size
<1>7. \A w : w \in WordsAt(s, words, b) <=> w \in words /\ b + Len(w) <= Len(s) /\ Fits(s, w, b, Len(w))
  BY <1>3, <1>4, WordIs DEF len
<1>8. \A w : w \in WordsAt(t, words, a) <=> w \in WordsAt(s, words, b)
  BY <1>5, <1>6, <1>7 DEF size, len
<1>9. WordsAt(t, words, a) = WordsAt(s, words, b)
  BY <1>8
<1> QED
  BY <1>9 DEF t, a, b, d

LEMMA FirstUnique ==
  ASSUME NEW s, NEW words, NEW i \in Nat, NEW a, NEW b, FirstAt(s, words, i, a), FirstAt(s, words, i, b)
  PROVE  a = b
BY DEF FirstAt

(* So the library finds the same there. *)
MatchesMove(s, words, done, j) ==
  \A a, b \in Nat : fh_regexp(s, words, j) = <<a, b>> =>
    fh_regexp(With(done, s, j), words, Len(done)) = <<Len(done) + (a - j), Len(done) + (b - j)>>

LEMMA MatchShifts ==
  ASSUME NEW s \in Text, NEW done \in Text, NEW words \in SUBSET Text, NEW j \in Nat, j <= Len(s)
  PROVE  /\ fh_regexp(s, words, j) = <<>> => fh_regexp(With(done, s, j), words, Len(done)) = <<>>
         /\ MatchesMove(s, words, done, j)
<1> DEFINE t == With(done, s, j)
           d == Len(done)
           len == Len(s)
           size == Len(t)
           m == fh_regexp(s, words, j)
           n == fh_regexp(t, words, d)
<1>1. t \in Text /\ size = d + (len - j)
  BY WithIs
<1>2. d \in Nat /\ len \in Nat /\ size \in Nat /\ j <= len
  BY <1>1, TextHas
<1>3. ASSUME NEW q \in Nat, j + q <= len PROVE WordsAt(t, words, d + q) = WordsAt(s, words, j + q)
  BY <1>3, WordsShift
<1>4. \/ m = <<>> /\ \A p \in Nat : j <= p /\ p <= len => WordsAt(s, words, p) = {}
      \/ \E a, b \in Nat : /\ m = <<a, b>> /\ FirstAt(s, words, j, a)
                           /\ LongestAt(s, words, a) \in WordsAt(s, words, a)
                           /\ b = a + Len(LongestAt(s, words, a)) /\ a <= b /\ b <= len
  BY MatchFinds
<1>5. \/ n = <<>> /\ \A p \in Nat : d <= p /\ p <= size => WordsAt(t, words, p) = {}
      \/ \E a, b \in Nat : /\ n = <<a, b>> /\ FirstAt(t, words, d, a)
                           /\ b = a + Len(LongestAt(t, words, a)) /\ a <= b /\ b <= size
  BY <1>1, <1>2, MatchFinds
<1> HIDE DEF t, d, len, size, m, n
<1>6. ASSUME NEW p \in Nat, d <= p, p <= size
      PROVE  j + (p - d) \in Nat /\ j <= j + (p - d) /\ j + (p - d) <= len
             /\ WordsAt(t, words, p) = WordsAt(s, words, j + (p - d))
  <2> DEFINE q == p - d
  <2>1. q \in Nat /\ j + q <= len /\ d + q = p /\ j + q \in Nat /\ j <= j + q
    BY <1>1, <1>2, <1>6
  <2> HIDE DEF q
  <2>2. WordsAt(t, words, d + q) = WordsAt(s, words, j + q)
    BY <1>3, <2>1
  <2> QED
    BY <2>1, <2>2 DEF q
<1>7. ASSUME NEW a, FirstAt(s, words, j, a) PROVE FirstAt(t, words, d, d + (a - j)) /\ a \in Nat /\ j <= a /\ a <= len
  <2>1. /\ a \in Nat /\ j <= a /\ a <= len /\ WordsAt(s, words, a) # {}
        /\ \A p \in Nat : j <= p /\ p < a => WordsAt(s, words, p) = {}
    BY <1>7 DEF FirstAt, len
  <2> DEFINE c == d + (a - j)
  <2>2. c \in Nat /\ d <= c /\ c <= size /\ j + (c - d) = a
    BY <1>1, <1>2, <2>1
  <2>3. WordsAt(t, words, c) # {}
    BY <1>6, <2>1, <2>2
  <2>4. ASSUME NEW p \in Nat, d <= p, p < c PROVE WordsAt(t, words, p) = {}
    <3> DEFINE r == j + (p - d)
    <3>1. p <= size /\ r < a
      BY <1>1, <1>2, <2>1, <2>2, <2>4
    <3>2. r \in Nat /\ j <= r /\ WordsAt(t, words, p) = WordsAt(s, words, r)
      BY <1>6, <2>4, <3>1
    <3> QED
      BY <2>1, <3>1, <3>2
  <2> QED
    BY <2>1, <2>2, <2>3, <2>4 DEF FirstAt, size
<1>8. ASSUME m = <<>> PROVE n = <<>>
  <2>1. \A p \in Nat : j <= p /\ p <= len => WordsAt(s, words, p) = {}
    <3>1. \A a, b : <<a, b>> # <<>>
      OBVIOUS
    <3> QED
      BY <1>4, <1>8, <3>1
  <2>2. SUFFICES ASSUME NEW a \in Nat, FirstAt(t, words, d, a) PROVE FALSE
    BY <1>5
  <2>3. d <= a /\ a <= size /\ WordsAt(t, words, a) # {}
    BY <2>2 DEF FirstAt, size
  <2> QED
    BY <1>6, <2>1, <2>3
<1>9. ASSUME NEW a \in Nat, NEW b \in Nat, m = <<a, b>> PROVE n = <<d + (a - j), d + (b - j)>>
  <2> DEFINE c == d + (a - j)
             e == d + (b - j)
  <2>1. /\ FirstAt(s, words, j, a) /\ b = a + Len(LongestAt(s, words, a)) /\ a <= b
        /\ Len(LongestAt(s, words, a)) \in Nat
    <3>1. m # <<>>
      BY <1>9
    <3>2. PICK x, y \in Nat : /\ m = <<x, y>> /\ FirstAt(s, words, j, x) /\ y = x + Len(LongestAt(s, words, x)) /\ x <= y
                              /\ LongestAt(s, words, x) \in WordsAt(s, words, x)
      BY <1>4, <3>1
    <3>3. x = a /\ y = b
      BY <1>9, <3>2
    <3>4. LongestAt(s, words, x) \in Text
      BY <3>2 DEF WordsAt
    <3> QED
      BY <3>2, <3>3, <3>4, TextHas
  <2>2. FirstAt(t, words, d, c) /\ j <= a /\ a <= len
    BY <1>7, <2>1
  <2>3. c \in Nat /\ d <= c /\ c <= size /\ WordsAt(t, words, c) # {}
    BY <2>2 DEF FirstAt, size
  <2>4. n # <<>>
    <3> HIDE DEF c
    <3>1. \A x, y : <<x, y>> # <<>>
      OBVIOUS
    <3>2. ~ (\A p \in Nat : d <= p /\ p <= size => WordsAt(t, words, p) = {})
      BY <2>3
    <3> QED
      BY <1>5, <3>1, <3>2
  <2>5. PICK x, y \in Nat : n = <<x, y>> /\ FirstAt(t, words, d, x) /\ y = x + Len(LongestAt(t, words, x))
    BY <1>5, <2>4
  <2>6. x = c
    BY <1>2, <2>2, <2>5, FirstUnique
  <2>7. WordsAt(t, words, c) = WordsAt(s, words, a)
    <3>1. j + (c - d) = a
      BY <1>2
    <3> HIDE DEF c
    <3> QED
      BY <1>6, <2>3, <3>1
  <2>8. LongestAt(t, words, c) = LongestAt(s, words, a)
    BY <2>7 DEF LongestAt
  <2> DEFINE k == Len(LongestAt(s, words, a))
  <2>9. b = a + k /\ y = c + k /\ k \in Nat
    BY <2>1, <2>5, <2>6, <2>8
  <2> HIDE DEF k
  <2>10. y = e
    <3> HIDE DEF t, d, len, size, m, n
    <3>1. y = d + (a - j) + k /\ b = a + k
      BY <2>9
    <3> QED
      BY <1>2, <2>9, <3>1
  <2> QED
    BY <2>5, <2>6, <2>10
<1>10. MatchesMove(s, words, done, j)
  BY <1>9 DEF t, d, m, n, MatchesMove
<1> QED
  BY <1>8, <1>10 DEF t, d, m, n

LEMMA SliceInFront ==
  ASSUME NEW s \in Text, NEW done \in Text, NEW j \in Nat, NEW a \in Nat, j <= a, a <= Len(s)
  PROVE  Slice(With(done, s, j), 0, Len(done) + (a - j)) = done \o Slice(s, j, a)
<1> DEFINE t == With(done, s, j)
           d == Len(done)
           len == Len(s)
           size == Len(t)
           c == d + (a - j)
           zero == 0
           x == Slice(t, zero, c)
           y == Slice(s, j, a)
<1>1. /\ t \in Text /\ size = d + (len - j)
      /\ \A k \in 1 .. d : t[k] = done[k]
      /\ \A k \in 1 .. len - j : t[d + k] = s[j + k]
  <2>1. j <= Len(s)
    BY TextHas
  <2> QED
    BY <2>1, WithIs
<1>2. d \in Nat /\ len \in Nat /\ a <= len
  BY TextHas
<1> HIDE DEF t, len, size, d
<1>3. c \in Nat /\ zero \in Nat /\ zero <= c /\ c <= size /\ c - zero = c /\ \A k \in 1 .. c : zero + k = k
  BY <1>1, <1>2
<1> HIDE DEF zero
<1>4. x \in Text /\ Len(x) = c /\ \A k \in 1 .. c : x[k] = t[k]
  <2>1. x \in Text /\ Len(x) = c - zero /\ \A k \in 1 .. c - zero : x[k] = t[zero + k]
    <3> HIDE DEF c
    <3> QED
      BY <1>1, <1>3, SliceAt DEF size
  <2> HIDE DEF c, x
  <2> QED
    BY <1>3, <2>1
<1>5. y \in Text /\ Len(y) = a - j /\ \A k \in 1 .. a - j : y[k] = s[j + k]
  BY SliceAt
<1> HIDE DEF x, y
<1>6. done \o y \in Text /\ Len(done \o y) = c /\ (\A k \in 1 .. d : (done \o y)[k] = done[k])
      /\ \A k \in 1 .. a - j : (done \o y)[d + k] = y[k]
  <2>1. /\ done \o y \in Text /\ Len(done \o y) = Len(done) + Len(y)
        /\ \A k \in 1 .. Len(done) : (done \o y)[k] = done[k]
        /\ \A k \in 1 .. Len(y) : (done \o y)[Len(done) + k] = y[k]
    BY <1>5, ConcatHas
  <2> QED
    BY <1>5, <2>1 DEF d
<1>7. ASSUME NEW k \in 1 .. c PROVE x[k] = (done \o y)[k]
  <2>1. CASE k <= d
    <3>1. k \in 1 .. d
      BY <1>2, <1>3, <2>1
    <3> HIDE DEF c
    <3> QED
      BY <1>1, <1>4, <1>6, <3>1
  <2>2. CASE ~ (k <= d)
    <3> DEFINE h == k - d
    <3>1. h \in 1 .. a - j /\ h \in 1 .. len - j /\ d + h = k
      BY <1>2, <1>3, <2>2
    <3> HIDE DEF h, c
    <3>2. x[k] = s[j + h] /\ (done \o y)[k] = s[j + h]
      BY <1>1, <1>4, <1>5, <1>6, <3>1
    <3> QED
      BY <3>2
  <2> QED
    BY <2>1, <2>2
<1> HIDE DEF c
<1>8. x = done \o y
  BY <1>4, <1>6, <1>7, SeqEqual DEF Text
<1> QED
  BY <1>8 DEF x, y, t, d, c, zero

LEMMA SliceBehind ==
  ASSUME NEW s \in Text, NEW done \in Text, NEW j \in Nat, NEW b \in Nat, j <= b, b <= Len(s)
  PROVE  Slice(With(done, s, j), Len(done) + (b - j), Len(With(done, s, j))) = Slice(s, b, Len(s))
<1> DEFINE t == With(done, s, j)
           d == Len(done)
           len == Len(s)
           size == Len(t)
           c == d + (b - j)
           x == Slice(t, c, size)
           y == Slice(s, b, len)
<1>1. /\ t \in Text /\ size = d + (len - j)
      /\ \A k \in 1 .. len - j : t[d + k] = s[j + k]
  <2>1. j <= Len(s)
    BY TextHas
  <2> QED
    BY <2>1, WithIs
<1>2. d \in Nat /\ len \in Nat /\ size \in Nat /\ b <= len /\ len <= Len(s) /\ size <= Len(t)
  BY <1>1, TextHas
<1> HIDE DEF t, len, size, d
<1>3. c \in Nat /\ c <= size /\ size - c = len - b
  BY <1>1, <1>2
<1> HIDE DEF c
<1>4. x \in Text /\ Len(x) = len - b /\ \A k \in 1 .. len - b : x[k] = t[c + k]
  <2>1. x \in Text /\ Len(x) = size - c /\ \A k \in 1 .. size - c : x[k] = t[c + k]
    BY <1>1, <1>2, <1>3, SliceAt, ZenonT(60)
  <2> QED
    BY <1>3, <2>1
<1>5. y \in Text /\ Len(y) = len - b /\ \A k \in 1 .. len - b : y[k] = s[b + k]
  BY <1>2, SliceAt
<1> HIDE DEF x, y
<1>6. ASSUME NEW k \in 1 .. len - b PROVE x[k] = y[k]
  <2> DEFINE h == (b - j) + k
  <2>1. h \in 1 .. len - j /\ d + h = c + k /\ j + h = b + k
    BY <1>2 DEF c
  <2> HIDE DEF h
  <2>2. t[d + h] = s[j + h]
    BY <1>1, <2>1
  <2> QED
    BY <1>4, <1>5, <2>1, <2>2
<1>7. x = y
  <2> DEFINE n == len - b
  <2> HIDE DEF n
  <2>1. Len(x) = n /\ Len(y) = n /\ \A k \in 1 .. n : x[k] = y[k]
    BY <1>4, <1>5, <1>6 DEF n
  <2> QED
    BY <1>4, <1>5, <2>1, SeqEqual DEF Text
<1> QED
  BY <1>7 DEF x, y, t, d, c, size, len

(* A match is replaced in what is left. *)
LEMMA SpliceShifts ==
  ASSUME NEW s \in Text, NEW done \in Text, NEW u \in Text, NEW j \in Nat, NEW a \in Nat, NEW b \in Nat,
         j <= a, a <= b, b <= Len(s)
  PROVE  /\ Splice(With(done, s, j), u, Len(done) + (a - j), Len(done) + (b - j))
              = With(done \o Slice(s, j, a) \o u, s, b)
         /\ done \o Slice(s, j, a) \o u \in Text
         /\ Len(done \o Slice(s, j, a) \o u) = Len(done) + (a - j) + Len(u)
<1>1. Len(s) \in Nat /\ a <= Len(s) /\ j <= b
  BY TextHas
<1>2. Slice(With(done, s, j), 0, Len(done) + (a - j)) = done \o Slice(s, j, a)
  BY <1>1, SliceInFront
<1>3. Slice(With(done, s, j), Len(done) + (b - j), Len(With(done, s, j))) = Slice(s, b, Len(s))
  BY <1>1, SliceBehind
<1>4. Slice(s, j, a) \in Text /\ Len(Slice(s, j, a)) = a - j
  BY <1>1, SliceAt
<1>5. done \o Slice(s, j, a) \in Text /\ Len(done \o Slice(s, j, a)) = Len(done) + (a - j)
  BY <1>4, TextConcat
<1> QED
  BY <1>2, <1>3, <1>5, TextConcat DEF Splice, With

(* Replacing ends with what the parts are when joined. *)
Puts(res, ps, done, u) == res.ends /\ ps \in Seq(Text) /\ ps # <<>> /\ res.ptr = done \o Joined(ps, u)

LEMMA JoinedIs ==
  ASSUME NEW ps \in Seq(Text), ps # <<>>, NEW u \in Text
  PROVE  Joined(ps, u) \in Text
<1>1. PICK from \in [1 .. Len(ps) -> Text] : Joined(ps, u) = from[1]
  BY JoinedSteps
<1>2. 1 \in 1 .. Len(ps)
  BY EmptySeq
<1> QED
  BY <1>1, <1>2

LEMMA PutsOne ==
  ASSUME NEW done \in Text, NEW u \in Text, NEW x \in Text, NEW last, NEW t, t = done \o x
  PROVE  Puts([ptr |-> t, lastIndex |-> last, ends |-> TRUE], <<x>>, done, u)
<1>1. Joined(<<x>>, u) = x
  BY JoinedOne
<1> QED
  BY <1>1 DEF Puts

LEMMA PutsMore ==
  ASSUME NEW done \in Text, NEW u \in Text, NEW x \in Text, NEW ps, NEW res, Puts(res, ps, done \o x \o u, u)
  PROVE  Puts(res, <<x>> \o ps, done, u)
<1> DEFINE y == Joined(ps, u)
<1>1. ps \in Seq(Text) /\ ps # <<>> /\ res.ends /\ res.ptr = (done \o x \o u) \o y
  BY DEF Puts
<1>2. <<x>> \o ps \in Seq(Text) /\ <<x>> \o ps # <<>>
  BY <1>1, InFrontOf
<1>3. Joined(<<x>> \o ps, u) = x \o u \o y
  BY <1>1, JoinedCons
<1>4. y \in Text
  BY <1>1, JoinedIs
<1> HIDE DEF y
<1>5. x \o u \in Text
  BY TextConcat
<1>6. (done \o x \o u) \o y = done \o (x \o u \o y)
  <2>1. done \o x \o u = done \o (x \o u)
    BY ConcatAssociative DEF Text
  <2>2. (done \o (x \o u)) \o y = done \o ((x \o u) \o y)
    <3> DEFINE z == x \o u
    <3> HIDE DEF z
    <3>1. z \in Text
      BY <1>5 DEF z
    <3>2. (done \o z) \o y = done \o (z \o y)
      BY <1>4, <3>1, ConcatAssociative DEF Text
    <3> QED
      BY <3>2 DEF z
  <2> QED
    BY <2>1, <2>2
<1> QED
  BY <1>1, <1>2, <1>3, <1>6 DEF Puts

(* Where a row is looked up, what the last round of replacing gives, and what a match is. *)
PutAt(row, t, i, last) == row[<<t, i, last>>]
PartAt(row, i, ml) == row[<<i, ml>>]
PutEnd(t, last) == [ptr |-> t, lastIndex |-> last, ends |-> TRUE]
PartMatched(s, i, a, b, row) == <<Slice(s, i, a)>> \o PartAt(row, b, TRUE)
Found(s, words, i, a, b) == fh_regexp(s, words, i) = <<a, b>>
NotFound(s, words, i) == fh_regexp(s, words, i) = <<>>

(* A round of replacing that stops, and one that goes on behind what it has put. *)
LEMMA PutHalts ==
  ASSUME NEW words, NEW u, NEW n, n # 0, NEW row, NEW t \in Text, NEW i \in Nat, NEW last \in Nat,
         i >= Len(t) \/ NotFound(t, words, i)
  PROVE  PutAt(PutRow(Global(words), u, n, row), t, i, last) = PutEnd(t, last)
<1> DEFINE x == <<t, i, last>>
           r == Global(words)
<1>1. x \in Text \X Nat \X Nat /\ x[1] = t /\ x[2] = i /\ x[3] = last
  OBVIOUS
<1>2. r.global = TRUE /\ r.words = words
  BY DEF Global
<1> HIDE DEF x, r
<1>3. PutRow(r, u, n, row)[x] = [ptr |-> t, lastIndex |-> last, ends |-> TRUE]
  BY <1>1, <1>2 DEF PutRow, NotFound
<1> QED
  BY <1>3 DEF x, r, PutAt, PutEnd

LEMMA PutGoesOn ==
  ASSUME NEW words, NEW u, NEW n, n # 0, NEW row, NEW t \in Text, NEW i \in Nat, NEW last \in Nat,
         ~ (i >= Len(t)), NEW a, NEW b, Found(t, words, i, a, b)
  PROVE  PutAt(PutRow(Global(words), u, n, row), t, i, last) = PutAt(row, Splice(t, u, a, b), a + Len(u), b)
<1> DEFINE x == <<t, i, last>>
           r == Global(words)
           m == fh_regexp(t, words, i)
<1>1. x \in Text \X Nat \X Nat /\ x[1] = t /\ x[2] = i /\ x[3] = last
  OBVIOUS
<1>2. m # <<>> /\ m[1] = a /\ m[2] = b
  BY DEF Found
<1>3. r.global = TRUE /\ r.words = words
  BY DEF Global
<1> HIDE DEF x, r, m
<1>4. PutRow(r, u, n, row)[x] = row[<<Splice(t, u, m[1], m[2]), m[1] + Len(u), m[2]>>]
  BY <1>1, <1>2, <1>3 DEF PutRow, m
<1> QED
  BY <1>2, <1>4 DEF x, r, PutAt

(* A round of cutting at the end of the string, one behind the last match, and one with a match. *)
LEMMA PartEnds ==
  ASSUME NEW s, NEW words, NEW n, n # 0, NEW row, NEW i \in Nat, ~ (i < Len(s))
  PROVE  PartAt(PartRow(s, words, n, row), i, TRUE) = << <<>> >>
<1> DEFINE x == <<i, TRUE>>
<1>1. x \in Nat \X BOOLEAN /\ x[1] = i /\ x[2] = TRUE
  OBVIOUS
<1> HIDE DEF x
<1>2. PartRow(s, words, n, row)[x] = << <<>> >>
  BY <1>1 DEF PartRow
<1> QED
  BY <1>2 DEF x, PartAt

LEMMA PartHalts ==
  ASSUME NEW s, NEW words, NEW n, n # 0, NEW row, NEW i \in Nat, NEW ml \in BOOLEAN, i < Len(s),
         NotFound(s, words, i)
  PROVE  PartAt(PartRow(s, words, n, row), i, ml) = <<Slice(s, i, Len(s))>>
<1> DEFINE x == <<i, ml>>
<1>1. x \in Nat \X BOOLEAN /\ x[1] = i /\ x[2] = ml
  OBVIOUS
<1> HIDE DEF x
<1>2. PartRow(s, words, n, row)[x] = <<Slice(s, i, Len(s))>>
  BY <1>1 DEF PartRow, NotFound
<1> QED
  BY <1>2 DEF x, PartAt

LEMMA PartGoesOn ==
  ASSUME NEW s, NEW words, NEW n, n # 0, NEW row, NEW i \in Nat, NEW ml \in BOOLEAN, i < Len(s),
         NEW a \in Nat, NEW b \in Nat, Found(s, words, i, a, b)
  PROVE  PartAt(PartRow(s, words, n, row), i, ml) = PartMatched(s, i, a, b, row)
<1> DEFINE x == <<i, ml>>
           m == fh_regexp(s, words, i)
<1>1. x \in Nat \X BOOLEAN /\ x[1] = i /\ x[2] = ml
  OBVIOUS
<1>2. m # <<>> /\ m[1] = a /\ m[2] = b
  BY DEF Found
<1> HIDE DEF x, m
<1>3. PartRow(s, words, n, row)[x] = <<Slice(s, i, m[1])>> \o row[<<m[2], TRUE>>]
  BY <1>1, <1>2 DEF PartRow, m
<1> QED
  BY <1>2, <1>3 DEF x, PartAt, PartMatched

(* At the end of the string. *)
LEMMA PutsEnd ==
  ASSUME NEW s \in Text, NEW words, NEW u \in Text, NEW n, n # 0, NEW put, NEW cut,
         NEW done \in Text, NEW j \in Nat, j = Len(s), NEW last \in Nat
  PROVE  Puts(PutAt(PutRow(Global(words), u, n, put), With(done, s, j), Len(done), last),
              PartAt(PartRow(s, words, n, cut), j, TRUE), done, u)
<1> DEFINE t == With(done, s, j)
           d == Len(done)
           x == <<>>
           len == Len(t)
<1>1. /\ With(done, s, j) \in Text
      /\ Len(With(done, s, j)) = Len(done) + (Len(s) - j)
  <2>1. j <= Len(s)
    OBVIOUS
  <2> QED
    BY <2>1, WithIs
<1>2. t = done \o x
  <2>1. Slice(s, Len(s), Len(s)) = <<>>
    BY CutEmpty
  <2> QED
    BY <2>1 DEF With
<1>3. d \in Nat /\ x \in Text
  BY TextHas, EmptyText
<1>4. d >= len
  BY <1>1, <1>3
<1>5. t \in Text
  BY <1>1
<1> HIDE DEF t, d, x
<1>6. PutAt(PutRow(Global(words), u, n, put), t, d, last) = PutEnd(t, last)
  BY <1>3, <1>4, <1>5, PutHalts
<1>7. PartAt(PartRow(s, words, n, cut), j, TRUE) = <<x>>
  <2>1. ~ (j < Len(s))
    OBVIOUS
  <2> QED
    BY <2>1, PartEnds DEF x
<1>8. Puts(PutEnd(t, last), <<x>>, done, u)
  BY <1>2, <1>3, PutsOne DEF PutEnd
<1> QED
  BY <1>6, <1>7, <1>8 DEF t, d

(* What is left behind the last match has none. *)
LEMMA LastShifts ==
  ASSUME NEW s \in Text, NEW words \in SUBSET Text, NEW done \in Text, NEW j \in Nat, j < Len(s), NotFound(s, words, j)
  PROVE  /\ With(done, s, j) \in Text /\ Slice(s, j, Len(s)) \in Text
         /\ With(done, s, j) = done \o Slice(s, j, Len(s))
         /\ NotFound(With(done, s, j), words, Len(done))
<1>1. j <= Len(s) /\ Len(s) \in Nat
  BY TextHas
<1>2. With(done, s, j) \in Text
  BY <1>1, WithIs
<1>3. Slice(s, j, Len(s)) \in Text
  <2> DEFINE len == Len(s)
  <2>1. len \in Nat /\ len <= Len(s) /\ j <= len
    BY <1>1
  <2> HIDE DEF len
  <2>2. Slice(s, j, len) \in Text
    BY <2>1, SliceAt
  <2> QED
    BY <2>2 DEF len
<1>4. fh_regexp(s, words, j) = <<>>
  BY DEF NotFound
<1>5. fh_regexp(With(done, s, j), words, Len(done)) = <<>>
  BY <1>1, <1>4, MatchShifts
<1> QED
  BY <1>2, <1>3, <1>5 DEF With, NotFound

LEMMA PutsLast ==
  ASSUME NEW s \in Text, NEW words \in SUBSET Text, NEW u \in Text, NEW n, n # 0, NEW put, NEW cut,
         NEW done \in Text, NEW j \in Nat, j < Len(s), NEW last \in Nat, NEW ml \in BOOLEAN,
         NotFound(s, words, j)
  PROVE  Puts(PutAt(PutRow(Global(words), u, n, put), With(done, s, j), Len(done), last),
              PartAt(PartRow(s, words, n, cut), j, ml), done, u)
<1> DEFINE t == With(done, s, j)
           d == Len(done)
           x == Slice(s, j, Len(s))
<1>1. t \in Text /\ x \in Text /\ t = done \o x /\ NotFound(t, words, d)
  BY LastShifts
<1>2. d \in Nat
  BY TextHas
<1>3. PartAt(PartRow(s, words, n, cut), j, ml) = <<x>>
  BY PartHalts
<1> HIDE DEF t, d, x
<1>4. PutAt(PutRow(Global(words), u, n, put), t, d, last) = PutEnd(t, last)
  BY <1>1, <1>2, PutHalts
<1>5. Puts(PutEnd(t, last), <<x>>, done, u)
  BY <1>1, PutsOne DEF PutEnd
<1> QED
  BY <1>3, <1>4, <1>5 DEF t, d

(* A match, where it is in what is left, and what replacing makes of it. *)
Shifted(s, words, u, done, j, a, b, c, e, x, new) ==
  /\ x = Slice(s, j, a) /\ new = done \o x \o u
  /\ With(done, s, j) \in Text /\ ~ (Len(done) >= Len(With(done, s, j)))
  /\ Found(With(done, s, j), words, Len(done), c, e)
  /\ Splice(With(done, s, j), u, c, e) = With(new, s, b)
  /\ c + Len(u) = Len(new)

LEMMA FoundMoves ==
  ASSUME NEW s \in Text, NEW words \in SUBSET Text, NEW done \in Text, NEW j \in Nat, j <= Len(s),
         NEW a \in Nat, NEW b \in Nat, Found(s, words, j, a, b)
  PROVE  Found(With(done, s, j), words, Len(done), Len(done) + (a - j), Len(done) + (b - j))
<1>1. MatchesMove(s, words, done, j)
  BY MatchShifts
<1> QED
  BY <1>1 DEF MatchesMove, Found

LEMMA FoundShifts ==
  ASSUME NEW s \in Text, NEW words \in SUBSET Text, NEW u \in Text, NEW done \in Text, NEW j \in Nat, j < Len(s),
         NEW a \in Nat, NEW b \in Nat, Found(s, words, j, a, b), j <= a, a <= b, b <= Len(s)
  PROVE  \E c, e \in Nat, x, new \in Text : Shifted(s, words, u, done, j, a, b, c, e, x, new)
<1>1. j <= Len(s) /\ a <= Len(s) /\ Len(done) \in Nat /\ Len(s) \in Nat
  BY TextHas
<1>2. /\ With(done, s, j) \in Text
      /\ Len(With(done, s, j)) = Len(done) + (Len(s) - j)
  BY <1>1, WithIs
<1>3. Slice(s, j, a) \in Text
  BY <1>1, SliceAt
<1>5. Found(With(done, s, j), words, Len(done), Len(done) + (a - j), Len(done) + (b - j))
  BY <1>1, FoundMoves
<1>6. /\ Splice(With(done, s, j), u, Len(done) + (a - j), Len(done) + (b - j))
            = With(done \o Slice(s, j, a) \o u, s, b)
      /\ done \o Slice(s, j, a) \o u \in Text
      /\ Len(done \o Slice(s, j, a) \o u) = Len(done) + (a - j) + Len(u)
  BY SpliceShifts
<1>7. ~ (Len(done) >= Len(With(done, s, j)))
  BY <1>1, <1>2, BeforeEnd
<1>8. Len(done) + (a - j) \in Nat /\ Len(done) + (b - j) \in Nat
  BY <1>1
<1> QED
  <2> DEFINE c == Len(done) + (a - j)
             e == Len(done) + (b - j)
             x == Slice(s, j, a)
             new == done \o Slice(s, j, a) \o u
  <2>1. c \in Nat /\ e \in Nat /\ x \in Text /\ new \in Text
    BY <1>3, <1>6, <1>8
  <2>2. Shifted(s, words, u, done, j, a, b, c, e, x, new)
    BY <1>2, <1>5, <1>6, <1>7 DEF Shifted
  <2> HIDE DEF c, e, x, new
  <2> QED
    BY <2>1, <2>2

(* A match, and what replacing and cutting make of what is behind it. *)
PutsBehind(s, u, put, cut, b) ==
  \A new \in Text, e \in Nat : Puts(PutAt(put, With(new, s, b), Len(new), e), PartAt(cut, b, TRUE), new, u)

LEMMA PutsMatch ==
  ASSUME NEW s \in Text, NEW words \in SUBSET Text, NEW u \in Text, NEW n, n # 0, NEW put, NEW cut,
         NEW done \in Text, NEW j \in Nat, j < Len(s), NEW last \in Nat, NEW ml \in BOOLEAN,
         NEW a \in Nat, NEW b \in Nat, Found(s, words, j, a, b), j <= a, a <= b, b <= Len(s),
         PutsBehind(s, u, put, cut, b)
  PROVE  Puts(PutAt(PutRow(Global(words), u, n, put), With(done, s, j), Len(done), last),
              PartAt(PartRow(s, words, n, cut), j, ml), done, u)
<1>4. PartAt(PartRow(s, words, n, cut), j, ml) = PartMatched(s, j, a, b, cut)
  BY PartGoesOn
<1>0. PICK c \in Nat, e \in Nat, x \in Text, new \in Text : Shifted(s, words, u, done, j, a, b, c, e, x, new)
  BY FoundShifts
<1> DEFINE t == With(done, s, j)
           d == Len(done)
<1>1. /\ x = Slice(s, j, a) /\ new = done \o x \o u
      /\ t \in Text /\ ~ (d >= Len(t))
      /\ Found(t, words, d, c, e)
      /\ Splice(t, u, c, e) = With(new, s, b)
      /\ c + Len(u) = Len(new)
  BY <1>0 DEF Shifted
<1>2. d \in Nat
  BY TextHas
<1> DEFINE res == PutAt(put, With(new, s, b), Len(new), e)
           rest == PartAt(cut, b, TRUE)
<1>3. Puts(res, rest, new, u)
  BY DEF PutsBehind
<1> HIDE DEF t, d, rest
<1>5. PutAt(PutRow(Global(words), u, n, put), t, d, last) = res
  <2>1. PutAt(PutRow(Global(words), u, n, put), t, d, last) = PutAt(put, Splice(t, u, c, e), c + Len(u), e)
    BY <1>1, <1>2, PutGoesOn
  <2> QED
    BY <1>1, <2>1
<1> HIDE DEF res
<1>6. Puts(res, <<x>> \o rest, done, u)
  BY <1>1, <1>3, PutsMore
<1> QED
  BY <1>1, <1>4, <1>5, <1>6 DEF t, d, rest, PartMatched

(* put and cut are what replace and split do, by rounds. *)
PutsBy(words, u, put) == PutRows(Global(words), u, put)
PartsBy(s, words, cut) == \A n \in Nat : cut[n] = PartRow(s, words, n, cut[n - 1])

(* With n rounds left. *)
PutsIn(s, u, put, cut, n) ==
  \A j, last \in Nat, done \in Text, ml \in BOOLEAN :
    j <= Len(s) /\ (j < Len(s) \/ ml) /\ n > Len(s) - j =>
      Puts(PutAt(put[n], With(done, s, j), Len(done), last), PartAt(cut[n], j, ml), done, u)

LEMMA MatchMoves ==
  ASSUME NEW s \in Text, NEW words \in SUBSET Text, <<>> \notin words, NEW j \in Nat
  PROVE  \/ NotFound(s, words, j)
         \/ \E a, b \in Nat : Found(s, words, j, a, b) /\ j <= a /\ a <= b /\ b <= Len(s) /\ j < b
<1> DEFINE m == fh_regexp(s, words, j)
<1>1. \/ m = <<>>
      \/ \E a, b \in Nat : /\ m = <<a, b>> /\ FirstAt(s, words, j, a) /\ LongestAt(s, words, a) \in WordsAt(s, words, a)
                           /\ b = a + Len(LongestAt(s, words, a)) /\ a <= b /\ b <= Len(s)
  BY MatchFinds
<1> HIDE DEF m
<1>2. CASE m = <<>>
  BY <1>2 DEF m, NotFound
<1>3. ASSUME NEW a \in Nat, NEW b \in Nat, m = <<a, b>>, FirstAt(s, words, j, a), LongestAt(s, words, a) \in WordsAt(s, words, a),
             b = a + Len(LongestAt(s, words, a)), a <= b, b <= Len(s)
      PROVE  j <= a /\ j < b
  <2>1. LongestAt(s, words, a) \in Text
    BY <1>3 DEF WordsAt
  <2>2. Len(LongestAt(s, words, a)) # 0
    BY <1>3, EmptyMatch
  <2>3. Len(LongestAt(s, words, a)) \in Nat
    BY <2>1, TextHas
  <2>4. j <= a
    BY <1>3 DEF FirstAt
  <2> QED
    BY <1>3, <2>2, <2>3, <2>4
<1> QED
  BY <1>1, <1>2, <1>3 DEF m, Found

LEMMA PutsNext ==
  ASSUME NEW s \in Text, NEW words \in SUBSET Text, <<>> \notin words, NEW u \in Text,
         NEW put, NEW cut, PutsBy(words, u, put), PartsBy(s, words, cut),
         NEW n \in Nat, n # 0 => PutsIn(s, u, put, cut, n - 1)
  PROVE  PutsIn(s, u, put, cut, n)
<1> SUFFICES ASSUME NEW j \in Nat, NEW last \in Nat, NEW done \in Text, NEW ml \in BOOLEAN,
                    j <= Len(s), j < Len(s) \/ ml, n > Len(s) - j
             PROVE  Puts(PutAt(put[n], With(done, s, j), Len(done), last), PartAt(cut[n], j, ml), done, u)
  BY DEF PutsIn
<1> DEFINE p == put[n - 1]
           c == cut[n - 1]
           len == Len(s)
<1>1. put[n] = PutRow(Global(words), u, n, p) /\ cut[n] = PartRow(s, words, n, c)
  BY DEF PutsBy, PutRows, PartsBy
<1>2. len \in Nat
  BY TextHas
<1>3. n # 0 /\ \A b \in Nat : j < b => n - 1 > len - b
  <2>1. j <= len /\ n > len - j
    OBVIOUS
  <2> HIDE DEF len
  <2> QED
    BY <1>2, <2>1, FewerRounds
<1>4. PutsIn(s, u, put, cut, n - 1)
  BY <1>3
<1>5. Puts(PutAt(PutRow(Global(words), u, n, p), With(done, s, j), Len(done), last), PartAt(PartRow(s, words, n, c), j, ml), done, u)
  <2>1. CASE j = len
    <3>1. ml = TRUE
      <4>1. j = Len(s)
        BY <2>1
      <4>2. ~ (j < Len(s))
        BY <1>2, <4>1
      <4> QED
        BY <4>2
    <3> HIDE DEF p, c
    <3> QED
      BY <1>3, <2>1, <3>1, PutsEnd
  <2>2. CASE j < len /\ NotFound(s, words, j)
    <3> HIDE DEF p, c
    <3> QED
      BY <1>3, <2>2, PutsLast
  <2>3. CASE j < len /\ ~ NotFound(s, words, j)
    <3>1. PICK a, b \in Nat : Found(s, words, j, a, b) /\ j <= a /\ a <= b /\ b <= Len(s) /\ j < b
      BY <2>3, MatchMoves
    <3>2. n - 1 > Len(s) - b
      BY <1>3, <3>1
    <3>3. PutsBehind(s, u, p, c, b)
      BY <1>4, <3>1, <3>2 DEF PutsIn, PutsBehind
    <3>4. j < Len(s)
      BY <2>3
    <3> HIDE DEF p, c, len
    <3> QED
      BY <1>3, <3>1, <3>3, <3>4, PutsMatch
  <2>4. j = len \/ j < len
    <3>1. j <= len
      OBVIOUS
    <3> HIDE DEF len
    <3> QED
      BY <1>2, <3>1
  <2> QED
    BY <2>1, <2>2, <2>3, <2>4
<1> QED
  BY <1>1, <1>5

LEMMA PutsAll ==
  ASSUME NEW s \in Text, NEW words \in SUBSET Text, <<>> \notin words, NEW u \in Text,
         NEW put, NEW cut, PutsBy(words, u, put), PartsBy(s, words, cut)
  PROVE  \A n \in Nat : PutsIn(s, u, put, cut, n)
<1> DEFINE S == Nat
           rank == [n \in S |-> n]
           P == {n \in S : PutsIn(s, u, put, cut, n)}
<1>1. ASSUME NEW n \in S, \A y \in S : rank[y] < rank[n] => y \in P PROVE n \in P
  <2>1. ASSUME n # 0 PROVE PutsIn(s, u, put, cut, n - 1)
    <3>1. n - 1 \in S /\ rank[n - 1] < rank[n]
      BY <2>1
    <3>2. n - 1 \in P
      BY <1>1, <3>1
    <3> QED
      BY <3>2
  <2>2. PutsIn(s, u, put, cut, n)
    BY <2>1, PutsNext
  <2> QED
    BY <2>2
<1>2. rank \in [S -> Nat]
  OBVIOUS
<1> HIDE DEF P, rank
<1>3. \A n \in S : n \in P
  BY <1>1, <1>2, ByRank
<1> QED
  BY <1>3 DEF P

LEMMA ReplaceFinds ==
  ASSUME NEW s \in Text, s # <<>>, NEW words \in SUBSET Text, <<>> \notin words, NEW u \in Text
  PROVE  /\ replace(s, Global(words), u).ends
         /\ replace(s, Global(words), u).ptr = Joined(regexp_splitter(s, words), u)
<1> DEFINE n == Rounds(s)
           r == Global(words)
           res == replace(s, r, u)
           ps == regexp_splitter(s, words)
           zero == 0
           none == <<>>
<1>1. r.words \in SUBSET Text
  BY DEF Global
<1>2. \E put : PutsBy(words, u, put) /\ res = PutAt(put[n], s, zero, zero)
  <2> HIDE DEF n, r, res, zero
  <2>1. PICK put \in [Nat -> [Text \X Nat \X Nat -> Replaced]] :
          PutRows(r, u, put) /\ replace(s, r, u) = put[Rounds(s)][<<s, 0, 0>>]
    BY <1>1, ReplaceSteps
  <2>2. PutsBy(words, u, put)
    BY <2>1 DEF PutsBy, r
  <2>3. res = PutAt(put[n], s, zero, zero)
    BY <2>1 DEF PutAt, res, n, zero
  <2> QED
    BY <2>2, <2>3
<1> HIDE DEF n, r, res, ps, zero, none
<1>a. PICK put : PutsBy(words, u, put) /\ res = PutAt(put[n], s, zero, zero)
  BY <1>2
<1>3. PICK cut : PartsBy(s, words, cut) /\ ps = PartAt(cut[n], zero, FALSE)
  BY SplitterSteps DEF PartsBy, PartAt, ps, n, zero
<1>4. n \in Nat /\ zero \in Nat /\ zero <= Len(s) /\ zero < Len(s) /\ n > Len(s) - zero
  <2>1. Len(s) \in Nat /\ Len(s) # 0
    BY TextHas, EmptySeq DEF Text
  <2> QED
    BY <2>1 DEF Rounds, n, zero
<1>5. With(none, s, zero) = s /\ Len(none) = zero /\ none \in Text
  <2>1. Slice(s, 0, Len(s)) = s
    BY WholeSlice
  <2>2. <<>> \o s = s
    BY DEF Text
  <2> QED
    BY <2>1, <2>2, EmptyText DEF With, none, zero
<1>6. PutsIn(s, u, put, cut, n)
  BY <1>a, <1>3, <1>4, PutsAll
<1>7. Puts(PutAt(put[n], With(none, s, zero), Len(none), zero), PartAt(cut[n], zero, FALSE), none, u)
  BY <1>4, <1>5, <1>6 DEF PutsIn
<1>8. Puts(res, ps, none, u)
  BY <1>a, <1>3, <1>5, <1>7
<1>9. res.ends /\ ps \in Seq(Text) /\ ps # <<>> /\ res.ptr = none \o Joined(ps, u)
  BY <1>8 DEF Puts
<1>10. none \o Joined(ps, u) = Joined(ps, u)
  <2> DEFINE y == Joined(ps, u)
  <2>1. y \in Text
    BY <1>9, JoinedIs
  <2> HIDE DEF y
  <2>2. <<>> \o y = y
    BY <2>1 DEF Text
  <2> QED
    BY <2>2 DEF none, y
<1> QED
  BY <1>9, <1>10 DEF res, ps, r

LEMMA PatternsHold == PrimitiveTypeOK => PatternsAgree
<1> SUFFICES ASSUME PrimitiveTypeOK, IS_STR(v), NEW words \in Patterns
             PROVE  LET s  == v.ptr
                        g  == [words |-> words, global |-> TRUE, lastIndex |-> 0]
                        ms == match(s, g)
                        parts == regexp_splitter(s, words)
                    IN  /\ Hung \notin ToSet(ms)
                        /\ \A i \in 1 .. Len(ms) - 1 : ms[i][1] < ms[i + 1][1] /\ ms[i][2] <= ms[i + 1][1]
                        /\ \A p \in 0 .. Len(s) : WordsAt(s, words, p) # {} =>
                             \E m \in ToSet(ms) : p = m[1] \/ p \in m[1] .. m[2] - 1
                        /\ <<>> \notin words /\ s # <<>> =>
                             \A u \in Texts : replace(s, g, u).ends /\ replace(s, g, u).ptr = Joined(parts, u)
  BY DEF PatternsAgree
<1> DEFINE s == v.ptr
           ms == match(s, Global(words))
<1>1. s \in Text /\ words \in SUBSET Text
  BY StateIs, ConstantsAre
<1> HIDE DEF s
<1>2. /\ Hung \notin ToSet(ms)
      /\ \A i \in 1 .. Len(ms) - 1 : ms[i][1] < ms[i + 1][1] /\ ms[i][2] <= ms[i + 1][1]
      /\ \A p \in 0 .. Len(s) : WordsAt(s, words, p) # {} =>
           \E m \in ToSet(ms) : p = m[1] \/ p \in m[1] .. m[2] - 1
  BY <1>1, MatchFindsAll
<1>3. ASSUME <<>> \notin words, s # <<>>, NEW u \in Texts
      PROVE  /\ replace(s, Global(words), u).ends
             /\ replace(s, Global(words), u).ptr = Joined(regexp_splitter(s, words), u)
  <2>1. u \in Text
    BY ConstantsAre
  <2> QED
    BY <1>1, <1>3, <2>1, ReplaceFinds
<1>4. Global(words) = [words |-> words, global |-> TRUE, lastIndex |-> 0]
  BY DEF Global
<1> QED
  BY <1>2, <1>3, <1>4 DEF s

(* Whatever a script has made of its variable and its expression, match    *)
(* (String.c:168-211) goes from left to right, passes no place where the   *)
(* expression matches and ends; and unless the expression matches nothing  *)
(* at all, replacing its matches (String.c:213-276) ends and is joining    *)
(* what split (String.c:320-353) makes of the string.                      *)
THEOREM PatternsCorrect == PrimitiveSpec => []PatternsAgree
<1>1. PrimitiveTypeOK => PatternsAgree
  BY PatternsHold
<1>2. PrimitiveSpec => []PrimitiveTypeOK
  BY PrimitiveTypeCorrect
<1> QED
  BY <1>1, <1>2, PTL

=============================================================================
