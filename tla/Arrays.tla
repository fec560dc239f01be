------------------------------- MODULE Arrays -------------------------------
(***************************************************************************)
(* The array built-ins of Array.c, on one array of a script: its property  *)
(* map, in which elements may be missing, its length, which the methods    *)
(* keep beside the map, and an iteration (forEach, map, reduce, ...) whose *)
(* callback may change the array it is iterating over.                     *)
(*                                                                         *)
(* Values are small numbers and undefined.  A key is the index it spells,  *)
(* or a number that spells none, as "1.0", "" and "-1" do; what is stored  *)
(* under such a key is no element and left out.  The comparison function   *)
(* of a sort does not change the array here.                               *)
(***************************************************************************)
EXTENDS Integers, Sequences, FiniteSets

CONSTANTS
  NumValues,   (* values that elements have, 1 .. NumValues                *)
  MaxLen,      (* bound: lengths that a script gives its array             *)
  MaxArgs      (* bound: arguments of one push, unshift or splice          *)

(* Stands for 2^64 - 1 and the words near it, what a negative number       *)
(* becomes as an unsigned one: beyond every length.                        *)
WordMax == 2147483647

ASSUME ArraysAssumption ==
  /\ NumValues \in Nat
  /\ MaxLen \in Nat \ {0} /\ MaxLen < WordMax
  /\ MaxArgs \in Nat

VARIABLES
  map,       (* instance->map: a function from the indices that are there  *)
  length,    (* instance->object.length                                    *)
  shown,     (* the value of the property "length"                         *)
  iter,      (* the iteration in progress, or Idle                         *)
  status,    (* "running", or the call that never came back: reverse, sort *)
             (* and splice loop, shift and delete crash                    *)
  stray      (* history: a script has put an element beyond the length, by *)
             (* an increment or by a key whose successor is the length 0   *)

vars == <<map, length, shown, iter, status, stray>>

Value == 1 .. NumValues
Undef == NumValues + 1
Stored == Value \cup {Undef}

(* The order of the values' strings: digits come before "undefined".       *)
Precedes(a, b) == a < b

Index == 0 .. MaxLen - 1
Args == UNION {[1 .. n -> Value] : n \in 0 .. MaxArgs}

(* An unsigned index that is decremented from 0.                           *)
Word(n) == IF n < 0 THEN WordMax ELSE n

(* A double that is converted to an unsigned number.  For a negative one C *)
(* leaves the result open; builds wrap it around or make it 0.             *)
Words(n) == IF n < 0 THEN {0, WordMax} ELSE {n}

(* What splice takes its arguments for: a number's word, and any word for  *)
(* an argument that is missing or no number, whose number member is unset. *)
ArgWords == UNION {Words(n) : n \in -1 .. MaxLen}

(* Iteration methods that differ in how they go through the indices:       *)
(* forEach stands for map, filter and a reduce with a seed as well, some   *)
(* for every.  What they make of the elements is left out.                 *)
Method == {"forEach", "some", "reduce", "reduceRight", "reduceRightSeed"}
Descending == {"reduceRight", "reduceRightSeed"}
Idle == [method |-> "none"]

Iteration ==
  [method : Method,
   len    : 0 .. MaxLen,   (* the length when it began                     *)
   i      : Index,         (* the index of the current callback            *)
   seen   : Seq(Nat)]      (* history: the indices of the callbacks so far *)

Init ==
  /\ length \in 0 .. MaxLen
  /\ \/ map \in [0 .. length - 1 -> Value]   (* a literal, or elements     *)
     \/ map = <<>> /\ length > 0             (* new Array(length)          *)
  /\ shown = length
  /\ iter = Idle
  /\ status = "running"
  /\ stray = FALSE

-----------------------------------------------------------------------------
(* Property maps.                                                          *)

Get(m, i) == IF i \in DOMAIN m THEN m[i] ELSE Undef
Put(m, i, v) == [j \in DOMAIN m \cup {i} |-> IF j = i THEN v ELSE m[j]]
Without(m, i) == [j \in DOMAIN m \ {i} |-> m[j]]

(* What a script reads from index first up to last - 1. *)
Reads(m, first, last) == [i \in 1 .. last - first |-> Get(m, first + i - 1)]

(* A map whose elements are those of a sequence. *)
Filled(s) == [i \in 0 .. Len(s) - 1 |-> s[i + 1]]

Holes == {i \in 0 .. length - 1 : i \notin DOMAIN map}

(* A mutant: fh_set_len without the property. *)
MutSetLen(n) == length' = n /\ UNCHANGED shown

SetLen(n) == length' = n /\ shown' = n

Goes == status = "running" /\ UNCHANGED <<iter, status>>
Step == Goes /\ UNCHANGED stray
Unchanged == UNCHANGED <<map, length, shown>>
Ends(call) == status' = call /\ UNCHANGED <<map, length, shown, iter, stray>>

-----------------------------------------------------------------------------
(* Methods that change the array.                                          *)

(* A mutant: the property is left where it is. *)
MutPop ==
  /\ Step
  /\ \/ length = 0 /\ Unchanged
     \/ length > 0 /\ map' = map /\ SetLen(length - 1)

Pop ==
  /\ Step
  /\ \/ length = 0 /\ Unchanged
     \/ length > 0 /\ map' = Without(map, length - 1) /\ SetLen(length - 1)

Push(args) ==
  /\ Step
  /\ length + Len(args) <= MaxLen
  /\ map' = [i \in DOMAIN map \cup (length .. length + Len(args) - 1) |->
               IF i \in length .. length + Len(args) - 1 THEN args[i - length + 1] ELSE map[i]]
  /\ SetLen(length + Len(args))

(* The two indices converge from 0 and length - 1; a missing element is    *)
(* swapped as well.  length - 1 is unsigned.                               *)
Reverse ==
  \/ /\ Step
     /\ length > 0
     /\ map' = [i \in {IF j < length THEN length - 1 - j ELSE j : j \in DOMAIN map} |->
                  map[IF i < length THEN length - 1 - i ELSE i]]
     /\ UNCHANGED <<length, shown>>
  \/ /\ status = "running"
     /\ length = 0
     /\ Ends("reverse")

(* A mutant: the renaming begins with the third element. *)
MutShift ==
  \/ /\ Step
     /\ length = 0
     /\ Unchanged
  \/ /\ Step
     /\ length > 0 /\ Holes \subseteq {0}
     /\ map' = [i \in {j - 1 : j \in 2 .. length - 1} |-> map[i + 1]]
     /\ SetLen(length - 1)
  \/ /\ status = "running"
     /\ ~ Holes \subseteq {0}
     /\ Ends("shift")

(* Renames the keys one by one, up to a hole: its property is NULL. *)
Shift ==
  \/ /\ Step
     /\ length = 0
     /\ Unchanged
  \/ /\ Step
     /\ length > 0 /\ Holes \subseteq {0}
     /\ map' = [i \in {j - 1 : j \in 1 .. length - 1} \cup {j \in DOMAIN map : j >= length} |->
                  IF i < length THEN map[i + 1] ELSE map[i]]
     /\ SetLen(length - 1)
  \/ /\ status = "running"
     /\ ~ Holes \subseteq {0}
     /\ Ends("shift")
-----------------------------------------------------------------------------
(* sort                                                                    *)

(* A comparison function is, for two values, the set of what it may say of *)
(* the first before the second.  The default compares their strings.       *)
cmp == [pair \in Stored \X Stored |-> {Precedes(pair[1], pair[2])}]

(* A script's comparison function: what it returns is converted to a       *)
(* boolean, of which the number is read, that nothing has ever set.        *)
cmp_js == [pair \in Stored \X Stored |-> BOOLEAN]

(* A mutant: what is left of the right half is lost. *)
MutMerge(left, right, cmp_func) ==
  LET merge[halves \in Seq(Stored) \X Seq(Stored)] ==
        LET l == halves[1]
            r == halves[2]
        IN  IF l = <<>> THEN {<<>>}
            ELSE IF r = <<>> THEN {l}
            ELSE UNION {IF yes THEN {<<l[1]>> \o s : s \in merge[<<Tail(l), r>>]}
                               ELSE {<<r[1]>> \o s : s \in merge[<<l, Tail(r)>>]}
                          : yes \in cmp_func[<<l[1], r[1]>>]}
  IN  merge[<<left, right>>]

(* The ways to merge two sequences. *)
Merge(left, right, cmp_func) ==
  LET merge[halves \in Seq(Stored) \X Seq(Stored)] ==
        LET l == halves[1]
            r == halves[2]
        IN  IF l = <<>> THEN {r}
            ELSE IF r = <<>> THEN {l}
            ELSE UNION {IF yes THEN {<<l[1]>> \o s : s \in merge[<<Tail(l), r>>]}
                               ELSE {<<r[1]>> \o s : s \in merge[<<l, Tail(r)>>]}
                          : yes \in cmp_func[<<l[1], r[1]>>]}
  IN  merge[<<left, right>>]

(* merge_sort and recur.  That each level sorts the halves of one buffer   *)
(* into the other is left out.                                             *)
MergeSort(seq, cmp_func) ==
  LET recur[s \in Seq(Stored)] ==
        IF Len(s) <= 1 THEN {s}
        ELSE LET l == Len(s) \div 2
             IN  UNION {Merge(a, b, cmp_func) : a \in recur[SubSeq(s, 1, l)],
                                                b \in recur[SubSeq(s, l + 1, Len(s))]}
  IN  recur[seq]

(* The properties are collected index by index, again and again at a hole, *)
(* and become the whole map.                                               *)
SortBy(cmp_func) ==
  \/ /\ Step
     /\ length = 0
     /\ Unchanged
  \/ /\ Step
     /\ length > 0 /\ Holes = {}
     /\ \E s \in MergeSort(Reads(map, 0, length), cmp_func) :
          map' = [j \in 0 .. length - 1 |-> s[j + 1]]
     /\ SetLen(length)
  \/ /\ status = "running"
     /\ Holes # {}
     /\ Ends("sort")

Sort == SortBy(cmp)
SortWith == SortBy(cmp_js)

-----------------------------------------------------------------------------
(* Methods that build a new map.                                           *)

(* The elements that splice keeps and those it rejects. howMany is not     *)
(* compared with the length: what is rejected may lie beyond the end.      *)
Keepers(index, howMany, args) ==
  IF index < length
    THEN Reads(map, 0, index) \o args \o
         Reads(map, index + howMany, IF index + howMany < length THEN length ELSE index + howMany)
    ELSE Reads(map, 0, length)

Rejects(index, howMany) ==
  IF index < length THEN Reads(map, index, index + howMany) ELSE <<>>

(* Inside the array, a negative howMany has it reject almost 2^64 elements. *)
Splice(index, howMany, args) ==
  \/ /\ Step
     /\ index < length => howMany # WordMax
     /\ LET keepers == Keepers(index, howMany, args)
        IN  /\ Len(keepers) <= MaxLen
            /\ map' = Filled(keepers)
            /\ SetLen(Len(keepers))
  \/ /\ status = "running"
     /\ index < length /\ howMany = WordMax
     /\ Ends("splice")

Unshift(args) ==
  /\ Step
  /\ length + Len(args) <= MaxLen
  /\ map' = Filled(args \o Reads(map, 0, length))
  /\ SetLen(length + Len(args))

(* slice(begin, end): a missing argument is <<>>.                          *)
Slice(begin, end) ==
  LET from == IF begin[1] >= 0 THEN begin[1]
              ELSE IF -begin[1] <= length THEN length + begin[1] ELSE 0
      to == IF end = <<>> \/ end[1] > length THEN length
            ELSE IF end[1] >= 0 THEN end[1] ELSE length + end[1]
  IN  IF \/ begin = <<>> \/ begin[1] > length
         \/ end # <<>> /\ -end[1] > length
         \/ from >= to
        THEN <<>> ELSE Reads(map, from, to)

(* concat of arrays; an argument that is none counts as one of one element.*)
(* The index moves on once more than the elements of an argument but the   *)
(* last: by one for an empty array.                                        *)
Concat(lists) ==
  LET part(l) == IF l = <<>> THEN <<Undef>> ELSE l
      join[n \in 0 .. Len(lists)] ==
        IF n = 0 THEN Reads(map, 0, length) ELSE join[n - 1] \o part(lists[n])
  IN  join[Len(lists)]

(* The first index from a given one on.  That one is converted from a      *)
(* negative number to an unsigned one when it lies before the array: it    *)
(* becomes 0 or a very large number.                                       *)
IndexOf(value, from) ==
  LET starts == IF from = <<>> THEN {0}
                ELSE IF from[1] >= 0 THEN {from[1]}
                ELSE Words(length + from[1])
      found(i) == {j \in i .. length - 1 : Get(map, j) = value}
  IN  {IF found(i) = {} THEN -1 ELSE CHOOSE j \in found(i) : \A k \in found(i) : j <= k
         : i \in starts}

LastIndexOf(value, from) ==
  LET i == IF from = <<>> \/ from[1] >= length THEN length - 1
           ELSE IF from[1] < 0 THEN length + from[1] ELSE from[1]
      found == {j \in 0 .. i : Get(map, j) = value}
  IN  IF found = {} THEN -1 ELSE CHOOSE j \in found : \A k \in found : k <= j

-----------------------------------------------------------------------------
(* Assignments of a script.                                                *)

(* arr[index] = value: the length is set before the element. *)
Assign(index, value) ==
  /\ Step
  /\ map' = Put(map, index, value)
  /\ IF index >= length THEN SetLen(index + 1) ELSE UNCHANGED <<length, shown>>

(* arr[key] = value, for a key that strtod reads as n but that spells no   *)
(* index: the length is set all the same, for -1 to the successor of       *)
(* 2^64 - 1, which is 0.                                                   *)
AssignKey(n) ==
  /\ Goes
  /\ \E val \in Words(n) :
       /\ IF val >= length THEN SetLen(IF val = WordMax THEN 0 ELSE val + 1)
          ELSE UNCHANGED <<length, shown>>
       /\ IF val = WordMax /\ length > 0 THEN stray' = TRUE ELSE UNCHANGED stray
  /\ UNCHANGED map

(* arr[index]++, and for (arr[index] in ...): put and forin_stmt store     *)
(* without a look at the length.                                           *)
Increment(index, value) ==
  /\ Goes
  /\ map' = Put(map, index, value)
  /\ IF index >= length THEN stray' = TRUE ELSE UNCHANGED stray
  /\ UNCHANGED <<length, shown>>

(* arr.length = n changes the property and nothing else (a bound: a script *)
(* assigns the shortest and the longest length only).                      *)
AssignLength(n) ==
  /\ Step
  /\ shown' = n
  /\ UNCHANGED <<map, length>>

(* delete arr[index]: the property's flags are looked at, whether there is *)
(* one or not.                                                             *)
Delete(index) ==
  \/ /\ Step
     /\ index \in DOMAIN map
     /\ map' = Without(map, index)
     /\ UNCHANGED <<length, shown>>
  \/ /\ status = "running"
     /\ index \notin DOMAIN map
     /\ Ends("delete")
-----------------------------------------------------------------------------
(* Iterations.  The length is read once, elements when their turn comes.   *)

(* There is nothing to call back for.                                      *)
Nothing(method) == IF method \in {"reduce", "reduceRight"} THEN length = 1 ELSE length = 0

(* The index of the first callback.  Without a seed, a reduce begins with  *)
(* an element.                                                             *)
First(method) ==
  CASE method = "reduce" -> 1
    [] method = "reduceRight" -> Word(length - 2)
    [] method = "reduceRightSeed" -> Word(length - 1)
    [] OTHER -> 0

Begin(method) ==
  /\ status = "running" /\ iter = Idle
  /\ method \in {"reduce", "reduceRight"} => length > 0   (* else it throws *)
  /\ ~ Nothing(method)
  /\ iter' = [method |-> method, len |-> length, i |-> First(method), seen |-> <<First(method)>>]
  /\ UNCHANGED <<map, length, shown, status, stray>>

(* A mutant: the length is read again. *)
MutMoveOn ==
  /\ status = "running" /\ iter # Idle
  /\ LET next == Word(IF iter.method \in Descending THEN iter.i - 1 ELSE iter.i + 1)
         over == IF iter.method \in Descending THEN iter.i = 0 ELSE next >= length
     IN  \/ over /\ iter' = Idle
         \/ ~ over /\ iter' = [iter EXCEPT !.i = next, !.seen = Append(@, next)]
         \/ iter.method = "some" /\ iter' = Idle
  /\ UNCHANGED <<map, length, shown, status, stray>>

(* The callback has returned. *)
MoveOn ==
  /\ status = "running" /\ iter # Idle
  /\ LET next == Word(IF iter.method \in Descending THEN iter.i - 1 ELSE iter.i + 1)
         over == IF iter.method \in Descending THEN iter.i = 0 ELSE next >= iter.len
     IN  \/ over /\ iter' = Idle
         \/ ~ over /\ iter' = [iter EXCEPT !.i = next, !.seen = Append(@, next)]
         \/ iter.method = "some" /\ iter' = Idle
  /\ UNCHANGED <<map, length, shown, status, stray>>

Ended == status # "running" /\ UNCHANGED vars

Next ==
  \/ \E args \in Args : Push(args) \/ Unshift(args)
  \/ Pop
  \/ Shift
  \/ Reverse
  \/ Sort
  \/ SortWith
  \/ \E index, howMany \in ArgWords, args \in Args : Splice(index, howMany, args)
  \/ \E index \in Index, value \in Value : Assign(index, value) \/ Increment(index, value)
  \/ \E n \in -1 .. MaxLen - 1 : AssignKey(n)
  \/ \E n \in {0, MaxLen} : AssignLength(n)
  \/ \E index \in 0 .. MaxLen : Delete(index)
  \/ \E method \in Method : Begin(method)
  \/ MoveOn
  \/ Ended

Spec == Init /\ [][Next]_vars

-----------------------------------------------------------------------------
(* Properties.                                                             *)

(* No sequence of methods, deletions and assignments, to keys that are     *)
(* numbers but no indices as well, leaves an element at or beyond the      *)
(* length, where no method would find it until the array has grown over    *)
(* it, but for the two kinds of stores that stray records: increments      *)
(* beyond the end (eval.c:126) and the key -1 (eval.c:401-403).            *)
ElementsBelowLength == stray \/ \A i \in DOMAIN map : i < length

(* The length that methods use and the one that a script reads agree again *)
(* whenever the former has changed, after any assignment to the latter.    *)
LengthShown == [][length' # length => shown' = length']_vars

List == Reads(map, 0, length)

(* slice, concat, indexOf and lastIndexOf, for whole numbers in the list   *)
(* and one beyond it on both sides, against their definitions on the list  *)
(* that a script reads, holes and all.                                     *)
(* Left out are the arguments for which the code is known to do otherwise: *)
(* no begin in slice, empty arrays in concat, and in indexOf a negative    *)
(* start before the first element.                                         *)
QueriesAgree ==
  LET clip(n) == IF n < 0 THEN (IF length + n < 0 THEN 0 ELSE length + n)
                 ELSE IF n > length THEN length ELSE n
      first(v, i) == {j \in i .. length - 1 : List[j + 1] = v}
      last(v, i) == {j \in 0 .. length - 1 : j <= i /\ List[j + 1] = v}
  IN  /\ \A b, e \in -MaxLen - 1 .. MaxLen + 1 :
           /\ Slice(<<b>>, <<e>>) = SubSeq(List, clip(b) + 1, clip(e))
           /\ Slice(<<b>>, <<>>) = SubSeq(List, clip(b) + 1, length)
      /\ \A a, b \in Args \ {<<>>} : Concat(<<a, b>>) = List \o a \o b
      /\ \A v \in Stored, n \in -MaxLen - 1 .. MaxLen + 1 :
           /\ -n <= length => \A r \in IndexOf(v, <<n>>) :
                IF first(v, clip(n)) = {} THEN r = -1
                ELSE r \in first(v, clip(n)) /\ \A j \in first(v, clip(n)) : r <= j
           /\ LET from == IF n < 0 THEN length + n ELSE n
                  r == LastIndexOf(v, <<n>>)
              IN  IF last(v, from) = {} THEN r = -1
                  ELSE r \in last(v, from) /\ \A j \in last(v, from) : j <= r

(* splice, for the words its arguments become (Array.c:295-296): inside    *)
(* the list it takes out howMany elements, those it has, puts in the new   *)
(* ones, and returns what it has taken out, as many as it was asked for;   *)
(* beyond, and for an index that was negative and has wrapped around, it   *)
(* does nothing.  Left out is a howMany that has wrapped around, with      *)
(* which it does not come back (Splice); what it returns from beyond the   *)
(* end is undefined unless elements have strayed there.                    *)
SpliceAgrees ==
  \A index \in ArgWords, howMany \in ArgWords \ {WordMax}, args \in Args :
    LET kept == SubSeq(List, 1, index) \o args \o SubSeq(List, index + howMany + 1, length)
    IN  IF index < length
          THEN /\ Keepers(index, howMany, args) = kept
               /\ Len(Rejects(index, howMany)) = howMany
               /\ \A i \in 1 .. howMany :
                    index + i <= length \/ ~ stray =>
                      Rejects(index, howMany)[i] =
                        IF index + i <= length THEN List[index + i] ELSE Undef
          ELSE Keepers(index, howMany, args) = List /\ Rejects(index, howMany) = <<>>

(* The merge sort of a list without holes is a permutation of it whatever  *)
(* the comparison function answers, and with the default one it is sorted. *)
SortSorts ==
  LET count(s, v) == Cardinality({i \in DOMAIN s : s[i] = v})
  IN  Holes = {} =>
        /\ \A s \in MergeSort(List, cmp_js) :
             Len(s) = length /\ \A v \in Stored : count(s, v) = count(List, v)
        /\ \A s \in MergeSort(List, cmp) :
             \A i, j \in DOMAIN s : i < j => ~ Precedes(s[j], s[i])

(* The methods that answer, or put together, a list agree with lists.      *)
MethodsAgree == QueriesAgree /\ SpliceAgrees /\ SortSorts

(* Whatever the callbacks do to the array, an iteration that nothing stops *)
(* calls back once for each index below the length it began with, in       *)
(* order, but for the element a reduce without a seed begins with.         *)
EveryIndexOnce ==
  [][ iter # Idle /\ iter' = Idle /\ iter.method # "some" =>
        LET n == IF iter.method \in {"reduce", "reduceRight"} THEN iter.len - 1 ELSE iter.len
        IN  iter.seen = [k \in 1 .. n |->
              IF iter.method \in Descending THEN n - k ELSE iter.len - n + k - 1] ]_vars

(* What a script reads behaves as the lists of module Lists do, in what    *)
(* calls leave and in which of them fail, until an element strays.         *)
Promise == INSTANCE Lists WITH list <- List, Index <- 0 .. MaxLen,
                               status <- IF stray THEN "broken" ELSE status

ImplementsLists == Promise!Spec
=============================================================================
