------------------------------ MODULE Strings ------------------------------
(***************************************************************************)
(* The methods of strings (String.c) and regular expressions (RegExp.c,    *)
(* regexp.c), and parseInt (runtime.c).  Positions count from 0, as in C.  *)
(*                                                                         *)
(* A regular expression is a set of words, with a greedy choice between    *)
(* them: what the PCRE library finds is the longest word at the first      *)
(* position that has one.                                                  *)
(***************************************************************************)
EXTENDS Values

(* The character at position i. *)
At(s, i) == s[i + 1]
IsAt(s, i, c) == i < Len(s) /\ At(s, i) = c

(* No string: fh_str_slice gives NoText, of which JSSTR cannot make a value. *)
NoText == [type |-> "NoText"]

fh_str_slice(s, start, end) ==
  IF start < 0 \/ start > end \/ end > Len(s) THEN NoText ELSE JSSTR(SubSeq(s, start + 1, end))

Slice(s, start, end) == SubSeq(s, start + 1, end)
Splice(s, new, start, end) == Slice(s, 0, start) \o new \o Slice(s, end, Len(s))

-----------------------------------------------------------------------------
(* Searching.  A scan that fails to go on with a match starts again at the *)
(* current character.                                                      *)

(* Mutants: a failed match forgets that the current character may start    *)
(* the next one.                                                           *)
MutScan(s, i, needle, match) == IF IsAt(needle, match, At(s, i)) THEN match + 1 ELSE 0

Scan(s, i, needle, match) ==
  IF IsAt(needle, match, At(s, i)) THEN match + 1
  ELSE IF IsAt(needle, 0, At(s, i)) THEN 1 ELSE 0

(* from is not negative: the code looks at what lies before the string.    *)
index_of(s, needle, from) ==
  LET find[i \in Nat] == [match \in Nat |->
        IF i >= Len(s) THEN -1
        ELSE LET m == Scan(s, i, needle, match)
             IN  IF m = Len(needle) THEN i - Len(needle) + 1 ELSE find[i + 1][m]]
  IN  IF needle = <<>> THEN IF from <= Len(s) THEN from ELSE Len(s)
      ELSE IF Len(needle) > Len(s) THEN -1
      ELSE find[from][0]

(* Backwards, where a match that lies too far to the right runs on with    *)
(* what the allocator keeps before the needle, no character of a text.     *)
last_index_of(s, needle, from) ==
  LET limit == IF from < 0 THEN 0 ELSE IF from > Len(s) THEN Len(s) - 1 ELSE from
      back(i, match) ==
        IF match >= 0 /\ IsAt(needle, match, At(s, i)) THEN match - 1
        ELSE Len(needle) - (IF IsAt(needle, 0, At(s, i)) THEN 2 ELSE 1)
      find[i \in Int] == [match \in Int |->
        IF i < 0 THEN -1
        ELSE LET m == back(i, match)
             IN  IF m < 0 /\ i <= limit THEN i ELSE find[i - 1][m]]
  IN  IF needle = <<>> THEN limit
      ELSE IF Len(needle) > Len(s) THEN -1
      ELSE find[Len(s) - 1][Len(needle) - 1]

(* The texts between the separators, limit of them at most; the text after *)
(* the last one goes to the string's cached length.                        *)
split(v, sep, limit) ==
  LET s == v.ptr
      cut[i \in Nat] == [x \in Nat \X Nat \X Nat |->
        LET match == x[1]
            start == x[2]
            left  == x[3]
            m     == Scan(s, i, sep, match)
        IN  IF left = 0 THEN <<>>
            ELSE IF i >= Len(s) THEN
              IF start # v.length THEN <<fh_str_slice(s, start, v.length)>>
              ELSE IF start = i /\ s # <<>> /\ sep # <<>> THEN <<JSSTR(<<>>)>> ELSE <<>>
            ELSE IF m = Len(sep)
            THEN <<fh_str_slice(s, start, i - Len(sep) + 1)>> \o cut[i + 1][<<0, i + 1, left - 1>>]
            ELSE cut[i + 1][<<m, start, left>>]]
  IN  cut[0][<<0, 0, limit>>]

-----------------------------------------------------------------------------
(* Parts of a string. *)

MinOf(a, b) == IF a < b THEN a ELSE b
MaxOf(a, b) == IF a < b THEN b ELSE a

(* Within the text, or up to one character behind it. *)
char_at(v, i) ==
  IF i < 0 \/ i >= v.length \/ i >= Len(v.ptr) THEN JSSTR(<<>>) ELSE JSSTR(<<At(v.ptr, i)>>)

(* start is not compared with the length. *)
slice(v, start, end) ==
  LET len == Len(v.ptr)
      a == IF start < 0 THEN MaxOf(len + start, 0) ELSE start
      b == MinOf(IF end < 0 THEN MaxOf(len + end, 0) ELSE end, len)
  IN  IF a = b THEN JSSTR(<<>>) ELSE fh_str_slice(v.ptr, a, b)

(* A mutant: a start before the text counts from its end, without a limit. *)
MutSubstr(v, start, length) ==
  LET a == IF start < 0 THEN start + v.length ELSE start
  IN  IF MinOf(MaxOf(length, 0), v.length - a) <= 0 THEN JSSTR(<<>>)
      ELSE fh_str_slice(v.ptr, a, MinOf(v.length, a + length))

substr(v, start, length) ==
  LET a == IF start < 0 THEN MaxOf(start + v.length, 0) ELSE start
  IN  IF MinOf(MaxOf(length, 0), v.length - a) <= 0 THEN JSSTR(<<>>)
      ELSE fh_str_slice(v.ptr, a, MinOf(v.length, a + length))

substring(v, start, end) ==
  LET a == MinOf(MaxOf(start, 0), v.length)
      b == MinOf(MaxOf(end, 0), v.length)
  IN  fh_str_slice(v.ptr, MinOf(a, b), MaxOf(a, b))

(* A mutant: string.length stays that of the first string. *)
MutConcat(v, args) == [JSSTR(v.ptr \o FlattenSeq(args)) EXCEPT !.length = Len(v.ptr), !.shown = Len(v.ptr)]

(* The property shows the length of the first string. *)
concat(v, args) == [JSSTR(v.ptr \o FlattenSeq(args)) EXCEPT !.shown = Len(v.ptr)]

(* It shows the untrimmed length, as it was when the spaces at the other   *)
(* end had gone.                                                           *)
trim_left(v)  == [JSSTR(SkipSpaces(v.ptr)) EXCEPT !.shown = Len(v.ptr)]
trim_right(v) == [JSSTR(Reverse(SkipSpaces(Reverse(v.ptr)))) EXCEPT !.shown = Len(v.ptr)]
trim(v)       == trim_left(trim_right(v))

-----------------------------------------------------------------------------
(* Regular expressions. *)

WordsAt(s, words, i) == {w \in words : IsPrefix(w, Slice(s, i, Len(s)))}

(* The library: the first match from i on, as its start and its end, or    *)
(* nothing.                                                                *)
fh_regexp(s, words, i) ==
  LET at == {p \in i .. Len(s) : WordsAt(s, words, p) # {}}
      start == CHOOSE p \in at : \A q \in at : p <= q
      word  == CHOOSE w \in WordsAt(s, words, start) :
                 \A u \in WordsAt(s, words, start) : Len(u) <= Len(w)
  IN  IF at = {} THEN <<>> ELSE <<start, start + Len(word)>>

search(s, words) == LET m == fh_regexp(s, words, 0) IN IF m = <<>> THEN -1 ELSE m[1]

(* exec: the match, and the new lastIndex. *)
exec(s, re) ==
  LET i == IF re.global THEN re.lastIndex ELSE 0
      m == IF i \in 0 .. Len(s) THEN fh_regexp(s, re.words, i) ELSE <<>>
  IN  [match |-> m,
       lastIndex |-> IF m = <<>> THEN 0 ELSE IF re.global THEN m[2] ELSE re.lastIndex]

(* Marks for a loop that has done more rounds than it can ever need, and   *)
(* will not end: among matches and among texts.                            *)
Hung     == <<-1, -1>>
HungText == <<"hung">>
Rounds(s) == Len(s) + 2

(* All the matches of a global expression.  lastIndex is 0 in the end.     *)
match(s, re) ==
  LET find[n \in Nat] == [i \in Nat |->
        LET m == exec(s, [re EXCEPT !.lastIndex = i]).match
        IN  IF n = 0 THEN <<Hung>>
            ELSE IF m = <<>> THEN <<>>
            ELSE <<m>> \o find[n - 1][IF m[2] = i THEN i + 1 ELSE m[2]]]
  IN  find[Rounds(s)][0]

(* A mutant: the next search starts where the match ended before it was    *)
(* replaced.                                                               *)
MutReplace(s, re, repl) ==
  LET put[n \in Nat] == [x \in Text \X Nat \X Nat |->
        LET t == x[1]
            i == x[2]
            last == x[3]
            m == fh_regexp(t, re.words, i)
            new == Splice(t, repl, m[1], m[2])
        IN  IF n = 0 THEN [ptr |-> t, lastIndex |-> last, ends |-> FALSE]
            ELSE IF i >= Len(t) \/ m = <<>> THEN [ptr |-> t, lastIndex |-> last, ends |-> TRUE]
            ELSE IF re.global THEN put[n - 1][<<new, m[2], m[2]>>]
            ELSE [ptr |-> new, lastIndex |-> m[2], ends |-> TRUE]]
  IN  put[Rounds(s)][<<s, 0, 0>>]

(* replace with a regular expression: the new text, lastIndex, and whether *)
(* the loop ends.  It does not pass an empty match.                        *)
replace(s, re, repl) ==
  LET put[n \in Nat] == [x \in Text \X Nat \X Nat |->
        LET t == x[1]
            i == x[2]
            last == x[3]
            m == fh_regexp(t, re.words, i)
            new == Splice(t, repl, m[1], m[2])
        IN  IF n = 0 THEN [ptr |-> t, lastIndex |-> last, ends |-> FALSE]
            ELSE IF i >= Len(t) \/ m = <<>> THEN [ptr |-> t, lastIndex |-> last, ends |-> TRUE]
            ELSE IF re.global THEN put[n - 1][<<new, m[1] + Len(repl), m[2]>>]
            ELSE [ptr |-> new, lastIndex |-> m[2], ends |-> TRUE]]
  IN  put[Rounds(s)][<<s, 0, 0>>]

(* split with a regular expression; nor does this pass an empty match.     *)
regexp_splitter(s, words) ==
  LET cut[n \in Nat] == [x \in Nat \X BOOLEAN |->
        LET i == x[1]
            matched_last == x[2]
            m == fh_regexp(s, words, i)
        IN  IF n = 0 THEN <<HungText>>
            ELSE IF i < Len(s) /\ m # <<>>
            THEN <<Slice(s, i, m[1])>> \o cut[n - 1][<<m[2], TRUE>>]
            ELSE IF i < Len(s) THEN <<Slice(s, i, Len(s))>>
            ELSE IF matched_last THEN << <<>> >> ELSE <<>>]
  IN  cut[Rounds(s)][<<0, FALSE>>]

(* replace with a text: its first occurrence, if it is not empty.          *)
fh_str_replace(s, old, new) ==
  LET m == fh_regexp(s, {old}, 0)
  IN  IF old = <<>> \/ m = <<>> THEN s ELSE Splice(s, new, m[1], m[2])

-----------------------------------------------------------------------------
(* parseInt. *)

(* A mutant: the digits may go on behind one that is too large. *)
MutDigits(s, r) == SelectSeq(s, LAMBDA c : radix_val(c) <= r)

(* The longest start of s whose digits are in the radix, or are the radix  *)
(* itself.                                                                 *)
Digits(s, r) ==
  LET good == {n \in 0 .. Len(s) : \A i \in 1 .. n : radix_val(s[i]) <= r}
  IN  SubSeq(s, 1, CHOOSE n \in good : \A m \in good : m <= n)

HasPrefix(s) == Len(s) >= 2 /\ s[1] = "0" /\ s[2] = "x"

(* radix is 0 when none is given. *)
parse_int(s, radix) ==
  LET t   == SkipSpaces(s)
      u   == Unsigned(t)
      hex == radix \in {0, 16} /\ HasPrefix(u)
      r   == IF hex THEN 16 ELSE IF radix = 0 THEN 10 ELSE radix
      d   == Digits(IF hex THEN SubSeq(u, 3, Len(u)) ELSE u, r)
  IN  IF (radix # 0 /\ radix \notin 2 .. 32) \/ d = <<>> THEN JSNAN
      ELSE Num(SignOf(t) * Positional(d, r))

=============================================================================
