----------------------------- MODULE Primitives -----------------------------
(***************************************************************************)
(* A script with one variable, v, that holds a primitive value, and a      *)
(* regular expression, re: it applies operators, conversions and the       *)
(* methods of strings to v and assigns what they answer to v again.        *)
(***************************************************************************)
EXTENDS Strings

CONSTANTS
  Operands,           (* values that the script writes down                *)
  Texts,              (* texts that it passes to methods                   *)
  Patterns,           (* regular expressions: sets of words                *)
  Radices,            (* second arguments of parseInt                      *)
  MaxText, MaxNumber  (* bounds: longer texts and larger numbers are left  *)
                      (* out                                               *)

ASSUME PrimitivesAssumption ==
  /\ Operands \subseteq JSValue
  /\ \A w \in Operands : IS_STR(w) => w = JSSTR(w.ptr)
  /\ Texts \subseteq Text
  /\ Patterns \subseteq SUBSET Text
  /\ Radices \subseteq Int
  /\ MaxText \in Nat /\ MaxNumber \in Nat

VARIABLES v, re, process

primitive_vars == <<v, re, process>>

Indices == -1 .. MaxText + 1

-----------------------------------------------------------------------------
(* Steps of the script. *)

WithinBounds(w) ==
  /\ IS_STR(w) => Len(w.ptr) <= MaxText
  /\ IS_NUM(w) => w.val[2] \in -MaxNumber .. MaxNumber

(* The process has crashed or is in an endless loop: v is not looked at    *)
(* again.                                                                  *)
Stops(how) == process' = how /\ v' = JSUNDEF

(* v = w.  Where C code has made a value of no string, it has crashed.     *)
Assign(w) ==
  /\ process = "running"
  /\ IF w = NoText THEN Stops("crashed") ELSE WithinBounds(w) /\ v' = w /\ UNCHANGED process
  /\ UNCHANGED re

PrimitiveInit ==
  /\ v \in Operands
  /\ re \in [words : Patterns, global : BOOLEAN, lastIndex : {0}]
  /\ process = "running"

Literal == \E w \in Operands : Assign(w)

(* Whether a / b is a whole number, or none. *)
Whole(a, b) ==
  LET x == fh_to_number(a).val
      y == fh_to_number(b).val
  IN  IsFin(x) /\ IsFin(y) /\ y # Fin(0) => CRem(x[2], y[2]) = 0

Addable(a, b) == IS_STR(a) \/ IS_STR(b) => HasText(a) /\ HasText(b)

Operate == \E w \in Operands :
  \/ Addable(v, w) /\ Assign(add_op(v, w))
  \/ Addable(w, v) /\ Assign(add_op(w, v))
  \/ Assign(sub_op(v, w))
  \/ Assign(mul_op(v, w))
  \/ Whole(v, w) /\ Assign(div_op(v, w))
  \/ Assign(mod_op(v, w))

Convert ==
  \/ Assign(fh_to_number(v))
  \/ Assign(minus_op(v))
  \/ Assign(not_op(v))
  \/ Assign(JSBOOL(~fh_to_boolean(v)))
  \/ HasText(v) /\ Assign(fh_to_string(v))

Math ==
  \/ Assign(math_abs(v))
  \/ Assign(math_floor(v))
  \/ \E w \in Operands : \E args \in {<<v>>, <<v, w>>, <<v, w, JSNUM(NINF)>>} :
       Assign(math_max(args)) \/ Assign(math_min(args))

ParseInt == \E r \in Radices : HasText(v) /\ Assign(parse_int(fh_to_string(v).ptr, r))

Concat == IS_STR(v) /\ \E t \in Texts, u \in Texts : Assign(concat(v, <<t, u>>))

Trim == IS_STR(v) /\ (Assign(trim(v)) \/ Assign(trim_left(v)) \/ Assign(trim_right(v)))

Find == IS_STR(v) /\ \E t \in Texts : \E i \in Indices :
  \/ i >= 0 /\ Assign(Num(index_of(v.ptr, t, i)))
  \/ Assign(Num(last_index_of(v.ptr, t, i)))

(* charAt reads no further than one character behind the text. *)
Cut == IS_STR(v) /\ \E i, j \in Indices :
  \/ i <= Len(v.ptr) /\ Assign(char_at(v, i))
  \/ Assign(slice(v, i, j))
  \/ Assign(substr(v, i, j))
  \/ Assign(substring(v, i, j))

(* One part of what split answers. *)
Split == IS_STR(v) /\ \E t \in Texts : \E n \in {1, MaxText + 1} :
  LET parts == split(v, t, n)
  IN  \E i \in DOMAIN parts :
        Assign(IF \E j \in DOMAIN parts : parts[j] = NoText THEN NoText ELSE parts[i])

ReplaceText == IS_STR(v) /\ \E t, u \in Texts : Assign(JSSTR(fh_str_replace(v.ptr, t, u)))

-----------------------------------------------------------------------------
(* Steps with the regular expression. *)

NewRegexp ==
  /\ process = "running"
  /\ re' \in [words : Patterns, global : BOOLEAN, lastIndex : {0}]
  /\ UNCHANGED <<v, process>>

(* re.exec(v), and v.match(re), which sets lastIndex to 0 first if re is   *)
(* global and then goes on until exec sets it to 0.                        *)
Exec ==
  /\ process = "running" /\ IS_STR(v)
  /\ re' = [re EXCEPT !.lastIndex = exec(v.ptr, re).lastIndex]
  /\ UNCHANGED <<v, process>>

Match ==
  /\ process = "running" /\ IS_STR(v)
  /\ IF Hung \in ToSet(match(v.ptr, [re EXCEPT !.global = TRUE]))
     THEN Stops("hung") /\ UNCHANGED re
     ELSE /\ re' = [re EXCEPT !.lastIndex = IF re.global THEN 0 ELSE exec(v.ptr, re).lastIndex]
          /\ UNCHANGED <<v, process>>

Search == IS_STR(v) /\ Assign(Num(search(v.ptr, re.words)))

(* Replaces in the string itself, whose lengths it does not look at. *)
ReplaceRegexp(u) ==
  /\ process = "running" /\ IS_STR(v)
  /\ LET r == replace(v.ptr, re, u)
     IN  IF r.ends
         THEN /\ Len(r.ptr) <= MaxText
              /\ v' = [v EXCEPT !.ptr = r.ptr]
              /\ re' = [re EXCEPT !.lastIndex = r.lastIndex]
              /\ UNCHANGED process
         ELSE Stops("hung") /\ UNCHANGED re

SplitRegexp ==
  /\ process = "running" /\ IS_STR(v)
  /\ LET parts == regexp_splitter(v.ptr, re.words)
     IN  IF HungText \in ToSet(parts)
         THEN Stops("hung")
         ELSE UNCHANGED process /\ \E i \in DOMAIN parts : v' = JSSTR(parts[i])
  /\ UNCHANGED re

PrimitiveNext ==
  \/ Literal \/ Operate \/ Convert \/ Math \/ ParseInt
  \/ Concat \/ Trim \/ Find \/ Cut \/ Split \/ ReplaceText
  \/ NewRegexp \/ Exec \/ Match \/ Search \/ SplitRegexp
  \/ \E u \in Texts : ReplaceRegexp(u)

PrimitiveSpec == PrimitiveInit /\ [][PrimitiveNext]_primitive_vars

-----------------------------------------------------------------------------
(* What the answers should be. *)

(* Whatever the script does, its variable holds a primitive value, in      *)
(* which a double that is C's NaN has the flag.                            *)
PrimitiveTypeOK ==
  /\ v \in JSValue
  /\ re \in [words : Patterns, global : BOOLEAN, lastIndex : Nat]
  /\ process \in {"running", "crashed", "hung"}

(* string.length is the length of the text unless a regular expression has *)
(* just replaced in it, and the property shows it unless concat or a trim  *)
(* has made the string (String.c:65-84, 234-276, 517-543).                 *)
LengthsFollowText ==
  [][IS_STR(v') /\ v' # v =>
       \/ \E u \in Texts : ReplaceRegexp(u)
       \/ v'.length = Len(v'.ptr) /\ (v'.shown = v'.length \/ Concat \/ Trim)]_primitive_vars

Places(s, t) == {p \in 0 .. Len(s) : IsPrefix(t, Slice(s, p, Len(s)))}

(* The texts on which starting a scan again loses nothing: their first     *)
(* character occurs once.                                                  *)
Scannable(t) == t # <<>> /\ \A i \in 2 .. Len(t) : t[i] # t[1]

MinOr(S, other) == IF S = {} THEN other ELSE CHOOSE p \in S : \A q \in S : p <= q
MaxOr(S, other) == IF S = {} THEN other ELSE CHOOSE p \in S : \A q \in S : q <= p

(* Some texts in a row, with another one between them.                     *)
Joined(parts, t) ==
  LET from[i \in 1 .. Len(parts)] == IF i = Len(parts) THEN parts[i] ELSE parts[i] \o t \o from[i + 1]
  IN  from[1]

(* indexOf answers a place where the text is, and the first such place for *)
(* texts that a scan cannot miss; lastIndexOf is right for one character;  *)
(* the parts of split, joined again, are the string, and none holds the    *)
(* separator (String.c:86-158, 356-423).                                   *)
SearchesAgree ==
  IS_STR(v) =>
    \A t \in Texts \ {<<>>} :
      LET s == v.ptr
          parts == split(v, t, Len(s) + 1)
      IN  /\ \A from \in 0 .. Len(s) + 1 :
               LET at == {p \in Places(s, t) : p >= from}
                   i  == index_of(s, t, from)
               IN  i \in at \cup {-1} /\ (Scannable(t) => i = MinOr(at, -1))
          /\ Len(t) = 1 => \A from \in 0 .. Len(s) - 1 :
               last_index_of(s, t, from) = MaxOr({p \in Places(s, t) : p <= from}, -1)
          /\ v.length = Len(s) /\ s # <<>> =>
               LET texts == [i \in DOMAIN parts |-> parts[i].ptr]
               IN  /\ Joined(texts, t) = s
                   /\ Scannable(t) => \A i \in DOMAIN texts : Places(texts[i], t) = {}

(* match finds matches from left to right and passes no place where there  *)
(* is one; unless the expression matches nothing at all, replacing is      *)
(* joining the parts that split makes (String.c:168-276, 320-353).         *)
PatternsAgree ==
  IS_STR(v) =>
    \A words \in Patterns :
      LET s  == v.ptr
          g  == [words |-> words, global |-> TRUE, lastIndex |-> 0]
          ms == match(s, g)
          parts == regexp_splitter(s, words)
      IN  /\ Hung \notin ToSet(ms)
          /\ \A i \in 1 .. Len(ms) - 1 : ms[i][1] < ms[i + 1][1] /\ ms[i][2] <= ms[i + 1][1]
          /\ \A p \in 0 .. Len(s) : WordsAt(s, words, p) # {} =>
               \E m \in ToSet(ms) : p = m[1] \/ p \in m[1] .. m[2] - 1
          /\ <<>> \notin words /\ s # <<>> =>
               \A u \in Texts : replace(s, g, u).ends /\ replace(s, g, u).ptr = Joined(parts, u)

(* The characters of s at some positions, in their order. *)
Kept(s, P) ==
  LET at == P \cap 0 .. Len(s) - 1
      place(n) == CHOOSE p \in at : Cardinality({q \in at : q < p}) = n - 1
  IN  [n \in 1 .. Cardinality(at) |-> At(s, place(n))]

FromEnd(i, n) == IF i < 0 THEN MaxOf(n + i, 0) ELSE i

(* slice, substr and substring answer the characters between their bounds, *)
(* which count from the end if negative, or, for substring, are put in     *)
(* order; only slice refuses bounds out of order, and only when they are,  *)
(* as long as string.length is right (String.c:303-318, 425-458).          *)
SlicesAgree ==
  IS_STR(v) /\ v.length = Len(v.ptr) =>
    \A i, j \in Indices :
      LET s == v.ptr
          a == FromEnd(i, Len(s))
          b == FromEnd(j, Len(s))
      IN  /\ slice(v, i, j) = IF a > MinOf(b, Len(s)) THEN NoText ELSE JSSTR(Kept(s, a .. b - 1))
          /\ substr(v, i, j) = JSSTR(Kept(s, a .. a + j - 1))
          /\ substring(v, i, j) = JSSTR(Kept(s, i .. j - 1 \cup j .. i - 1))

(* The number that a value stands for, by its flag. *)
Double(w) == IF fh_to_number(w).is_nan THEN NAN ELSE fh_to_number(w).val
Is(w, d) == w.is_nan = (d = NAN) /\ (d # NAN => w.val = d)

(* Operators answer what C's arithmetic does, and NaN for NaN, except that *)
(* a subtracted NaN counts as its double, and quotients of infinities or   *)
(* by zero (eval.c:134-206); words wrap from the smallest negative one up  *)
(* (flathead.c:383-407).                                                   *)
ArithmeticAgrees ==
  /\ \A w \in Operands \cup {v} :
       LET d == Double(v)
           e == Double(w)
       IN  /\ ~IS_STR(v) /\ ~IS_STR(w) => Is(add_op(v, w), Sum2(d, e))
           /\ Is(mul_op(v, w), Times(d, e))
           /\ e # NAN => Is(sub_op(v, w), Sum2(d, Negative(e)))
           /\ IsFin(d) /\ IsFin(e) /\ e # Fin(0) => Is(mod_op(v, w), Fmod(d, e))
           /\ IsFin(d) /\ IsFin(e) /\ e # Fin(0) /\ Whole(v, w) => Is(div_op(v, w), Over(d, e))
  /\ IsFin(Double(v)) /\ Double(v)[2] >= -two32 \div 2 =>
       LET n == fh_to_int32(v).val[2]
       IN  n \in -(two32 \div 2) .. two32 \div 2 - 1 /\ (n - Double(v)[2]) % two32 = 0

Ordered(w) == w.type \in {"boolean", "number", "string"}

(* Of two values of which none is NaN, one is less or they are equal, and  *)
(* the four comparisons and equality say so together; of NaN none of them  *)
(* is true (eval.c:219-326).                                               *)
OrderAgrees ==
  \A w \in Operands \cup {v} : Ordered(v) /\ Ordered(w) =>
    LET texts == IS_STR(v) /\ IS_STR(w)
        nan   == ~texts /\ NAN \in {Double(v), Double(w)}
        equal == eq_op(v, w, FALSE)
    IN  /\ equal = eq_op(w, v, FALSE)
        /\ lt_op(v, w, FALSE) = gt_op(w, v, FALSE) /\ lt_op(v, w, TRUE) = gt_op(w, v, TRUE)
        /\ IF nan THEN ~(equal \/ lt_op(v, w, FALSE) \/ lt_op(v, w, TRUE) \/ gt_op(v, w, TRUE))
           ELSE /\ lt_op(v, w, TRUE) = (lt_op(v, w, FALSE) \/ equal)
                /\ gt_op(v, w, FALSE) = ~lt_op(v, w, TRUE)
                /\ equal => ~lt_op(v, w, FALSE)

OperatorsAgree == ArithmeticAgrees /\ OrderAgrees

(* parseInt reads a text from the left: a digit of the radix behind a      *)
(* numeral takes its place in the number, anything else but the radix      *)
(* itself, which is taken for a digit, ends it, spaces in front or a 0x    *)
(* before hexadecimal digits change nothing; and it reads what a number    *)
(* prints (runtime.c:74-130).                                              *)
ParseIntReads ==
  /\ HasText(v) /\ ~IS_STR(v) => parse_int(fh_to_string(v).ptr, 10) = v
  /\ IS_STR(v) => \A r \in Radices \cap 2 .. 36 :
       LET s == v.ptr
           n == parse_int(s, r)
           u == Unsigned(SkipSpaces(s))
       IN  /\ parse_int(<<" ">> \o s, r) = n
           /\ s # <<>> /\ radix_val(s[1]) < 16 /\ ~HasPrefix(s) =>
                parse_int(<<"0", "x">> \o s, 0) = parse_int(s, 16)
           /\ u # <<>> /\ r <= 32 /\ (\A i \in 1 .. Len(u) : radix_val(u[i]) < r) =>
                \A c \in ToSet(Collation) :
                  /\ radix_val(c) < r =>
                       parse_int(Append(s, c), r)
                         = Num(r * n.val[2] + SignOf(SkipSpaces(s)) * radix_val(c))
                  /\ radix_val(c) > r /\ ~HasPrefix(Append(u, c)) => parse_int(s \o <<c, "1">>, r) = n

=============================================================================
