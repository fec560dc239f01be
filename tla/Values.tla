------------------------------- MODULE Values -------------------------------
(***************************************************************************)
(* Primitive values, their conversions (flathead.c) and the operators on   *)
(* them (eval.c), with Math's comparisons (Math.c).                        *)
(*                                                                         *)
(* A number carries a C double and a flag that it is not a number; what    *)
(* JSNAN makes has the flag and a double that is 0.  Doubles are whole     *)
(* numbers, the infinities and C's own NaN; the sign of zero is left out.  *)
(* The flags is_inf and is_neg always follow the double.                   *)
(*                                                                         *)
(* A string keeps its length twice, in string.length, which C code reads,  *)
(* and in its property "length", which scripts read: length and shown.     *)
(***************************************************************************)
EXTENDS Integers, SequencesExt

CONSTANTS
  two32       (* the words of fh_to_uint32; 2^32 in the code *)

ASSUME ValuesAssumption == two32 \in Nat \ {0} /\ two32 % 2 = 0

-----------------------------------------------------------------------------
(* C's doubles. *)

Fin(n) == <<"fin", n>>
INF    == <<"inf", 1>>
NINF   == <<"inf", -1>>
NAN    == <<"nan", 0>>

IsFin(d) == d[1] = "fin"
IsInf(d) == d[1] = "inf"

Sign(n) == IF n < 0 THEN -1 ELSE IF n > 0 THEN 1 ELSE 0

(* Remainder rounding towards zero, for the sign of a. *)
CRem(a, b) == Sign(a) * ((Sign(a) * a) % (IF b < 0 THEN -b ELSE b))

Negative(d) == <<d[1], -d[2]>>

Sum2(d, e) ==
  IF IsFin(d) /\ IsFin(e) THEN Fin(d[2] + e[2])
  ELSE IF NAN \in {d, e} \/ (IsInf(d) /\ IsInf(e) /\ d # e) THEN NAN
  ELSE IF IsInf(d) THEN d ELSE e

Times(d, e) ==
  IF IsFin(d) /\ IsFin(e) THEN Fin(d[2] * e[2])
  ELSE IF NAN \in {d, e} \/ Sign(d[2]) * Sign(e[2]) = 0 THEN NAN
  ELSE <<"inf", Sign(d[2]) * Sign(e[2])>>

(* Only for whole quotients. *)
Over(d, e) ==
  IF NAN \in {d, e} \/ (IsInf(d) /\ IsInf(e)) \/ (d = Fin(0) /\ e = Fin(0)) THEN NAN
  ELSE IF IsInf(e) THEN Fin(0)
  ELSE IF IsInf(d) THEN Times(d, Fin(IF e[2] < 0 THEN -1 ELSE 1))
  ELSE IF e = Fin(0) THEN <<"inf", Sign(d[2])>>
  ELSE Fin(Sign(d[2]) * Sign(e[2]) * ((Sign(d[2]) * d[2]) \div (Sign(e[2]) * e[2])))

Fmod(d, e) ==
  IF NAN \in {d, e} \/ IsInf(d) \/ e = Fin(0) THEN NAN
  ELSE IF IsInf(e) THEN d ELSE Fin(CRem(d[2], e[2]))

Less(d, e) ==
  /\ NAN \notin {d, e}
  /\ IF IsFin(d) /\ IsFin(e) THEN d[2] < e[2]
     ELSE d # e /\ (d = NINF \/ e = INF)

-----------------------------------------------------------------------------
(* Values. *)

JSUNDEF   == [type |-> "undefined"]
JSNULL    == [type |-> "null"]
JSBOOL(b) == [type |-> "boolean", bool |-> b]
JSNUM(d)  == [type |-> "number", val |-> d, is_nan |-> d = NAN]
JSNAN     == [type |-> "number", val |-> Fin(0), is_nan |-> TRUE]
JSSTR(s)  == [type |-> "string", ptr |-> s, length |-> Len(s), shown |-> Len(s)]

Num(n) == JSNUM(Fin(n))

IS_STR(v) == v.type = "string"
IS_NUM(v) == v.type = "number"
IS_NAN(v) == IS_NUM(v) /\ v.is_nan
IS_INF(v) == IS_NUM(v) /\ IsInf(v.val)
IS_NEG(v) == v.val = NINF

-----------------------------------------------------------------------------
(* Texts of numbers.  A text is a sequence of characters. *)

Numerals ==
  <<"0", "1", "2", "3", "4", "5", "6", "7", "8", "9",
    "a", "b", "c", "d", "e", "f", "g", "h", "i", "j", "k", "l", "m",
    "n", "o", "p", "q", "r", "s", "t", "u", "v", "w", "x", "y", "z">>

radix_val(c) ==
  IF \E i \in 1 .. 36 : Numerals[i] = c THEN (CHOOSE i \in 1 .. 36 : Numerals[i] = c) - 1 ELSE 36

(* The characters of this model, in the order of their codes. *)
Collation == <<" ", "+", "-">> \o Numerals
Character == ToSet(Collation)
Text == Seq(Character)

CDouble  == ({"fin"} \X Int) \cup {INF, NINF, NAN}
JSNumber == {n \in [type : {"number"}, val : CDouble, is_nan : BOOLEAN] : n.val = NAN => n.is_nan}
JSString == [type : {"string"}, ptr : Text, length : Nat, shown : Nat]
JSValue  == {JSUNDEF, JSNULL, JSBOOL(TRUE), JSBOOL(FALSE)} \cup JSNumber \cup JSString

(* The number that digits write in a radix. *)
Positional(s, radix) ==
  LET val[i \in 0 .. Len(s)] == IF i = 0 THEN 0 ELSE val[i - 1] * radix + radix_val(s[i])
  IN  val[Len(s)]

Decimal(n) ==
  LET digits[k \in Nat] ==
        IF k < 10 THEN <<Numerals[k + 1]>> ELSE Append(digits[k \div 10], Numerals[(k % 10) + 1])
  IN  IF n < 0 THEN <<"-">> \o digits[-n] ELSE digits[n]

Spaces(s) == {i \in 0 .. Len(s) : \A j \in 1 .. i : s[j] = " "}
SkipSpaces(s) == SubSeq(s, 1 + (CHOOSE i \in Spaces(s) : i + 1 \notin Spaces(s)), Len(s))
Unsigned(s) == IF s # <<>> /\ s[1] \in {"-", "+"} THEN Tail(s) ELSE s
SignOf(s) == IF s # <<>> /\ s[1] = "-" THEN -1 ELSE 1

(* C's strtod on a text of which nothing may be left over: an empty text   *)
(* is 0.  Decimal digits only; fractions, exponents and hexadecimal digits *)
(* are left out.                                                           *)
strtod(s) ==
  LET t == SkipSpaces(s)
      u == Unsigned(t)
  IN  IF s = <<>> THEN Num(0)
      ELSE IF u # <<>> /\ \A i \in 1 .. Len(u) : radix_val(u[i]) < 10
      THEN Num(SignOf(t) * Positional(u, 10)) ELSE JSNAN

fh_to_number(v) ==
  CASE v.type = "undefined" -> JSNAN
    [] v.type = "null"      -> Num(0)
    [] v.type = "boolean"   -> Num(IF v.bool THEN 1 ELSE 0)
    [] IS_STR(v)            -> strtod(v.ptr)
    [] OTHER                -> v

(* Only of strings and finite numbers: the words for other values, which   *)
(* conversion and concatenation treat as any other text, are left out.     *)
HasText(v) == IS_STR(v) \/ (IS_NUM(v) /\ ~v.is_nan /\ IsFin(v.val))
fh_to_string(v) == IF IS_STR(v) THEN v ELSE JSSTR(Decimal(v.val[2]))

(* By the cached length of a string. *)
fh_to_boolean(v) ==
  CASE v.type \in {"undefined", "null"} -> FALSE
    [] v.type = "boolean" -> v.bool
    [] IS_NUM(v) -> ~v.is_nan /\ v.val # Fin(0)
    [] IS_STR(v) -> v.length # 0

fh_to_int(v) ==
  LET n == fh_to_number(v) IN IF n.is_nan THEN Num(0) ELSE n

(* The remainder keeps the sign, so that negative words stay negative. *)
fh_to_uint32(v) ==
  LET n == fh_to_number(v)
  IN  IF n.is_nan \/ IsInf(n.val) THEN Num(0) ELSE Num(CRem(n.val[2], two32))

fh_to_int32(v) ==
  LET n == fh_to_uint32(v).val[2] IN Num(IF n >= two32 \div 2 THEN n - two32 ELSE n)

-----------------------------------------------------------------------------
(* Operators. *)

AddNumbers(a, b) ==
  IF a.is_nan \/ b.is_nan THEN JSNAN
  ELSE IF IS_INF(a) /\ IS_INF(b) THEN
    IF IS_NEG(a) # IS_NEG(b) THEN JSNAN ELSE a
  ELSE IF IS_INF(a) THEN a
  ELSE IF IS_INF(b) THEN b
  ELSE JSNUM(Sum2(a.val, b.val))

add_op(a, b) ==
  IF IS_STR(a) \/ IS_STR(b)
  THEN JSSTR(fh_to_string(a).ptr \o fh_to_string(b).ptr)
  ELSE AddNumbers(fh_to_number(a), fh_to_number(b))

(* The flag of b is lost: only its double is negated. *)
sub_op(a, b) == AddNumbers(fh_to_number(a), JSNUM(Negative(fh_to_number(b).val)))

MulNumbers(a, b) ==
  IF a.is_nan \/ b.is_nan THEN JSNAN
  ELSE IF IS_INF(a) /\ IS_INF(b) THEN JSNUM(IF IS_NEG(a) = IS_NEG(b) THEN INF ELSE NINF)
  ELSE IF IS_INF(a) \/ IS_INF(b) THEN
    LET fin == IF IS_INF(a) THEN b ELSE a
        inf == IF IS_INF(a) THEN a ELSE b
    IN  IF fin.val = Fin(0) THEN JSNAN
        ELSE JSNUM(IF (fin.val[2] < 0) = IS_NEG(inf) THEN INF ELSE NINF)
  ELSE JSNUM(Times(a.val, b.val))

mul_op(a, b) == MulNumbers(fh_to_number(a), fh_to_number(b))

(* The sign of a divisor counts for nothing when the dividend is infinite, *)
(* nor does the dividend's when the divisor is 0; a finite number over an  *)
(* infinite one is NaN.                                                    *)
DivNumbers(a, b) ==
  IF a.is_nan \/ b.is_nan \/ IS_INF(b) THEN JSNAN
  ELSE IF IS_INF(a) THEN a
  ELSE IF b.val = Fin(0) THEN JSNUM(INF)
  ELSE JSNUM(Over(a.val, b.val))

div_op(a, b) == DivNumbers(fh_to_number(a), fh_to_number(b))

mod_op(a, b) ==
  LET m == fh_to_number(a)
      n == fh_to_number(b)
  IN  IF m.is_nan \/ n.is_nan \/ IS_INF(m) \/ IS_INF(n) THEN JSNAN ELSE JSNUM(Fmod(m.val, n.val))

(* -v: every infinity becomes the negative one. *)
minus_op(v) ==
  LET n == fh_to_number(v)
  IN  IF IS_INF(n) THEN JSNUM(NINF)
      ELSE IF n.is_nan THEN JSNAN
      ELSE JSNUM(Negative(n.val))

not_op(v) == Num(-1 - fh_to_int32(fh_to_number(v)).val[2])

EqNumbers(a, b) == ~a.is_nan /\ ~b.is_nan /\ a.val = b.val

(* Both operands primitive. *)
eq_op(a, b, strict) ==
  IF a.type = b.type THEN
    CASE a.type \in {"undefined", "null"} -> TRUE
      [] IS_NUM(a) -> EqNumbers(a, b)
      [] IS_STR(a) -> a.ptr = b.ptr
      [] OTHER     -> a.bool = b.bool
  ELSE
    /\ ~strict
    /\ IF {a.type, b.type} \cap {"undefined", "null"} # {}
       THEN {a.type, b.type} = {"undefined", "null"}
       ELSE EqNumbers(fh_to_number(a), fh_to_number(b))

(* C's strcmp. *)
Before(c, d, order) ==
  (CHOOSE i \in DOMAIN order : order[i] = c) < (CHOOSE i \in DOMAIN order : order[i] = d)

strcmp_less(s, t) ==
  \E i \in 0 .. Len(s) :
    /\ \A j \in 1 .. i : j <= Len(t) /\ s[j] = t[j]
    /\ i < Len(t)
    /\ i < Len(s) => Before(s[i + 1], t[i + 1], Collation)

(* Whether a < b, as a set that is empty when the code answers undefined. *)
LessNumbers(a, b) ==
  IF a.is_nan \/ b.is_nan THEN {}
  ELSE IF a.val = b.val THEN {FALSE}
  ELSE IF IS_INF(a) /\ ~IS_NEG(a) THEN {FALSE}
  ELSE IF IS_INF(b) THEN {~IS_NEG(b)}
  ELSE IF IS_INF(a) THEN {TRUE}
  ELSE {Less(a.val, b.val)}

abstr_rel_comp(a, b) ==
  IF IS_STR(a) /\ IS_STR(b) THEN {strcmp_less(a.ptr, b.ptr)}
  ELSE LessNumbers(fh_to_number(a), fh_to_number(b))

(* A mutant: a <= b is not b < a, whatever b < a is. *)
MutLtOp(a, b, or_equal) ==
  IF or_equal THEN TRUE \notin abstr_rel_comp(b, a) ELSE TRUE \in abstr_rel_comp(a, b)

lt_op(a, b, or_equal) ==
  IF or_equal THEN abstr_rel_comp(b, a) = {FALSE} ELSE TRUE \in abstr_rel_comp(a, b)

gt_op(a, b, or_equal) ==
  IF or_equal THEN abstr_rel_comp(a, b) = {FALSE} ELSE TRUE \in abstr_rel_comp(b, a)

-----------------------------------------------------------------------------
(* Math. *)

math_abs(v) ==
  LET n == fh_to_number(v)
  IN  IF n.is_nan THEN JSNAN
      ELSE IF IS_INF(n) THEN JSNUM(INF) ELSE Num(Sign(n.val[2]) * n.val[2])

(* On whole numbers; the flag is lost. *)
math_floor(v) == JSNUM(fh_to_number(v).val)

(* With two arguments, and with another number of them, where an infinity  *)
(* of either sign replaces what came before it.                            *)
math_max(args) ==
  LET x == [i \in DOMAIN args |-> fh_to_number(args[i])]
  IN  IF args = <<>> THEN JSNUM(NINF)
      ELSE IF \E i \in DOMAIN x : x[i].is_nan THEN JSNAN
      ELSE IF Len(x) = 2 THEN IF Less(x[2].val, x[1].val) THEN x[1] ELSE x[2]
      ELSE LET max[i \in 1 .. Len(x)] ==
                 IF i = 1 \/ IS_INF(x[i]) \/ Less(max[i - 1].val, x[i].val) THEN x[i] ELSE max[i - 1]
           IN  max[Len(x)]

math_min(args) ==
  LET x == [i \in DOMAIN args |-> fh_to_number(args[i])]
  IN  IF args = <<>> THEN JSNUM(INF)
      ELSE IF \E i \in DOMAIN x : x[i].is_nan THEN JSNAN
      ELSE IF Len(x) = 2 THEN IF Less(x[1].val, x[2].val) THEN x[1] ELSE x[2]
      ELSE LET min[i \in 1 .. Len(x)] ==
                 IF i = 1 \/ Less(x[i].val, min[i - 1].val) THEN x[i] ELSE min[i - 1]
           IN  min[Len(x)]

=============================================================================
