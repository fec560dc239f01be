-------------------------------- MODULE Dates --------------------------------
(***************************************************************************)
(* One Date object and the script that sets it, prints it and reads it     *)
(* back (Date.c), over the arithmetic of module Calendar.  The object's    *)
(* primitive is a UTC time; local methods convert it with an offset that   *)
(* localtime looks up, at a UTC time by contract, and that utc_time looks  *)
(* up at a local time.                                                     *)
(***************************************************************************)
EXTENDS Calendar, Sequences

CONSTANTS
  Offsets,                (* the time zones: what localtime adds in winter *)
  dst_saving,             (* and more in summer,                           *)
  dst_begin, dst_end,     (* which lies between these times of the year    *)
  Lettered,               (* the zones whose names are two to five letters *)
                          (* all year, as EST and EDT, and not "+03"       *)
  Moments,                (* times that a script uses: new Date(n)         *)
  YearArgs, MonthArgs, DateArgs, ClockArgs,   (* arguments of the methods  *)
  ModelYears, ModelMonths, ModelDays,  (* bounds: a call that leaves       *)
                          (* these days is not made                        *)
  NaN,
  Undefined               (* as an argument: undefined, given or not       *)

ASSUME DatesAssumption ==
  /\ Offsets \subseteq Int /\ dst_saving \in Nat
  /\ \A n \in Offsets \cup {dst_saving} : n % ms_per_sec = 0
  /\ dst_begin \in Nat /\ dst_end \in Nat
  /\ Lettered \subseteq Offsets
  /\ Moments \subseteq Int
  /\ YearArgs \cup MonthArgs \cup DateArgs \cup ClockArgs \subseteq Int \cup {NaN, Undefined}
  /\ NaN \notin Int /\ Undefined \notin Int \cup {NaN}

VARIABLES
  zone,      (* the winter offset of this machine; never changes           *)
  utc,       (* number.val of the date's primitive                         *)
  is_nan     (* and its flag, which only getTime and valueOf show          *)

date_vars == <<zone, utc, is_nan>>

-----------------------------------------------------------------------------
(* Local time. *)

InSummer(t) == t - time_from_year(year_from_time(t)) \in dst_begin .. dst_end - 1

(* localtime is given whole seconds. *)
utc_offset(t) ==
  zone + (IF InSummer(t - fmod(t, ms_per_sec) + zone) THEN dst_saving ELSE 0)

local_time(t) == t + utc_offset(t)

utc_time(t) == t - utc_offset(t)

-----------------------------------------------------------------------------
(* Times from arguments, which are numbers, NaN for what converts to none, *)
(* or undefined, beyond the list or in it, which converts to none, too.    *)
(* Date.c looks at number.val, which is 0 in every value that JSNAN makes. *)

ARG(args, i) == IF i < Len(args) THEN args[i + 1] ELSE Undefined
Given(args, i) == ARG(args, i) # Undefined
Val(n) == IF n \in {NaN, Undefined} THEN 0 ELSE n

Composed(parts) ==
  make_date(make_day(parts[0], parts[1], parts[2]),
            make_time(parts[3], parts[4], parts[5], parts[6]))

(* A mutant: clock parts behind the first that are not given are zero.     *)
MutMakeDateFromArgs(args, t, shift, max_args) ==
  Composed([i \in 0 .. 6 |->
    IF i - shift \in 0 .. max_args - 1 /\ (Given(args, i - shift) \/ i = shift)
    THEN Val(ARG(args, i - shift))
    ELSE IF i > shift /\ i > 2 THEN 0 ELSE make_part(t, i)])

(* The parts from shift on, max_args at most, come from the arguments, the *)
(* first of which counts even if it is undefined; the others are those of  *)
(* t.                                                                      *)
make_date_from_args(args, t, shift, max_args) ==
  Composed([i \in 0 .. 6 |->
    IF i - shift \in 0 .. max_args - 1 /\ (Given(args, i - shift) \/ i = shift)
    THEN Val(ARG(args, i - shift)) ELSE make_part(t, i)])

FullYear(y) == IF y \in 0 .. 99 THEN 1900 + y ELSE y

(* Date.UTC and the constructor with two arguments or more. *)
ms_from_args(args) ==
  LET parts == [i \in 0 .. 6 |->
        IF i = 0 THEN FullYear(Val(ARG(args, 0)))
        ELSE IF i = 2 /\ ~Given(args, i) THEN 1 ELSE Val(ARG(args, i))]
  IN  time_clip(Composed(parts))

-----------------------------------------------------------------------------
(* Printing and parsing.  A text is its form and the parts it shows; words *)
(* and widths matter for the year only, which is printed as it is and read *)
(* where the form has four digits, and for the name of the zone, which the *)
(* local form ends with.  A text without a time is not read.               *)

Form == {"iso", "utc", "loc", "date"}

(* What the getters answer, for UTC and for local time. *)
Parts(t) == [i \in 0 .. 6 |-> make_part(t, i)]
LocalParts(t) == Parts(local_time(t))

(* toISOString and toJSON, toUTCString, toString and Date(), and           *)
(* toDateString.                                                           *)
Printed(form, t) ==
  [form  |-> form,
   parts |-> IF form \in {"loc", "date"} THEN LocalParts(t) ELSE Parts(t),
   tz    |-> zone]

(* Texts with a time, a year of four digits, and a zone's name of letters. *)
FourDigits(y) == y \in 1000 .. 9999
Readable(text) ==
  /\ text.form # "date" /\ FourDigits(text.parts[0])
  /\ text.form = "loc" => text.tz \in Lettered

(* Only the ISO form shows milliseconds. *)
ReadParts(text) == [text.parts EXCEPT ![6] = IF text.form = "iso" THEN @ ELSE 0]

(* A mutant: the local form is read as if it were UTC. *)
MutDateParseStr(text) ==
  IF Readable(text) THEN time_clip(Composed(ReadParts(text))) ELSE NaN

date_parse_str(text) ==
  LET t == Composed(ReadParts(text))
  IN  IF Readable(text) THEN time_clip(IF text.form = "loc" THEN utc_time(t) ELSE t)
      ELSE NaN

-----------------------------------------------------------------------------
(* The calls.  Each leaves a date within the modelled years. *)

InScope(t) ==
  /\ year_from_time(t) \in ModelYears
  /\ month_from_time(t) \in ModelMonths
  /\ date_from_time(t) \in ModelDays

(* The constructor makes a new primitive; a method writes number.val into  *)
(* the one there is, and leaves the flag.                                  *)
Constructs(n) ==
  /\ InScope(Val(n))
  /\ utc' = Val(n)
  /\ is_nan' = (n = NaN)
  /\ UNCHANGED zone

Sets(t) ==
  /\ InScope(t)
  /\ utc' = t
  /\ UNCHANGED <<zone, is_nan>>

DateInit ==
  /\ zone \in Offsets
  /\ utc \in Moments
  /\ is_nan = FALSE

(* new Date(n) for any n, new Date(), which reads the clock, and           *)
(* new Date(NaN), which copies number.val without the flag.                *)
NewFromNumber == \E n \in Moments \cup {NaN} : Constructs(Val(n))

(* new Date(undefined), and of any other text that is no date.             *)
NewFromText == Constructs(NaN)

PartArgs(i) ==
  CASE i = 0 -> YearArgs [] i = 1 -> MonthArgs [] i = 2 -> DateArgs [] OTHER -> ClockArgs

(* No argument, or one or two for the parts from shift on. *)
ArgLists(shift) ==
  {<<>>} \cup {<<a>> : a \in PartArgs(shift)}
  \cup (IF shift = 6 THEN {} ELSE {<<a, b>> : a \in PartArgs(shift), b \in PartArgs(shift + 1)})

NewLists == {<<y, m>> : y \in YearArgs, m \in MonthArgs}
            \cup {<<y, m, d>> : y \in YearArgs, m \in MonthArgs, d \in DateArgs}

(* new Date(Date.UTC(year, month, ...)) *)
NewFromUTC == \E args \in NewLists : Constructs(ms_from_args(args))

(* new Date(year, month, ...) *)
NewFromParts == \E args \in NewLists : Constructs(utc_time(ms_from_args(args)))

(* new Date(date.toString()) and the like. *)
Reread(form) == Constructs(date_parse_str(Printed(form, utc)))

(* The methods that set parts: their first part and how many they take. *)
Method == {"FullYear", "Month", "Date", "Hours", "Minutes", "Seconds", "Milliseconds"}
First == [FullYear |-> 0, Month |-> 1, Date |-> 2, Hours |-> 3, Minutes |-> 4,
          Seconds |-> 5, Milliseconds |-> 6]
Most == [FullYear |-> 3, Month |-> 2, Date |-> 1, Hours |-> 4, Minutes |-> 3,
             Seconds |-> 2, Milliseconds |-> 1]

SetUTC(m, args) == Sets(time_clip(make_date_from_args(args, utc, First[m], Most[m])))

SetLocal(m, args) ==
  Sets(utc_time(time_clip(make_date_from_args(args, local_time(utc), First[m], Most[m]))))

SetTime == \E n \in Moments \cup {NaN, Undefined} : Sets(time_clip(Val(n)))

SetYear(y) ==
  Sets(utc_time(time_clip(make_date_from_args(<<FullYear(Val(y))>>, local_time(utc), 0, 1))))

DateNext ==
  \/ NewFromNumber
  \/ NewFromText
  \/ NewFromUTC
  \/ NewFromParts
  \/ \E form \in Form : Reread(form)
  \/ \E m \in Method : \E args \in ArgLists(First[m]) : SetUTC(m, args)
  \/ \E m \in Method : \E args \in ArgLists(First[m]) : SetLocal(m, args)
  \/ SetTime
  \/ \E y \in YearArgs : SetYear(y)

DateSpec == DateInit /\ [][DateNext]_date_vars

-----------------------------------------------------------------------------
(* What a calendar is, by its rules. *)

DaysInMonth(m, y) ==
  CASE m = 1 -> IF y % 400 = 0 \/ (y % 4 = 0 /\ y % 100 # 0) THEN 29 ELSE 28
    [] m \in {3, 5, 8, 10} -> 30
    [] OTHER -> 31

DayAfter(p) ==
  IF p[2] < DaysInMonth(p[1], p[0]) THEN [p EXCEPT ![2] = @ + 1]
  ELSE IF p[1] < 11 THEN [p EXCEPT ![2] = 1, ![1] = @ + 1]
  ELSE [p EXCEPT ![2] = 1, ![1] = 0, ![0] = @ + 1]

ClockMax == [i \in 3 .. 6 |->
               <<hr_per_day, min_per_hr, sec_per_min, ms_per_sec>>[i - 2] - 1]

(* The parts a millisecond later: the last clock digit that is not at its  *)
(* end goes on, and those behind it start again.                           *)
Tick(p) ==
  LET open == {i \in 3 .. 6 : p[i] < ClockMax[i]}
      from == IF open = {} THEN 2 ELSE CHOOSE i \in open : \A j \in open : j <= i
      q    == [i \in 0 .. 6 |-> IF i > from THEN 0 ELSE IF i = from /\ i > 2 THEN p[i] + 1 ELSE p[i]]
  IN  IF open = {} THEN DayAfter(q) ELSE q

LastOfDay(t) == (day(t) + 1) * ms_per_day - 1

(* A date is a number in the range of the code, unless it was made of one  *)
(* outside, which the constructor does not clip (Date.c:682-683).  Local   *)
(* methods clip the local time, so that an offset may be added to it.      *)
DateTypeOK ==
  /\ zone \in Offsets
  /\ is_nan \in BOOLEAN
  /\ utc \in Int
  /\ \/ utc \in Moments
     \/ \E t \in {utc, utc + zone, utc + zone + dst_saving} : t \in -max_time .. max_time

(* The parts of a time follow the calendar: a millisecond and a day later  *)
(* they are the next ones, weekdays included, and they make the time again *)
(* (Date.c:127-342).                                                       *)
PartsFollowCalendar ==
  \A t \in {utc, LastOfDay(utc), local_time(utc)} :
    /\ Parts(t + 1) = Tick(Parts(t))
    /\ Parts(t + ms_per_day) = DayAfter(Parts(t))
    /\ week_day(t + ms_per_day) = (week_day(t) + 1) % 7
    /\ Composed(Parts(t)) = t

(* The parts that a method's comment in Date.c says it sets. *)
PartsSet == [FullYear |-> 0 .. 2, Month |-> 1 .. 2, Date |-> {2}, Hours |-> 3 .. 6,
         Minutes |-> 4 .. 6, Seconds |-> 5 .. 6, Milliseconds |-> {6}]

(* A first argument, and a month that stays in the year or the one before, *)
(* which is as far as make_day carries.                                    *)
InReach(m, args) ==
  /\ Given(args, 0)
  /\ \A i \in 1 .. Len(args) : First[m] + i = 2 => Val(args[i]) \in -11 .. 11

Asked(m, args, p) ==
  [i \in 0 .. 6 |-> IF i \in PartsSet[m] /\ Given(args, i - First[m])
                    THEN Val(ARG(args, i - First[m])) ELSE p[i]]

(* t is the time that parts p name, whatever they carry: the first of the  *)
(* month and so many days, hours, ... on.                                  *)
Names(p, t) ==
  LET rest == (p[2] - 1) * ms_per_day + p[3] * ms_per_hr + p[4] * ms_per_min
              + p[5] * ms_per_sec + p[6]
  IN  Parts(t - rest) = [i \in 0 .. 6 |->
        CASE i = 0 -> IF p[1] < 0 THEN p[0] - 1 ELSE p[0]
          [] i = 1 -> p[1] % 12
          [] i = 2 -> 1
          [] OTHER -> 0]

(* The zone keeps its offset for as long as a mistaken look may be off. *)
Settled(t) ==
  \A s \in {t, t - ms_from_time(t)}, o \in {0, zone, zone + dst_saving} :
    utc_offset(s + o) = utc_offset(t)

(* A method sets the parts it is given and leaves the others, with carries *)
(* between days and hours; a local method does so in local time unless the *)
(* zone changes its offset close by (Date.c:571-592, 888-1010).            *)
MethodsSetParts ==
  \A m \in Method : \A args \in {a \in ArgLists(First[m]) : InReach(m, a)} :
    LET Set(t) == make_date_from_args(args, t, First[m], Most[m])
        local  == local_time(utc)
        after  == utc_time(Set(local))
    IN  /\ Names(Asked(m, args, Parts(utc)), Set(utc))
        /\ Settled(after) => Names(Asked(m, args, LocalParts(utc)), local_time(after))

(* What a date prints is read back as the same date, to the second where   *)
(* no milliseconds are shown, if the year has four digits and, for local   *)
(* texts, the zone's name is of letters and it does not change close by;   *)
(* other texts are not read (Date.c:349-426, 459-556).                     *)
TextsReadBack ==
  utc \in -max_time .. max_time =>
    \A form \in Form :
      LET text == Printed(form, utc)
          back == date_parse_str(text)
          ms   == IF form = "iso" THEN 0 ELSE ms_from_time(IF form = "loc" THEN local_time(utc) ELSE utc)
          read == /\ form # "date" /\ FourDigits(text.parts[0])
                  /\ form = "loc" => zone \in Lettered
      IN  /\ read /\ (form = "loc" => Settled(utc)) => back = utc - ms
          /\ ~read => back = NaN

=============================================================================
