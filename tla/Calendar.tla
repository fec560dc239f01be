------------------------------ MODULE Calendar ------------------------------
(***************************************************************************)
(* The date arithmetic of Date.c.  A time is a number of milliseconds      *)
(* before or after the start of 1970; its parts are the year, the month    *)
(* (0 .. 11), the day of the month (1 .. 31) and the digits of the clock.  *)
(* The radices of the clock are constants of the code, and parameters here *)
(* so that a small clock has every carry.  Arguments are whole numbers.    *)
(***************************************************************************)
EXTENDS Integers

CONSTANTS hr_per_day, min_per_hr, sec_per_min, ms_per_sec,
          max_time    (* 8.64e15 in the code: a hundred million days       *)

ASSUME CalendarAssumption ==
  /\ hr_per_day \in Nat \ {0} /\ min_per_hr \in Nat \ {0}
  /\ sec_per_min \in Nat \ {0} /\ ms_per_sec \in Nat \ {0}
  /\ max_time \in Nat /\ max_time % ms_per_sec = 0

ms_per_min == sec_per_min * ms_per_sec
ms_per_hr  == min_per_hr * ms_per_min
ms_per_day == hr_per_day * ms_per_hr

(* C's remainder and quotient, which round towards zero.  TLA+'s round     *)
(* down, as floor does, and as fmod does with the correction that follows  *)
(* it in Date.c.                                                           *)
fmod(a, b) == IF a >= 0 THEN a % b ELSE -((-a) % b)
Half(n) == IF n >= 0 THEN n \div 2 ELSE -((-n) \div 2)

(* A mutant: nothing is clipped. *)
MutTimeClip(t) == t

time_clip(t) == IF t > max_time \/ -t > max_time THEN 0 ELSE t

-----------------------------------------------------------------------------
(* Years. *)

day(t) == t \div ms_per_day
week_day(t) == (day(t) + 4) % 7

days_in_year(y) ==
  IF y % 4 = 0 /\ (y % 100 = 0 => y % 400 = 0) THEN 366 ELSE 365

day_from_year(y) ==
  365 * (y - 1970) + (y - 1969) \div 4 - (y - 1901) \div 100 + (y - 1601) \div 400

time_from_year(y) == day_from_year(y) * ms_per_day

(* A mutant: the search steps over a year that starts at t exactly. *)
MutYearFromTime(t) ==
  LET search[b \in Int \X Int] ==
        LET lo  == b[1]
            hi  == b[2]
            mid == Half(hi + lo)
        IN  IF hi <= lo THEN lo
            ELSE IF time_from_year(mid) >= t THEN search[<<lo, mid - 1>>]
            ELSE IF time_from_year(mid + 1) > t THEN mid
            ELSE search[<<mid + 1, hi>>]
      a == day(t) \div 366 + 1970
      b == day(t) \div 365 + 1970
  IN  IF b < a THEN search[<<b, a>>] ELSE search[<<a, b>>]

(* The binary search for the last year that starts no later than t.        *)
year_from_time(t) ==
  LET search[b \in Int \X Int] ==
        LET lo  == b[1]
            hi  == b[2]
            mid == Half(hi + lo)
        IN  IF hi <= lo THEN lo
            ELSE IF time_from_year(mid) > t THEN search[<<lo, mid - 1>>]
            ELSE IF time_from_year(mid + 1) > t THEN mid
            ELSE search[<<mid + 1, hi>>]
      a == day(t) \div 366 + 1970
      b == day(t) \div 365 + 1970
  IN  IF b < a THEN search[<<b, a>>] ELSE search[<<a, b>>]

in_leap_year(t) == days_in_year(year_from_time(t)) = 366
day_within_year(t) == day(t) - day_from_year(year_from_time(t))

-----------------------------------------------------------------------------
(* Months. *)

(* Days of the year before month m, by the rule that months alternate      *)
(* between 31 and 30 days except at the end of July and for February.      *)
day_from_month(m, y) ==
  m * 30 + (IF m >= 7 THEN m \div 2 - 1 ELSE IF m >= 2 THEN (m - 1) \div 2 - 1 ELSE m)
         + (IF m >= 2 /\ in_leap_year(time_from_year(y)) THEN 1 ELSE 0)

(* The day of the year on which the month after m starts, in a leap year   *)
(* one more from March on.                                                 *)
MonthEnd == [m \in 0 .. 10 |->
               <<31, 59, 90, 120, 151, 181, 212, 243, 273, 304, 334>>[m + 1]]

month_from_time(t) ==
  LET leap == IF in_leap_year(t) THEN 1 ELSE 0
      d == day_within_year(t)
      Before(m) == d < MonthEnd[m] + (IF m > 0 THEN leap ELSE 0)
  IN  IF d >= 0 /\ \E m \in 0 .. 10 : Before(m)
      THEN CHOOSE m \in 0 .. 10 : Before(m) /\ (m = 0 \/ ~Before(m - 1)) ELSE 11

(* For the k-th thirty days after the first of March: the days until the   *)
(* month that starts in or just after them, and the length of the month    *)
(* before it.                                                              *)
MonthStart == <<31, 61, 92, 122, 153, 184, 214, 245, 275>>
MonthDays  == <<31, 30, 31, 30, 31, 31, 30, 31, 30>>

(* The day of the month: January and February by hand, then a guess at the *)
(* month from the number of whole thirty days since the first of March.    *)
date_from_time(t) ==
  LET march == day_within_year(t) - (31 + 28)
      leap  == in_leap_year(t)
      d     == IF leap THEN march - 1 ELSE march
      k     == d \div 30
  IN  IF march < -28 THEN march + 31 + 28 + 1
      ELSE IF march < 0 THEN march + 28 + 1
      ELSE IF leap /\ march = 0 THEN 29
      ELSE IF k = 0 THEN d + 1
      ELSE IF k > 9 THEN d - 275 + 1
      ELSE IF d < MonthStart[k] THEN d - MonthStart[k] + MonthDays[k] + 1
      ELSE d - MonthStart[k] + 1

-----------------------------------------------------------------------------
(* The clock, and times from parts. *)

hour_from_time(t) == (t \div ms_per_hr) % hr_per_day
min_from_time(t)  == (t \div ms_per_min) % min_per_hr
sec_from_time(t)  == (t \div ms_per_sec) % sec_per_min
ms_from_time(t)   == t % ms_per_sec

make_time(h, m, s, ms) ==
  ((h * min_per_hr + m) * sec_per_min + s) * ms_per_sec + ms

(* m is reduced before the year takes its carry, so that only a negative   *)
(* month moves the year, and by one.                                       *)
make_day(y, m, dt) ==
  LET rem   == fmod(m, 12)
      year  == y + rem \div 12
      month == IF rem < 0 THEN rem + 12 ELSE rem
  IN  day(time_from_year(year)) + day_from_month(month, year) + dt - 1

make_date(d, t) == d * ms_per_day + t

make_part(t, shift) ==
  CASE shift = 0 -> year_from_time(t)
    [] shift = 1 -> month_from_time(t)
    [] shift = 2 -> date_from_time(t)
    [] shift = 3 -> hour_from_time(t)
    [] shift = 4 -> min_from_time(t)
    [] shift = 5 -> sec_from_time(t)
    [] OTHER     -> ms_from_time(t)

=============================================================================
