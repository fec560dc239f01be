------------------------------ MODULE MCDates ------------------------------
(* A clock of two hours of two minutes of two seconds of two milliseconds, *)
(* zones on both sides of Greenwich, one without letters in its name, and  *)
(* summers that begin and end in the days that the script's dates come     *)
(* near.                                                                   *)
EXTENDS Dates

MCOffsets == {-8, 4, 6}
MCLettered == {-8, 4}
MCMonthArgs == {-1, 2, 12, NaN}
MCDateArgs == {0, 31}
MCClockArgs == {-1, 3, Undefined}
=============================================================================
