CONSTANTS
  hr_per_day = 2
  min_per_hr = 2
  sec_per_min = 2
  ms_per_sec = 2
  max_time = 46926362
  Offsets <- MCOffsets
  dst_saving = 4
  dst_begin = 944
  dst_end = 1430
  Lettered <- MCLettered
  Moments = {0, 1445, 175287, 46926351, 46926366}
  YearArgs = {70, 999, 2000, 20000, NaN}
  MonthArgs <- MCMonthArgs
  DateArgs <- MCDateArgs
  ClockArgs <- MCClockArgs
  ModelYears = {999, 1000, 1969, 1970, 2000, 9999, 10000}
  ModelMonths = {0, 1, 2, 11}
  ModelDays = {1, 28, 29, 31}
  NaN = NaN
  Undefined = Undefined
SPECIFICATION DateSpec
INVARIANTS DateTypeOK PartsFollowCalendar MethodsSetParts TextsReadBack

