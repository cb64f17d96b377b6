SPECIFICATION ProgressSpec
CONSTANTS
  MemoryId = {1, 2}
  Write = {w1, w2, w3}
  Puller = {q1}
  PageSize = 1
  Serial = TRUE
  MaxPullTrouble = 1
  Absent = Absent
  Request = {r1, r2}
  Stream = {v1, v2}
  Buffer = 1
  HourMinutes = 2
  DayHours = 4
  MonthDays <- Months
  WeekDays = 2
  Horizon = 1
  Expressions <- Exprs
  Zones <- Sound
  Starts <- Begins
  Delays <- Wait
  MaxFirings = 1
CHECK_DEADLOCK FALSE
INVARIANTS
  CursorCovers
  StreamSound
  NextIsFirst
PROPERTIES
  Converges
  NeverStalled
  NextReturns
