SPECIFICATION CSpec
CONSTANTS
  HourMinutes = 2
  DayHours = 4
  MonthDays <- Months
  WeekDays = 2
  Horizon = 1
  Expressions <- Exprs
  Zones <- West
  Starts <- Begins
  Delays <- Wait
  MaxFirings = 1
PROPERTY NextReturns
CHECK_DEADLOCK FALSE
