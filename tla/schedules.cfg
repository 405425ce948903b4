SPECIFICATION SchedSpec
CONSTANTS
  j1 = j1
  j2 = j2
  Absent = Absent
  Jobs = {j1, j2}
  DayLen = 3
  WeekLen = 3
  MonthLen = 3
  YearLen = 2
  YearDays = 5
  Cycle = 17
  DayOf <- LeapDayOf
  MonthOf <- LeapMonthOf
  Ahead = 60
  Offset <- SummerTime
  Configs <- Five
  MaxTime = 9
  MaxEvents = 2
INVARIANTS NextIsEarliest RowInv MissedAreRun
PROPERTIES OneRunPerPoint ReloadIsQuiet
CHECK_DEADLOCK FALSE
