SPECIFICATION SchedSpec
CONSTANTS
  j1 = j1
  j2 = j2
  Absent = Absent
  Jobs = {j1}
  DayLen = 3
  WeekLen = 3
  MonthLen = 3
  YearLen = 2
  YearDays = 5
  Cycle = 17
  DayOf <- LeapDayOf
  MonthOf <- LeapMonthOf
  Ahead = 60
  Offset <- LateGap
  Configs <- SundayNight
  MaxTime = 8
  MaxEvents = 1
INVARIANT TimedHasNext
CHECK_DEADLOCK FALSE
