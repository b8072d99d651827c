SPECIFICATION DailySpec
CONSTANTS
  DailyRuns = {d1}
  DayHours = 2
  ForceHour = 1
  LastHour = 4
  MaxActivities = 2
CHECK_DEADLOCK FALSE
INVARIANT EveryEventIsCounted
