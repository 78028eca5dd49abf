SPECIFICATION Spec
CONSTANTS
  DaysPerWeek = 2
  MonthStarts <- MCMonthStarts
  LastDay = 3
  daily = daily
  weekly = weekly
  low = low
  high = high
  DailyTask <- MCDailyTask
  WeeklyTask <- MCWeeklyTask
  PointChoice <- MCPoints
  RequiredChoice <- MCRequired
  Rule <- NoRule
  ThresholdChoice <- NoChoice
  MaxEdits = 0
  j1 = j1
  v1 = v1
  Job = {j1}
  Viewer = {v1}
  Ordered = TRUE
  MaxFailures = 0
INVARIANTS
  TotalsExact
