SPECIFICATION Spec
CONSTANTS
  DaysPerWeek = 2
  MonthStarts <- MCMonthStarts
  LastDay = 4
  daily = daily
  weekly = weekly
  low = low
  high = high
  DailyTask <- MCDailyTask
  WeeklyTask <- MCWeeklyTask
  PointChoice <- MCPoints
  RequiredChoice <- MCRequired
  Rule <- NoRule
  ThresholdChoice <- NoChoice
  MaxEdits = 0
  j1 = j1
  Job = {j1}
  Viewer = {}
  Ordered = TRUE
  MaxFailures = 0
INVARIANTS
  TypeOK
  TotalsExact
  ClosedMonthsAreComplete
  NothingIsBlocked
  StatusExplainsTotals
PROPERTIES
  DebtsAreSealed
