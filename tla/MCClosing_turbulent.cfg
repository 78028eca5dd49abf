SPECIFICATION Spec
CONSTANTS
  DaysPerWeek = 2
  MonthStarts <- WeeklyMonthStarts
  LastDay = 3
  daily = daily
  weekly = weekly
  low = low
  high = high
  DailyTask <- NoTask
  WeeklyTask <- MCWeeklyTask
  PointChoice <- WeeklyPoints
  RequiredChoice <- MCRequired
  Rule = {low}
  ThresholdChoice <- WeeklyThreshold
  MaxEdits = 0
  j1 = j1
  j2 = j2
  v1 = v1
  Job = {j1, j2}
  Viewer = {v1}
  Ordered = FALSE
  MaxFailures = 1
SYMMETRY JobSymmetry
INVARIANTS
  NeverOvercharged
  RunsAreContiguous
  NoUndueRules
