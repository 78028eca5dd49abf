SPECIFICATION FairSpec
CONSTANTS
  DaysPerWeek = 2
  MonthStarts <- WeeklyMonthStarts
  LastDay = 3
  daily = daily
  weekly = weekly
  low = low
  high = high
  DailyTask <- NoTask
  WeeklyTask <- MCWeeklyTask
  PointChoice <- EditedPoints
  RequiredChoice <- EditedRequired
  Rule = {low}
  ThresholdChoice <- EditedThreshold
  MaxEdits = 1
  j1 = j1
  Job = {j1}
  Viewer = {}
  Ordered = TRUE
  MaxFailures = 0
INVARIANTS
  TriggeredRulesAreDue
PROPERTIES
  
  CatchesUp
