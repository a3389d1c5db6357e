SPECIFICATION FairSpec
CONSTANTS
  Stages = 2
  MaxTasks = 1
  MaxRuns = 3
  MaxRaises = 1
  MaxFaults = 1
  MaxKills = 1
  MaxExits = 1
INVARIANTS
  ActiveHasRun
  SuccessIsTrue
  AnswersAgree
PROPERTIES
  TasksSettle
CHECK_DEADLOCK FALSE
