SPECIFICATION Spec
CONSTANTS
  MaxJobs = 3
  Priorities <- OnePriority
  Deps = {0}
  MaxCrash = 1
  MaxSlack = 0
INVARIANTS
  TypeOK
  OneRunning
  RunningIsWorked
  QuietStoreRestores
  AckedSurvive
  IdsGrow
