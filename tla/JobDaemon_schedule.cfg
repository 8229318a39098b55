SPECIFICATION FairSpec
CONSTANTS
  MaxJobs = 2
  Priorities <- MCPriorities
  Deps = {0, 1, 2}
  MaxCrash = 0
  MaxSlack = 0
INVARIANTS
  BestSoFar
  StartedAfterDependency
  PauseHolds
PROPERTIES
  FinishedIsFinal
  ReadyJobIsTaken
  RunningJobEnds
