SPECIFICATION FairSpec
CONSTANTS
  MaxJobs = 2
  Priorities <- OnePriority
  Deps = {0}
  MaxCrash = 0
  MaxSlack = 0
PROPERTIES
  QueueMoves
