SPECIFICATION Spec
CONSTANTS
  MaxJobs = 1
  Priorities <- OnePriority
  Deps = {0}
  MaxCrash = 0
  MaxSlack = 0
PROPERTIES
  CancelSticks
