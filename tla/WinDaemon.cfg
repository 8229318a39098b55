SPECIFICATION Spec
CONSTANTS
  MaxJobs = 3
  Deps = {0, 1}
  Clients = {"c1"}
  MaxCrash = 1
INVARIANTS
  TypeOK
  AckedSurvive
  RefusedLeavesNothing
PROPERTIES
  Lifecycle
  BacklogDrains
