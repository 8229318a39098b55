SPECIFICATION Spec
CONSTANTS
  Dirs = {"d1", "d2"}
  MaxOps = 2
  MaxFrames = 2
  Editors = {"e1"}
  Requests <- SomeRequests
INVARIANTS
  TypeOK
  PklMatchesDisk
  MapIsClosed
  FailureIsUnlisted
  SupplementHasOv
CHECK_DEADLOCK FALSE
