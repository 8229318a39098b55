SPECIFICATION Spec
CONSTANTS
  Folders = {"f1", "f2"}
  Pieces = 2
  MediaAt = 1
  Actions <- TwoActions
  Inotify = TRUE
  MaxMoves = 1
  MaxStarts = 2
INVARIANTS
  TypeOK
  EveryActionRuns
PROPERTIES
  ContentIsProcessed
CHECK_DEADLOCK FALSE
