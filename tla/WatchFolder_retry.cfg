SPECIFICATION Spec
CONSTANTS
  Folders = {"f1"}
  Pieces = 2
  MediaAt = 1
  Actions <- TwoActions
  Inotify = TRUE
  MaxMoves = 0
  MaxStarts = 1
PROPERTIES
  ArrivingIsRetried
CHECK_DEADLOCK FALSE
