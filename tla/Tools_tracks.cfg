SPECIFICATION Spec
CONSTANTS
  Sessions <- DcpSessions
  MaxItems = 2
  MaxKills = 1
INVARIANT
  VideoIsFound
CHECK_DEADLOCK FALSE
