SPECIFICATION Spec
CONSTANTS
  Sessions <- MCSessions
  MaxItems = 2
  MaxKills = 1
INVARIANTS
  TypeOK
  ZeroMeansWhole
  TallyIsExplained
  ChainKeepsFrames
PROPERTY
  CommandsEnd
CHECK_DEADLOCK FALSE
