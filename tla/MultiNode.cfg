SPECIFICATION Spec
CONSTANTS
  NumNodes = 3
  FrameCounts = {0, 1, 4, 5}
  ChunkSizes = {0, 1, 2, 5, 7}
  Word = 8
  MaxFaults = 1
  MaxSilent = 1
INVARIANTS
  TypeOK
  ChunksPartition
  WorkIsBalanced
  FramesAreAcknowledged
PROPERTIES
  CoordinatorEnds
CHECK_DEADLOCK FALSE
