SPECIFICATION FairSpec
CONSTANTS
  Pairs <- MCPairs
  HeaderBatch = 2
  ChunkSize = 3
  StopBelow = 2
  MaxLost = 1
CHECK_DEADLOCK FALSE
INVARIANTS
  TypeOK
  MergedIndexes
  ReadsAsNothing
  PassesAgree
PROPERTIES
  MergeEnds
