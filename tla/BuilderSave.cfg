SPECIFICATION Spec
CONSTANTS
  Inputs <- MCInputs
  HeaderBatch = 2
CHECK_DEADLOCK FALSE
INVARIANTS
  TypeOK
  BuiltIndexes
  SizeExact
  CrashedSaveRejected
