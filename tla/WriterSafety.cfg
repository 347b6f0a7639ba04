SPECIFICATION Spec
CONSTANTS
  Clients = {c1, c2}
  Batches = {b1, b2, b3, b4, b5}
  NoBatch = none
  MaxWorkers = 0
  NumCPU = 2
  MaxSegments = 11
  Faults = {"list", "save", "load", "merge"}
  MaxFaults = 2
SYMMETRY WriterSymmetry
INVARIANTS
  TypeOK
  SafetyInv
  NothingLost
  ExactlyOnce
  NoDebris
  ReaderSeesAll
  ErrorsHaveRoom
PROPERTIES
  MergedToUnit
  RoundConsumesInputs
  ImmutableSegments
  ImplementsCorpus
