SPECIFICATION Spec
CONSTANTS
  Clients = {c1}
  Batches = {b1, b2}
  NoBatch = none
  MaxWorkers = 0
  NumCPU = 2
  MaxSegments = 4
  Faults = {"restart"}
  MaxFaults = 1
SYMMETRY WriterSymmetry
PROPERTIES
  ImmutableSegments
