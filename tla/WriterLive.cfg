SPECIFICATION FairSpec
CONSTANTS
  Clients = {c1}
  Batches = {b1, b2, b3}
  NoBatch = none
  MaxWorkers = 0
  NumCPU = 1
  MaxSegments = 7
  Faults = {"list", "load", "merge", "flush", "remove", "restart"}
  MaxFaults = 2
PROPERTIES
  MergeTerminates
