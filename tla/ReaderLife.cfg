SPECIFICATION Spec
CONSTANTS
  Files <- MCFiles
  Batches <- MCBatches
  MaxOrigins = 3
CHECK_DEADLOCK FALSE
INVARIANTS
  TypeOK
  QueriesReadCurrent
  SavesCurrent
  SearcherMeansOpen
  NothingLeaks
  LoopsAnswerCurrent
