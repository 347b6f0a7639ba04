SPECIFICATION Spec
CONSTANTS
  MaxByte = 1
  MaxLength = 4
  Keywords <- MCKeywords
  Vocabularies <- MCVocabularies
  Ks = {1, 2}
  Ms = {0, 2}
CHECK_DEADLOCK FALSE
INVARIANTS
  TypeOK
  MatchesAll
  MatchersAgree
PROPERTIES
  PivotsAscend
