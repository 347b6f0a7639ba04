SPECIFICATION Spec
CONSTANTS
  Searches <- Plain
  Followups <- MCFollowups
  Sought <- MCSought
  Half = 8
  Letters = {"a", "b", "s"}
  Digits = {"1", "2"}
  NumSeps = {"."}
  Texts <- MCTexts
  Bytes <- MCBytes
  Stemmer <- MCStemmer
  Stopwords <- MCStopwords
  BM25 = "bm25"
  Open = 0
  LevenshteinMaxK = 1
  LevenshteinM = 1
  Unrolls <- MCUnrolls
  Scale = 12
CHECK_DEADLOCK FALSE
INVARIANTS
  RangeKeepsFirst
