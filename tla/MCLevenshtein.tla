---------------------------- MODULE MCLevenshtein ----------------------------
(* TLC instances of Levenshtein: words over two bytes, of which the higher *)
(* is the highest there is.                                                *)
EXTENDS Levenshtein

MCWords == BoundedSeq(Bytes, 3)
MCKeywords == BoundedSeq(Bytes, 2) \union {<<0, 1, 0>>, <<1, 1, 0>>, <<0, 0, 1, 1>>}

(* Sets of three short words, no words, all of them, and those with words  *)
(* of MaxLength and more bytes besides, which are near the keywords too.   *)
MCVocabularies ==
  {V \in SUBSET MCWords : Cardinality(V) = 3}
  \union {{}, MCWords, BoundedSeq(Bytes, 5)}
=============================================================================
