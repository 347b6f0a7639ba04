------------------------------ MODULE MCWriter ------------------------------
(* TLC instances of Writer: symmetry of the clients and of the batches.    *)
EXTENDS Writer, TLC

ASSUME BoundAssumption ==
  (* The bound on SegmentCounter is never what stops a step: each batch    *)
  (* and each join of two segments takes one number, each failure one more.*)
  MaxSegments >= 2 * Cardinality(Batches) - 1 + MaxFaults

WriterSymmetry == Permutations(Clients) \union Permutations(Batches)
=============================================================================
