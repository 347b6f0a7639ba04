------------------------------ MODULE MCReader ------------------------------
(* TLC instances of Reader: segments with two documents or one, with and   *)
(* without tokens, the segment of an empty batch, an output whose header   *)
(* is still zero, and files cut in every region.                           *)
EXTENDS Reader

Segment(docs, tokens, whole, more) ==
  [docs |-> docs, tokens |-> tokens, whole |-> whole, more |-> more]

MCFiles ==
  {Segment(2, TRUE, 6, TRUE), Segment(1, TRUE, 6, TRUE),   \* sound
   Segment(2, FALSE, 6, TRUE),                             \* no tokens
   Segment(0, FALSE, 6, FALSE),                            \* header only
   Segment(0, FALSE, 6, TRUE),                             \* zero header
   Segment(2, TRUE, 1, FALSE)}                             \* cut after the header
  \union {Segment(2, TRUE, whole, TRUE) : whole \in 1 .. 5}
  \union {Segment(2, TRUE, 0, FALSE)}

MCBatches == {[docs |-> 2, tokens |-> TRUE], [docs |-> 1, tokens |-> FALSE],
              [docs |-> 0, tokens |-> FALSE]}
=============================================================================
