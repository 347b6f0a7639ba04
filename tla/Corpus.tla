------------------------------- MODULE Corpus -------------------------------
(***************************************************************************)
(* What textiplex.Writer promises its caller (README, "Writer"): the       *)
(* documents of the acknowledged batches, partitioned into segments.       *)
(* A Batch call adds its documents as one new segment, all of them or none.*)
(* Merging joins two segments into one and changes nothing else.  Merge    *)
(* answers "ok" only when a single segment is left.                        *)
(***************************************************************************)
EXTENDS FiniteSets

CONSTANT Batches   \* the batches that may be indexed

VARIABLES
  blocks,   \* the segments: disjoint, non-empty sets of batches
  answer    \* what the last Merge call returned: "none" while it runs

vars == <<blocks, answer>>

Init ==
  /\ blocks = {}
  /\ answer = "none"

Add(b) ==
  /\ b \notin UNION blocks
  /\ blocks' = blocks \union {{b}}
  /\ UNCHANGED answer

Call ==
  /\ answer' = "none"
  /\ UNCHANGED blocks

Join(p, q) ==
  /\ p # q
  /\ blocks' = (blocks \ {p, q}) \union {p \union q}
  /\ UNCHANGED answer

ReturnOk ==
  /\ Cardinality(blocks) = 1
  /\ answer' = "ok"
  /\ UNCHANGED blocks

ReturnFailed ==
  /\ answer' = "failed"
  /\ UNCHANGED blocks

Next ==
  \/ \E b \in Batches : Add(b)
  \/ Call
  \/ \E p, q \in blocks : Join(p, q)
  \/ ReturnOk
  \/ ReturnFailed

Spec == Init /\ [][Next]_vars
=============================================================================
