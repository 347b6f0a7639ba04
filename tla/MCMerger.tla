------------------------------ MODULE MCMerger ------------------------------
(* TLC instances of Merger.                                                *)
EXTENDS Merger

Field(tokens, length) == [tokens |-> tokens, length |-> length]

(* Documents with one, two or no common fields, and common or disjoint     *)
(* tokens in them.                                                         *)
D1 == [id |-> 1, fields |-> [f |-> Field(1 :> 2 @@ 2 :> 1, 3), g |-> Field(2 :> 1, 1)]]
D2 == [id |-> 2, fields |-> [f |-> Field(2 :> 4, 4), h |-> Field(1 :> 1, 1)]]
D3 == [id |-> 3, fields |-> [f |-> Field(<< >>, 0), g |-> Field(3 :> 1, 1)]]
D4 == [id |-> 4, fields |-> [h |-> Field(1 :> 1 @@ 3 :> 1, 2), f |-> Field(3 :> 1, 1)]]

Batches(docs, n) == {s \in BoundedSeq(docs, n) : IsInjective(s)}

(* Posting lists of B of up to seven documents: two and a half chunks.     *)
Same(n) == [id |-> n, fields |-> [f |-> Field(1 :> 1, 1)]]
LongPairs ==
  {<<[k \in 1 .. m |-> Same(k)], [k \in 1 .. n |-> Same(m + k)]>> :
     m \in 0 .. 2, n \in 0 .. 7}

(* Every two disjoint batches of at most two of D1 to D4, and LongPairs.   *)
MCPairs ==
  LongPairs \union
  {p \in Batches({D1, D2, D3, D4}, 2) \X Batches({D1, D2, D3, D4}, 2) :
     Range(p[1]) \intersect Range(p[2]) = {}}
=============================================================================
