----------------------------- MODULE MCBuilder -----------------------------
(* TLC instances of Builder: documents that share fields and tokens, miss  *)
(* a field, have an empty field, or a field of another document only.      *)
EXTENDS Builder

Field(tokens, length) == [tokens |-> tokens, length |-> length]

(* A text field of tokens 1 and 2, a keyword field of token 2.             *)
D1 == [id |-> "d1", fields |-> [f |-> Field(1 :> 2 @@ 2 :> 1, 3), g |-> Field(2 :> 1, 1)]]
(* Token 2 only, more often; the other field is absent.                    *)
D2 == [id |-> "d2", fields |-> [f |-> Field(2 :> 4, 4)]]
(* An empty text field, and a keyword of its own.                          *)
D3 == [id |-> "d3", fields |-> [f |-> Field(<< >>, 0), g |-> Field(3 :> 1, 1)]]
(* No fields at all.                                                       *)
D4 == [id |-> "d4", fields |-> << >>]

MCInputs ==
  {<< >>} \union {s \in BoundedSeq({D1, D2, D3, D4}, 3) : IsInjective(s)}
=============================================================================
