------------------------------ MODULE Numeric ------------------------------
(***************************************************************************)
(* The sortable encodings of numbers (src/numeric): integers and floats as *)
(* unsigned words whose order, the order of their big-endian bytes, is that*)
(* of the numbers.  A word is a number below Full; the code's are 64 bits  *)
(* wide, Half being 2^63.                                                  *)
(*                                                                         *)
(* A float is its bit pattern: a sign and a magnitude, which is the order  *)
(* of the floats of one sign.  NaNs are the greatest magnitudes.           *)
(***************************************************************************)
EXTENDS Integers

CONSTANT Half   \* the weight of the top bit of a word

ASSUME NumericAssumption == Half \in Nat \ {0}

Full == 2 * Half
Word == 0 .. Full - 1
Integer == (-Half) .. (Half - 1)
Float == [neg : BOOLEAN, mag : 0 .. Half - 1]

(* uint64 of a negative number, and ^ (1 << 63).                           *)
Unsigned(v) == IF v < 0 THEN v + Full ELSE v
Signed(u) == IF u >= Half THEN u - Full ELSE u
FlipTop(u) == IF u >= Half THEN u - Half ELSE u + Half

PutSortableInteger(v) == FlipTop(Unsigned(v))
DecodeInteger(u) == Signed(FlipTop(u))

Float64bits(x) == IF x.neg THEN Half + x.mag ELSE x.mag
Float64frombits(u) == IF u >= Half THEN [neg |-> TRUE, mag |-> u - Half]
                                   ELSE [neg |-> FALSE, mag |-> u]
FlipAll(u) == Full - 1 - u

BadPutSortableFloat(x) == FlipTop(Float64bits(x))   \* negatives descend

PutSortableFloat(x) ==
  IF Float64bits(x) >= Half THEN FlipAll(Float64bits(x)) ELSE FlipTop(Float64bits(x))
DecodeFloat(u) == Float64frombits(IF u >= Half THEN FlipTop(u) ELSE FlipAll(u))

(* Time.UnixNano: nanoseconds since 1970 that do not fit wrap around.      *)
UnixNano(t) == ((t + Half) % Full) - Half

(* The order of floats: that of the numbers, -0 before 0.                  *)
Rank(x) == IF x.neg THEN -1 - x.mag ELSE x.mag
=============================================================================
