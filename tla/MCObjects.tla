------------------------------ MODULE MCObjects ------------------------------
(* Instances of Objects for TLC. *)
EXTENDS Objects

CONSTANTS a, b, c, v0, v1

\* a above b and c.
RankedPriority == [t \in Thread |-> IF t = a THEN 0 ELSE 1]

\* The values are alike, and so are b and c.
Alike == Permutations({v0, v1}) \cup Permutations({b, c})
=============================================================================
