------------------------------- MODULE MCSlab -------------------------------
(***************************************************************************)
(* Slab on a small heap, with the page and the zone size of the code.      *)
(* Requests just below the limit of the zones keep the chunks of a zone    *)
(* few: three for 8000 bytes, four for 7000.  9000 bytes are a large block *)
(* of three pages.                                                         *)
(***************************************************************************)
EXTENDS Slab

FewBlocks == [n \in {8000, 7000, 9000} |-> CASE n = 8000 -> 7 [] n = 7000 -> 1 [] n = 9000 -> 2]

TwoOfEach == [n \in {1152, 1153} |-> 2]
=============================================================================
