------------------------------ MODULE MCConsole ------------------------------
(* An instance of Console for TLC. *)
EXTENDS Console

CONSTANTS u0, u1, n0, n1, x, y
=============================================================================
