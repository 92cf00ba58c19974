------------------------------- MODULE MCMutex -------------------------------
(* An instance of Mutex for TLC. *)
EXTENDS Mutex

CONSTANTS a, b, c, d, mtx

\* a above b, and b above c and d.
RankedPriority == [t \in Thread |-> IF t = a THEN 0 ELSE
                                    IF t = b THEN 1 ELSE 2]
=============================================================================
