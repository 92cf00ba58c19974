----------------------------- MODULE MCThreadApi -----------------------------
(* Instances of ThreadApi for TLC. *)
EXTENDS ThreadApi

CONSTANTS a, b, c, idle, debug_timer

\* a above b and c, kidle below all.
RankedPriority == [t \in Thread |-> IF t = a THEN 0 ELSE
                                    IF t = idle THEN 2 ELSE 1]

\* All application threads alike, kidle below.
EqualPriority == [t \in Thread |-> IF t = idle THEN 1 ELSE 0]

\* Slices short enough to run out inside every call.
ShortSlice == [t \in Thread |-> IF t = idle THEN 1 ELSE 2]

\* Every user timer fires at every tick, unless its timeout wraps.
UnitPeriod == [x \in UserTimer |-> 1]

\* Slices that end at every tick.
UnitSlice == [t \in Thread |-> 1]
=============================================================================
