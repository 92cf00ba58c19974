----------------------------- MODULE MCSemaphore -----------------------------
(* Instances of Semaphore for TLC. *)
EXTENDS Semaphore

CONSTANTS a, b, c, idle, sem

\* a above b and c, kidle below all.
RankedPriority == [t \in Thread |-> IF t = a THEN 0 ELSE
                                    IF t = idle THEN 2 ELSE 1]

\* Slices that run out inside the calls of a thread, and between them.
ShortSlice == [t \in Thread |-> IF t = idle THEN 1 ELSE 2]

\* There are no user timers.
NoPeriod == [x \in UserTimer |-> 0]
=============================================================================
