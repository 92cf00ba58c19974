------------------------------- MODULE SemSpec -------------------------------
(***************************************************************************)
(* What a counting semaphore promises, without scheduler, timers or        *)
(* interrupts: a number of free units, and a suspend list of threads that  *)
(* wait only while there is none.  Units are handed over in the order of   *)
(* the list; a thread leaves it without a unit only when its timeout runs  *)
(* out, or from the head when the semaphore ends.                          *)
(***************************************************************************)
EXTENDS Wait

CONSTANTS
    Sem,         \* the suspend list
    Flag,        \* how it is ordered
    First,       \* the units there are at the start
    Limit        \* the most units the semaphore can hold

VARIABLE count

Init == count = First /\ WaitInit

Take ==
    /\ count > 0
    /\ count' = count - 1
    /\ UNCHANGED <<queue, timed>>

Enqueue ==
    /\ count = 0
    /\ \E t \in Thread, time \in {1, FOREVER} :
          ~Blocked(t) /\ Block(t, Sem, time, Flag)
    /\ UNCHANGED count

\* To the first in line; the end of the semaphore wakes in the same order.
Give ==
    \/ /\ queue[Sem] # <<>>
       /\ Wake(Sem)
       /\ UNCHANGED count
    \/ /\ queue[Sem] = <<>>
       /\ count < Limit
       /\ count' = count + 1
       /\ UNCHANGED <<queue, timed>>

GiveUp ==
    /\ \E t \in Thread : Expire(t)
    /\ UNCHANGED count

\* A new semaphore in the place of one nobody waits for.
Renew ==
    /\ queue[Sem] = <<>>
    /\ count' = First
    /\ UNCHANGED <<queue, timed>>

Next == Take \/ Enqueue \/ Give \/ GiveUp \/ Renew

Spec == Init /\ [][Next]_<<count, queue, timed>>

=============================================================================
