--------------------------------- MODULE Ipc ---------------------------------
(***************************************************************************)
(* What the IPC objects share (ipc/ipc_base.c and the blocking half that   *)
(* semaphore.c, mutex.c, event.c, mailbox.c and msg_queue.c repeat): a     *)
(* thread joins the suspend list of an object, with or without a timeout,  *)
(* and is resumed from the head of it.                                     *)
(*                                                                         *)
(* A thread between the end of its critical section and its sk_schedule is *)
(* SUSPENDed, in a suspend list, and still has the CPU.  A tick that ends  *)
(* its time slice there makes sk_schedule link it in a ready list as well  *)
(* (sched.relinked).  The sequences of Sched do not represent klist.h's    *)
(* pointers from then on, so the specifications built on this module end   *)
(* there: their next-state relations require ~sched.relinked.              *)
(***************************************************************************)
EXTENDS Kernel

CONSTANTS
    Times,   \* the positive timeouts the application uses, in ticks
    FLAG     \* parent.flag of the object: how its suspend list is ordered

SK_IPC_FLAG_FIFO == 0
SK_IPC_FLAG_PRIO == 1

FOREVER == -1

ASSUME IpcAssumption ==
    /\ Times \subseteq Tick \ {0}
    /\ FLAG \in {SK_IPC_FLAG_FIFO, SK_IPC_FLAG_PRIO}

App == Thread \ {Idle}

Timeouts == Times \cup {0, FOREVER}

\* In front of the first thread of lower priority, else at the end.
PrioPosition(q, t) ==
    LET later == {i \in 1 .. Len(q) : Priority[t] < Priority[q[i]]}
    IN  IF later = {} THEN Len(q) + 1 ELSE Min(later)

sk_list_insert(s, h, i, t) ==
    [s EXCEPT !.list[h] = InsertAt(@, i, t),
              !.relinked = @ \/ Linked(s, t)]

\* Mutant: the thread is not marked SUSPEND.
ListSuspendStaysRunning(s, h, t, flag) ==
    IF flag = SK_IPC_FLAG_PRIO
    THEN sk_list_insert(s, h, PrioPosition(s.list[h], t), t)
    ELSE sk_list_add_tail(s, h, t)

\* __ipc_list_suspend: the scheduler's part of sk_thread_suspend, then the link.
ipc_list_suspend(s, h, t, flag) ==
    LET d == IF MaySuspend(s, t) THEN SuspendThread(s, t) ELSE s
    IN  IF flag = SK_IPC_FLAG_PRIO
        THEN sk_list_insert(d, h, PrioPosition(d.list[h], t), t)
        ELSE sk_list_add_tail(d, h, t)

\* Mutant: a timer left over from an earlier wait goes on.
WaitTimerGoesOn(s, m, t, time, now) ==
    IF time > 0 THEN StartWith(m, t, time, now) ELSE m

\* The thread's timer after sk_thread_suspend and, for a timed wait, its start.
WaitTimer(s, m, t, time, now) ==
    LET stopped == IF MaySuspend(s, t) THEN sk_timer_stop(m, t) ELSE m
    IN  IF time > 0 THEN StartWith(stopped, t, time, now) ELSE stopped

\* The calling thread t joins suspend list h; sk_schedule comes next.
BlockOn(t, h, time, flag) ==
    /\ sched' = ipc_list_suspend(sched, h, t, flag)
    /\ timer' = WaitTimer(sched, timer, t, time, tick)
    /\ pc' = [pc EXCEPT ![t] = "sched"]
    /\ UNCHANGED <<timeVars, isrVars, cpuVars>>

\* sk_thread_resume of the thread at the head of suspend list h.
ResumeHead(s, h) == sk_thread_resume(s, Head(s.list[h]))

=============================================================================
