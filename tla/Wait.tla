--------------------------------- MODULE Wait ---------------------------------
(***************************************************************************)
(* Threads that block, as an IPC object sees them: the suspend lists of    *)
(* ipc_base.c, who in them has a timeout running, and where each thread is *)
(* in the call it makes.                                                   *)
(*                                                                         *)
(* The scheduler is left out: any thread that is in no suspend list may    *)
(* take the next step, so sk_schedule needs no step of its own.  A timeout *)
(* comes at any moment.  This allows every order that priorities, slices   *)
(* and ticks can produce, and more.  Semaphore.tla shows, over the         *)
(* scheduler, timers and interrupts of Kernel.tla, that a suspend list     *)
(* takes just these steps (SemSpec.tla is built on this module).           *)
(***************************************************************************)
EXTENDS Integers, Sequences, SequencesExt

CONSTANTS
    Thread,
    Priority,     \* thread->current_pri, 0 the highest
    WaitList      \* the suspend lists

VARIABLES
    queue,    \* each suspend list, from its head
    timed,    \* the blocked threads whose thread_timer runs
    pc        \* the place each thread has reached

SK_IPC_FLAG_FIFO == 0
SK_IPC_FLAG_PRIO == 1

\* The timeouts of the blocking calls: none, some ticks, for ever.
FOREVER == -1
Timeouts == {0, 1, FOREVER}

WaitTypeOK ==
    /\ queue \in [WaitList -> Seq(Thread)]
    /\ timed \in SUBSET Thread

WaitInit ==
    /\ queue = [l \in WaitList |-> <<>>]
    /\ timed = {}

Blocked(t) == \E l \in WaitList : Contains(queue[l], t)

\* Thread t may execute its next instructions, which are those at label.
At(t, label) == pc[t] = label /\ ~Blocked(t)

Goto(t, label) == pc' = [pc EXCEPT ![t] = label]

\* In front of the first thread of lower priority, else at the end.
Position(q, t) ==
    LET later == {i \in 1 .. Len(q) : Priority[t] < Priority[q[i]]}
    IN  IF later = {} THEN Len(q) + 1 ELSE Min(later)

\* Mutant: arrival decides, whatever the flag.
JoinedLast(q, t, flag) == Append(q, t)

\* __ipc_list_suspend on the list.
Joined(q, t, flag) ==
    IF flag = SK_IPC_FLAG_PRIO THEN InsertAt(q, Position(q, t), t)
    ELSE Append(q, t)

\* Thread t joins list l, starts its timer when time > 0, and is off the CPU.
Block(t, l, time, flag) ==
    /\ queue' = [queue EXCEPT ![l] = Joined(@, t, flag)]
    /\ timed' = IF time > 0 THEN timed \cup {t} ELSE timed \ {t}

\* sk_thread_resume of the thread at the head of list l.
Wake(l) ==
    /\ queue' = [queue EXCEPT ![l] = RemoveFirst(@, Head(@))]
    /\ timed' = timed \ {Head(queue[l])}

\* sk_thread_timeout of a blocked thread.
Expire(t) ==
    /\ t \in timed
    /\ queue' = [l \in WaitList |-> RemoveFirst(queue[l], t)]
    /\ timed' = timed \ {t}

=============================================================================
