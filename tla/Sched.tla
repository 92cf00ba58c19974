-------------------------------- MODULE Sched --------------------------------
(***************************************************************************)
(* The scheduler's data (thread/schedule.c) and the operations on it, as   *)
(* functions from one scheduler state to the next.  Every operation runs   *)
(* with interrupts disabled, so one application is one indivisible step;   *)
(* the modules that EXTEND this one decide where a step begins and ends.   *)
(*                                                                         *)
(* A scheduler state s is a record:                                        *)
(*   current   current_thread, NULL until the scheduler is started         *)
(*   stat      thread->stat of every thread, with the bits of sched.h      *)
(*   list      the lists thread->tlist can be linked in, as sequences of   *)
(*             threads: sk_thread_prio_table[p] for a priority p, and the  *)
(*             suspend lists of the IPC objects (WaitList)                 *)
(*   group     sk_thread_ready_prio_group, as the set of priorities whose  *)
(*             bit is set                                                  *)
(*   relinked  TRUE once a tlist that was still linked in one list has     *)
(*             been added to another.  Sequences represent klist.h's       *)
(*             pointers exactly as long as this is FALSE.                  *)
(***************************************************************************)
EXTENDS Integers, Sequences, SequencesExt

CONSTANTS
    Thread,       \* every thread object, created or not
    Idle,         \* the kidle thread
    Priority,     \* thread->current_pri, which no code changes after creation
    PriorityMax,  \* SK_THREAD_PRIORITY_MAX
    WaitList,     \* the suspend lists of the IPC objects
    NULL

Prio == 0 .. PriorityMax - 1
Heads == Prio \cup WaitList

ASSUME SchedAssumption ==
    /\ Idle \in Thread
    /\ NULL \notin Thread
    /\ PriorityMax \in Nat \ {0}
    /\ Priority \in [Thread -> Prio]
    /\ Priority[Idle] = PriorityMax - 1
    /\ WaitList \cap Prio = {}

SK_THREAD_INIT == 0
SK_THREAD_READY == 1
SK_THREAD_SUSPEND == 2
SK_THREAD_RUNNING == 4
SK_THREAD_CLOSE == 8
SK_THREAD_YIELD == 16

BaseStat == {SK_THREAD_INIT, SK_THREAD_READY, SK_THREAD_SUSPEND,
             SK_THREAD_RUNNING, SK_THREAD_CLOSE}
Stat == BaseStat \cup {b + SK_THREAD_YIELD : b \in BaseStat}

\* stat & SK_THREAD_MASK
Masked(st) == IF st >= SK_THREAD_YIELD THEN st - SK_THREAD_YIELD ELSE st

\* stat | SK_THREAD_YIELD
WithYield(st) == Masked(st) + SK_THREAD_YIELD

SchedState ==
    [current  : Thread \cup {NULL},
     stat     : [Thread -> Stat],
     list     : [Heads -> Seq(Thread)],
     group    : SUBSET Prio,
     relinked : BOOLEAN]

LinkedIn(s, t, h) == Contains(s.list[h], t)

Linked(s, t) == \E h \in Heads : LinkedIn(s, t, h)

\* No tlist is in two lists, or twice in one.
LinksOnce(s) ==
    /\ ~s.relinked
    /\ \A h \in Heads : IsInjective(s.list[h])
    /\ \A t \in Thread : \A g, h \in Heads :
          LinkedIn(s, t, g) /\ LinkedIn(s, t, h) => g = h

\* A thread in a ready list is in the one of its priority.
HomeList(s) ==
    \A t \in Thread : \A p \in Prio : LinkedIn(s, t, p) => p = Priority[t]

\* The bit of a priority is set exactly when its list has a thread.
BitmapExact(s) == \A p \in Prio : p \in s.group <=> s.list[p] # <<>>

\* What every operation below relies on and preserves.
WellFormed(s) ==
    s \in SchedState /\ LinksOnce(s) /\ HomeList(s) /\ BitmapExact(s)

\* The assignments thread->stat = st and current_thread = t.
SetStat(s, t, st) == [s EXCEPT !.stat[t] = st]
SetCurrent(s, t) == [s EXCEPT !.current = t]

-----------------------------------------------------------------------------
(* klist.h, on thread->tlist *)

\* Unlinks t from the list it is in; nothing changes when it is in none.
sk_list_del(s, t) ==
    [s EXCEPT !.list = [h \in Heads |-> RemoveFirst(s.list[h], t)]]

sk_list_add_tail(s, h, t) ==
    [s EXCEPT !.list[h] = Append(@, t),
              !.relinked = @ \/ Linked(s, t)]

-----------------------------------------------------------------------------
(* schedule.c *)

\* Mutant: the highest bit set instead of the lowest.
ready_lp_prio(s) == Max(s.group)

ready_hp_prio(s) == Min(s.group)

\* The thread at the front of the list of the lowest bit set.
schedule_get_hp_thread(s) == Head(s.list[ready_hp_prio(s)])

\* Mutant: the bit of the priority is never cleared.
remove_keeps_bit(s, t) == sk_list_del(s, t)

sk_schedule_remove_thread(s, t) ==
    LET d == sk_list_del(s, t)
    IN  [d EXCEPT !.group = IF d.list[Priority[t]] = <<>>
                            THEN @ \ {Priority[t]} ELSE @]

\* Mutant: without the test for the current thread.
insert_even_current(s, t) ==
    [sk_list_add_tail(s, Priority[t], t) EXCEPT
        !.stat[t] = SK_THREAD_READY,
        !.group = @ \cup {Priority[t]}]

\* The current thread is never put in a ready list: it is just marked RUNNING.
sk_schedule_insert_thread(s, t) ==
    IF t = s.current
    THEN SetStat(s, t, SK_THREAD_RUNNING)
    ELSE [sk_list_add_tail(s, Priority[t], t) EXCEPT
             !.stat[t] = SK_THREAD_READY,
             !.group = @ \cup {Priority[t]}]

\* Mutant: a thread of equal priority preempts.
YieldsToEqual(s) ==
    /\ s.stat[s.current] = SK_THREAD_RUNNING
    /\ Priority[s.current] < ready_hp_prio(s)

\* A thread keeps the CPU only when its stat is RUNNING with no other bit.
KeepsCpu(s) ==
    /\ s.stat[s.current] = SK_THREAD_RUNNING
    /\ Priority[s.current] <= ready_hp_prio(s)

\* The preempted thread goes back to its ready list unless it has stopped.
GivesUpCpu(s, to) ==
    LET moved == SetCurrent(s, to)
    IN  IF s.stat[s.current] \in {SK_THREAD_SUSPEND, SK_THREAD_CLOSE}
        THEN moved
        ELSE sk_schedule_insert_thread(moved, s.current)

Dispatch(s, to) ==
    SetStat(sk_schedule_remove_thread(s, to), to, SK_THREAD_RUNNING)

sk_schedule(s) ==
    IF s.group = {} \/ KeepsCpu(s) \/ schedule_get_hp_thread(s) = s.current
    THEN s
    ELSE LET to == schedule_get_hp_thread(s)
         IN  Dispatch(GivesUpCpu(s, to), to)

sk_system_scheduler_start(s) ==
    LET to == schedule_get_hp_thread(s)
    IN  Dispatch(SetCurrent(s, to), to)

-----------------------------------------------------------------------------
(* The scheduling half of thread.c *)

\* The condition sk_thread_suspend tests before it disables interrupts.
MaySuspend(s, t) == Masked(s.stat[t]) \in {SK_THREAD_READY, SK_THREAD_RUNNING}

\* What sk_thread_suspend does to the scheduler once interrupts are disabled.
SuspendThread(s, t) ==
    SetStat(sk_schedule_remove_thread(s, t), t, SK_THREAD_SUSPEND)

\* The condition sk_thread_resume tests before it disables interrupts.
MayResume(s, t) == s.stat[t] = SK_THREAD_SUSPEND

\* Mutant: the thread is not taken out of the list it is in.
ResumeStaysLinked(s, t) == sk_schedule_insert_thread(s, t)

\* What sk_thread_resume does once interrupts are disabled.
ResumeThread(s, t) == sk_schedule_insert_thread(sk_list_del(s, t), t)

sk_thread_resume(s, t) == IF MayResume(s, t) THEN ResumeThread(s, t) ELSE s

\* The callback of the timer that ends a sleep or a timed wait.
sk_thread_timeout(s, t) == sk_schedule(ResumeThread(s, t))

ExitThread(s, t) ==
    sk_schedule(SetStat(sk_schedule_remove_thread(s, t), t, SK_THREAD_CLOSE))

=============================================================================
