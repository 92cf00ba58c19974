------------------------------ MODULE Semaphore ------------------------------
(***************************************************************************)
(* ipc/semaphore.c: threads wait for and post one semaphore, with the tick *)
(* interrupt and the timeouts of the waits coming in between, and destroy  *)
(* and set it up again.                                                    *)
(***************************************************************************)
EXTENDS Ipc

CONSTANTS
    Sem,               \* the suspend list of the semaphore
    InitValue,         \* the value given to sk_sem_init
    SK_SEM_VALUE_MAX

ASSUME SemaphoreAssumption ==
    /\ Sem \in WaitList
    /\ SK_SEM_VALUE_MAX \in Nat
    /\ InitValue \in 0 .. SK_SEM_VALUE_MAX

VARIABLES
    value,    \* sem->value
    life,     \* "live", "closing" while sk_sem_destroy runs, then "dead"
              \* (unlinked from the object list and given to sk_free)
    wait,     \* history: the blocking sk_sem_wait each thread is in
    took      \* history: whether a post has handed it a unit

semVars == <<value, life>>
history == <<wait, took>>
vars == <<sched, timer, tick, remain_tick, in_isr, cursor, cpu, frame,
          irq_switch, pc, value, life, wait, took>>

Labels == {"run", "sched", "ret", "test", "wake"}

TypeOK ==
    /\ KernelTypeOK
    /\ pc \in [Thread -> Labels]
    /\ value \in 0 .. SK_SEM_VALUE_MAX
    /\ life \in {"live", "closing", "dead"}
    /\ wait \in [Thread -> {"no", "timed", "forever"}]
    /\ took \in [Thread -> BOOLEAN]

\* sk_sem_init has run before the scheduler starts.
Init ==
    /\ KernelInit
    /\ value = InitValue
    /\ life = "live"
    /\ wait = [t \in Thread |-> "no"]
    /\ took = [t \in Thread |-> FALSE]

Waiters == sched.list[Sem]

\* The application calls the semaphore only while it is live.
MayCall(t) == At(t, "run") /\ life = "live"

Goto(t, label) == pc' = [pc EXCEPT ![t] = label]

-----------------------------------------------------------------------------
(* sk_sem_wait; sk_sem_trywait is the case time = 0 *)

WaitTakes(t) ==
    /\ MayCall(t)
    /\ value > 0
    /\ value' = value - 1
    /\ UNCHANGED <<kernelVars, life, history>>

\* SK_ETIMEOUT, with nothing changed.
WaitRefused(t, time) ==
    /\ MayCall(t)
    /\ value = 0
    /\ time = 0
    /\ UNCHANGED vars

WaitBlocks(t, time) ==
    /\ MayCall(t)
    /\ value = 0
    /\ time # 0
    /\ BlockOn(t, Sem, time, FLAG)
    /\ wait' = [wait EXCEPT ![t] = IF time > 0 THEN "timed" ELSE "forever"]
    /\ UNCHANGED <<semVars, took>>

\* The sk_schedule that ends a blocking wait or a post that wakes.
Schedule(t) ==
    /\ Reschedule(t, "ret")
    /\ UNCHANGED <<semVars, history>>

\* The thread runs again after that sk_schedule, and the call returns SK_EOK.
Returns(t) ==
    /\ At(t, "ret")
    /\ Goto(t, "run")
    /\ wait' = [wait EXCEPT ![t] = "no"]
    /\ took' = [took EXCEPT ![t] = FALSE]
    /\ UNCHANGED <<sched, timer, timeVars, isrVars, cpuVars, semVars>>

-----------------------------------------------------------------------------
(* sk_sem_post *)

\* Mutant: the unit is also counted when a waiter gets it.
PostWakesAndCounts(t) ==
    /\ MayCall(t)
    /\ Waiters # <<>>
    /\ sched' = ResumeHead(sched, Sem)
    /\ value' = IF value < SK_SEM_VALUE_MAX THEN value + 1 ELSE value
    /\ took' = [took EXCEPT ![Head(Waiters)] = TRUE]
    /\ Goto(t, "sched")
    /\ UNCHANGED <<timer, timeVars, isrVars, cpuVars, life, wait>>

\* The unit goes to the thread at the head; value stays as it is.
PostWakes(t) ==
    /\ MayCall(t)
    /\ Waiters # <<>>
    /\ sched' = ResumeHead(sched, Sem)
    /\ took' = [took EXCEPT ![Head(Waiters)] = TRUE]
    /\ Goto(t, "sched")
    /\ UNCHANGED <<timer, timeVars, isrVars, cpuVars, semVars, wait>>

\* SK_EFULL at the limit.
PostCounts(t) ==
    /\ MayCall(t)
    /\ Waiters = <<>>
    /\ value' = IF value < SK_SEM_VALUE_MAX THEN value + 1 ELSE value
    /\ UNCHANGED <<kernelVars, life, history>>

-----------------------------------------------------------------------------
(* sk_sem_destroy, whose loop tests the list with interrupts enabled *)

Destroy(t) ==
    /\ MayCall(t)
    /\ life' = "closing"
    /\ Goto(t, "test")
    /\ UNCHANGED <<sched, timer, timeVars, isrVars, cpuVars, value, history>>

\* Mutant: the test is the wrong way round.
DestroyTestsInverted(t) ==
    /\ At(t, "test")
    /\ IF Waiters # <<>>
       THEN Goto(t, "run") /\ life' = "dead"
       ELSE Goto(t, "wake") /\ UNCHANGED life
    /\ UNCHANGED <<sched, timer, timeVars, isrVars, cpuVars, value, history>>

DestroyTests(t) ==
    /\ At(t, "test")
    /\ IF Waiters = <<>>
       THEN Goto(t, "run") /\ life' = "dead"
       ELSE Goto(t, "wake") /\ UNCHANGED life
    /\ UNCHANGED <<sched, timer, timeVars, isrVars, cpuVars, value, history>>

\* The last waiter may have timed out since the test.  The list head is then
\* taken for the tlist of a thread, whose stat is the low byte of sem->value,
\* and is linked in a ready list when that says SUSPEND.
DestroyWakes(t) ==
    /\ At(t, "wake")
    /\ Goto(t, "test")
    /\ sched' = IF Waiters # <<>> THEN ResumeHead(sched, Sem)
                ELSE [sched EXCEPT !.relinked = @ \/ value % 256 = SK_THREAD_SUSPEND]
    /\ UNCHANGED <<timer, timeVars, isrVars, cpuVars, semVars, history>>

\* sk_sem_init on the memory of a destroyed semaphore.
SemInit(t) ==
    /\ At(t, "run")
    /\ life = "dead"
    /\ life' = "live"
    /\ value' = InitValue
    /\ sched' = [sched EXCEPT !.list[Sem] = <<>>]
    /\ UNCHANGED <<timer, timeVars, isrVars, cpuVars, pc, history>>

-----------------------------------------------------------------------------

Call(t) ==
    \/ WaitTakes(t)
    \/ \E time \in Timeouts : WaitRefused(t, time) \/ WaitBlocks(t, time)
    \/ PostWakes(t) \/ PostCounts(t)
    \/ Destroy(t) \/ SemInit(t)

Proceed(t) == Schedule(t) \/ Returns(t) \/ DestroyTests(t) \/ DestroyWakes(t)

Machine ==
    /\ (\E t \in Thread : BootCreate(t)) \/ SchedulerStart \/ Interrupt
    /\ UNCHANGED <<semVars, history>>

\* The sequences represent the lists of klist.h.
Exact == ~sched.relinked

Next ==
    /\ Exact
    /\ Machine \/ \E t \in App : Call(t) \/ Proceed(t)

Spec == Init /\ [][Next]_vars

-----------------------------------------------------------------------------
(* Properties *)

\* A thread blocked in sk_sem_wait is in the suspend list, where a post finds
\* it, until it is resumed or times out; and the threads there are blocked and
\* have not been given a unit yet.  Everything keeps its type.
BlockedExactlyListed ==
    /\ TypeOK
    /\ Exact =>
          \A t \in Thread :
             LinkedIn(sched, t, Sem) <=>
                sched.stat[t] = SK_THREAD_SUSPEND /\ wait[t] # "no" /\ ~took[t]

\* A blocked thread's timer runs if the wait has a timeout, and only then: a
\* timer left over from an earlier wait does not end a wait without timeout.
TimedAsAsked ==
    Exact =>
       \A t \in Thread :
          wait[t] # "no" /\ sched.stat[t] = SK_THREAD_SUSPEND =>
             IF wait[t] = "timed" THEN t \in timer.active /\ InList(timer, t)
                                  ELSE t \notin timer.active

\* When sk_sem_destroy frees the semaphore, nobody is left waiting for it.  The
\* timeout of the last waiter between the test and the body of the loop of
\* __ipc_list_resume_all does no harm: the list head, taken for a thread, does
\* not look suspended.
DestroyLeavesNobody ==
    /\ Exact /\ life = "dead" =>
          \A t \in Thread : wait[t] # "no" => sched.stat[t] # SK_THREAD_SUSPEND
    /\ \A t \in App :
          At(t, "wake") /\ Waiters = <<>> => value % 256 # SK_THREAD_SUSPEND

\* The suspend list and the waits with a timeout running, out of the kernel.
Abstract == INSTANCE SemSpec WITH
    WaitList <- {Sem}, Flag <- FLAG,
    First <- InitValue, Limit <- SK_SEM_VALUE_MAX, count <- value,
    queue <- [l \in {Sem} |-> Waiters],
    timed <- {t \in timer.active : LinkedIn(sched, t, Sem)}

\* Whatever threads, ticks and timeouts do, the value and the suspend list
\* change only as those of a counting semaphore: who waits gets a unit from
\* the head of the list, or leaves when the timeout it gave runs out.
IsSemaphore == Abstract!Spec

\* What ipc.h says of suspend_thread, "threads pended on this resource": a
\* thread in the list is pended.
ListedArePended ==
    \A t \in Thread :
       LinkedIn(sched, t, Sem) => Masked(sched.stat[t]) = SK_THREAD_SUSPEND

=============================================================================
