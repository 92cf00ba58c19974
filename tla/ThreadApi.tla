------------------------------ MODULE ThreadApi ------------------------------
(***************************************************************************)
(* The thread operations of thread/thread.c, called by any thread at any   *)
(* moment, with the tick interrupt coming between any two of their steps.  *)
(*                                                                         *)
(* A step of a call ends where the code enables interrupts again or reads  *)
(* shared state before disabling them:                                     *)
(*   sk_thread_suspend/resume  test stat, then act on the earlier answer   *)
(*   sk_thread_sleep           suspend and start the timer, then schedule  *)
(*   sk_thread_create/startup  insert, then overwrite stat, then schedule  *)
(***************************************************************************)
EXTENDS Kernel

CONSTANTS
    Calls,    \* the operations the application uses
    Sleeps    \* the arguments it gives to sk_thread_sleep

CallNames == {"sleep", "suspend", "resume", "create", "exit", "timer"}

ASSUME ThreadApiAssumption ==
    /\ Calls \subseteq CallNames
    /\ Sleeps \subseteq Tick

VARIABLES
    target,   \* the thread the caller's unfinished call is about
    why       \* history: what last took a thread out of the ready lists

vars == <<sched, timer, tick, remain_tick, in_isr, cursor, cpu, frame,
          irq_switch, pc, target, why>>

App == Thread \ {Idle}

Labels == {"run", "sched", "suspend", "resume", "startup", "exit"}

TypeOK ==
    /\ KernelTypeOK
    /\ pc \in [Thread -> Labels]
    /\ target \in [Thread -> Thread \cup {NULL}]
    /\ why \in [Thread -> {"none", "sleep", "suspend"}]

Init ==
    /\ KernelInit
    /\ target = [t \in Thread |-> NULL]
    /\ why = [t \in Thread |-> "none"]

Goto(t, label) == pc' = [pc EXCEPT ![t] = label]

-----------------------------------------------------------------------------
(* sk_thread_sleep, and sk_thread_delay once ms is converted to ticks *)

Sleep(t, ticks) ==
    /\ At(t, "run")
    /\ LET stopped == IF MaySuspend(sched, t) THEN sk_timer_stop(timer, t)
                                              ELSE timer
       IN  timer' = StartWith(stopped, t, ticks, tick)
    /\ sched' = IF MaySuspend(sched, t) THEN SuspendThread(sched, t) ELSE sched
    /\ Goto(t, "sched")
    /\ why' = [why EXCEPT ![t] = "sleep"]
    /\ UNCHANGED <<timeVars, isrVars, cpuVars, target>>

\* The sk_schedule that ends sk_thread_sleep and sk_thread_startup.
Schedule(t) ==
    /\ Reschedule(t, "run")
    /\ UNCHANGED <<target, why>>

-----------------------------------------------------------------------------
(* sk_thread_suspend and sk_thread_resume *)

SuspendTest(t, u) ==
    /\ At(t, "run")
    /\ MaySuspend(sched, u)
    /\ Goto(t, "suspend")
    /\ target' = [target EXCEPT ![t] = u]
    /\ UNCHANGED <<sched, timer, timeVars, isrVars, cpuVars, why>>

\* Mutant: the thread's timer is not stopped.
SuspendKeepsTimer(t) ==
    LET u == target[t]
    IN  /\ At(t, "suspend")
        /\ Goto(t, "run")
        /\ sched' = SuspendThread(sched, u)
        /\ why' = [why EXCEPT ![u] = "suspend"]
        /\ target' = [target EXCEPT ![t] = NULL]
        /\ UNCHANGED <<timer, timeVars, isrVars, cpuVars>>

Suspend(t) ==
    LET u == target[t]
    IN  /\ At(t, "suspend")
        /\ Goto(t, "run")
        /\ sched' = SuspendThread(sched, u)
        /\ timer' = sk_timer_stop(timer, u)
        /\ why' = [why EXCEPT ![u] = "suspend"]
        /\ target' = [target EXCEPT ![t] = NULL]
        /\ UNCHANGED <<timeVars, isrVars, cpuVars>>

ResumeTest(t, u) ==
    /\ At(t, "run")
    /\ MayResume(sched, u)
    /\ Goto(t, "resume")
    /\ target' = [target EXCEPT ![t] = u]
    /\ UNCHANGED <<sched, timer, timeVars, isrVars, cpuVars, why>>

Resume(t) ==
    LET u == target[t]
    IN  /\ At(t, "resume")
        /\ Goto(t, "run")
        /\ sched' = ResumeThread(sched, u)
        /\ target' = [target EXCEPT ![t] = NULL]
        /\ UNCHANGED <<timer, timeVars, isrVars, cpuVars, why>>

-----------------------------------------------------------------------------
(* sk_thread_create followed by sk_thread_startup *)

\* The new thread is in its ready list from here on.
Create(t, u) ==
    /\ At(t, "run")
    /\ sched.stat[u] = SK_THREAD_INIT
    /\ sched' = sk_schedule_insert_thread(sched, u)
    /\ Goto(t, "startup")
    /\ target' = [target EXCEPT ![t] = u]
    /\ UNCHANGED <<timer, timeVars, isrVars, cpuVars, why>>

\* One store, made whatever the new thread has done in the meantime.
Startup(t) ==
    /\ At(t, "startup")
    /\ sched' = SetStat(sched, target[t], SK_THREAD_SUSPEND)
    /\ Goto(t, "sched")
    /\ target' = [target EXCEPT ![t] = NULL]
    /\ UNCHANGED <<timer, timeVars, isrVars, cpuVars, why>>

-----------------------------------------------------------------------------
(* __thread_exit, reached when a thread's entry function returns *)

\* The return address __thread_exit saves is its own, so a thread that is
\* dispatched again after it has exited can only exit again.
Exit(t) ==
    /\ SchedBecomes(ExitThread(sched, t))
    /\ timer' = sk_timer_delete(timer, t)
    /\ Goto(t, "exit")
    /\ UNCHANGED <<timeVars, isrVars, target, why>>

-----------------------------------------------------------------------------
(* sk_timer_start and sk_timer_stop of a timer of the application *)

UseTimer(t, x) ==
    /\ At(t, "run")
    /\ timer' \in {sk_timer_start(timer, x, tick), sk_timer_stop(timer, x)}
    /\ UNCHANGED <<sched, timeVars, isrVars, cpuVars, pc, target, why>>

-----------------------------------------------------------------------------

Call(t) ==
    \/ "sleep" \in Calls /\ \E ticks \in Sleeps : Sleep(t, ticks)
    \/ "suspend" \in Calls /\ \E u \in App : SuspendTest(t, u)
    \/ "resume" \in Calls /\ \E u \in App : ResumeTest(t, u)
    \/ "create" \in Calls /\ \E u \in App : Create(t, u)
    \/ "exit" \in Calls /\ At(t, "run") /\ Exit(t)
    \/ "timer" \in Calls /\ \E x \in UserTimer : UseTimer(t, x)

\* A thread goes on with the call it has begun.
Proceed(t) ==
    \/ Schedule(t) \/ Suspend(t) \/ Resume(t) \/ Startup(t)
    \/ At(t, "exit") /\ Exit(t)

Boot ==
    /\ (\E t \in Thread : BootCreate(t)) \/ SchedulerStart
    /\ UNCHANGED <<target, why>>

TickInterrupt == TickIsr /\ UNCHANGED <<target, why>>

TimerWalk == TimerCheck /\ UNCHANGED <<target, why>>

Leave == IsrLeave /\ UNCHANGED <<target, why>>

\* What the machine does of its own accord.  Before the scheduler starts and
\* inside the handler nothing else is possible.
Machine == Boot \/ TickInterrupt \/ TimerWalk \/ Leave

Next ==
    \/ Machine
    \/ \E t \in App : Call(t) \/ Proceed(t)

Spec == Init /\ [][Next]_vars

\* The walk over the timer list, if the handler is in it, goes from the timer it
\* looks at to another one.
WalkMoves ==
    cursor # NULL =>
       \A m \in {timer, AfterCallback(timer, cursor, tick)} :
          TimerAfter(m, cursor) # cursor

\* The timer hardware never stops, start-up code and handlers are executed, and
\* a kernel call is short against the tick period: a thread that is given the
\* CPU again and again gets on with the call it has begun.  The first of them is
\* weak fairness of Machine, which changes the state as long as WalkMoves.
FairSpec ==
    /\ Spec
    /\ []<>WalkMoves => []<><<Machine>>_vars
    /\ \A t \in App : SF_vars(Proceed(t))

-----------------------------------------------------------------------------
(* Safety *)

Ready(s, t) == LinkedIn(s, t, Priority[t])

\* The bitmap and the ready lists agree, and so do the ready lists and the
\* thread states: a bit is set exactly for a non-empty list, a READY thread is
\* in the list of its priority, and what is in a list may be dispatched.
\* sk_schedule trusts all of this: a bit without a thread would dispatch a
\* list head, a READY thread without a link would never run again.
ReadyListsExact ==
    /\ BitmapExact(sched)
    /\ \A t \in Thread :
          /\ sched.stat[t] = SK_THREAD_READY => Ready(sched, t)
          /\ Linked(sched, t) =>
                /\ Ready(sched, t)
                /\ sched.stat[t] \in {SK_THREAD_READY, SK_THREAD_SUSPEND}

\* No tlist is ever in two lists, or twice in one: every path that adds a
\* thread to a list has taken it out of the list it was in.
LinkedOnce == LinksOnce(sched)

\* The running thread is in no ready list, and no other thread is marked
\* RUNNING or YIELD.
OneRunning ==
    \A t \in Thread :
       /\ t = sched.current => ~Linked(sched, t)
       /\ Masked(sched.stat[t]) = SK_THREAD_RUNNING => t = sched.current
       /\ sched.stat[t] >= SK_THREAD_YIELD => t = sched.current

\* Switching inside the interrupt handler, up to once for the time slice and
\* once per expired timer, never mixes up contexts: each thread's saved frame
\* is its own, and outside the handler the CPU runs current_thread.
ContextIntact ==
    /\ \A t \in Thread : frame[t] = t
    /\ ~in_isr => cpu = sched.current

\* A thread stopped by sk_thread_suspend waits for sk_thread_resume: no timer
\* left over from an earlier sleep is armed that could wake it.
SuspendedUntilResumed ==
    \A t \in Thread :
       /\ sched.stat[t] = SK_THREAD_SUSPEND
       /\ ~Linked(sched, t)
       /\ why[t] = "suspend"
       => t \notin timer.active

Switches == sched.current # NULL /\ sched'.current # sched.current

\* Leaving aside the thread that has just lost the CPU, nobody waits in a
\* ready list who has a higher priority than the thread sk_schedule chose.
DispatchesHighest ==
    [][Switches =>
          \A u \in Thread \ {sched.current} :
             Ready(sched', u) => Priority[sched'.current] <= Priority[u]]_vars

\* Except when its time slice ends (tick' # tick), a thread that could go on
\* loses the CPU only to a thread of strictly higher priority.
PreemptsForHigher ==
    [][Switches /\ tick' = tick /\ sched'.stat[sched.current] = SK_THREAD_READY
          => Priority[sched'.current] < Priority[sched.current]]_vars

-----------------------------------------------------------------------------
(* Liveness, under FairSpec *)

\* From some moment on the threads neither start nor stop timers.
TimersLeftAlone == <>[][\A t \in App, x \in UserTimer : ~UseTimer(t, x)]_vars

\* Every sleep ends, whatever the tick counter and the other timers do: those of
\* the other threads, and a periodic one that goes on or stops itself.  Only a
\* timer that stops itself and is started again, tick after tick, could keep the
\* walk from the sleeper's timer for ever (sys_tick.c:299).
SleepWakes ==
    TimersLeftAlone =>
       \A t \in App :
          why[t] = "sleep" /\ sched.stat[t] = SK_THREAD_SUSPEND
          ~> sched.stat[t] # SK_THREAD_SUSPEND

\* The tick handler returns: the walk of sk_timer_check over the timer list ends
\* although it puts the timer it has just served back to the front, callbacks
\* unlink their own timer, and the tick may have wrapped past a timeout.  That
\* holds for one periodic timer: two whose timeouts have wrapped serve each other
\* for ever (sys_tick.c:308, sk_timer_start in the loop).
HandlerReturns == Cardinality(UserTimer) <= 1 => []<>~in_isr

\* Threads of equal priority take turns, slice by slice (README.md:58, "priority
\* based, time slice round robin"): a ready thread that no application thread
\* outranks gets the CPU in the end.  The code does not give it to a thread whose
\* sleep ended as the only timer of the list: sk_timer_check returns at
\* sys_tick.c:299 and leaves that timer active, so every later tick moves the
\* thread behind its equals again.
TopThreadRuns ==
    \A t \in App :
       (\A u \in App : Priority[t] <= Priority[u]) =>
          (Ready(sched, t) ~> sched.current = t)

=============================================================================
