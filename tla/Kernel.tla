-------------------------------- MODULE Kernel --------------------------------
(***************************************************************************)
(* The state every part of s-kernel shares, and the steps no thread asks   *)
(* for: start-up, the tick interrupt and the context switches.             *)
(*                                                                         *)
(* There is one CPU.  Code between hw_interrupt_disable and                *)
(* hw_interrupt_enable is one step; between two such steps the tick        *)
(* interrupt can come.  The handler itself is a run of steps (TickIsr, one *)
(* TimerCheck per timer examined, IsrLeave) during which no other step is  *)
(* possible.                                                               *)
(***************************************************************************)
EXTENDS SysTimer

CONSTANTS
    Slice,       \* thread->init_tick, the time slice in ticks
    Period,      \* init_tick of the application's timers, which are periodic
    BootThread   \* the threads skernel_startup creates

ASSUME KernelAssumption ==
    /\ Slice \in [Thread -> Nat \ {0}]
    /\ Period \in [UserTimer -> Tick]
    /\ BootThread \subseteq Thread
    /\ Idle \in BootThread

VARIABLES
    sched,        \* scheduler state, see Sched
    timer,        \* timer state, see SysTimer
    tick,         \* sk_tick
    remain_tick,  \* thread->remain_tick
    in_isr,       \* interrupt_nest # 0
    cursor,       \* in the handler: the timer sk_timer_check looks at next
    cpu,          \* the thread whose registers the CPU holds, NULL at start-up
    frame,        \* frame[t]: the thread whose registers are saved at t->sp
    irq_switch,   \* thread_switch_interrupt_flag, interrupt_from/to_thread
    pc            \* where each thread is in the kernel call it is making

cpuVars == <<cpu, frame, irq_switch>>
isrVars == <<in_isr, cursor>>
timeVars == <<tick, remain_tick>>
kernelVars == <<sched, timer, tick, remain_tick, in_isr, cursor, cpu, frame,
                irq_switch, pc>>

\* The saved from and to are dead while the flag is clear.
NoSwitch == [flag |-> FALSE, from |-> NULL, to |-> NULL]

KernelTypeOK ==
    /\ sched \in SchedState
    /\ timer \in TimerState
    /\ tick \in Tick
    /\ remain_tick \in [Thread -> Nat \ {0}]
    /\ in_isr \in BOOLEAN
    /\ cursor \in Timer \cup {NULL}
    /\ cpu \in Thread \cup {NULL}
    /\ frame \in [Thread -> Thread]
    /\ irq_switch \in [flag : BOOLEAN, from : Thread \cup {NULL},
                       to : Thread \cup {NULL}]

KernelInit ==
    /\ sched = [current  |-> NULL,
                stat     |-> [t \in Thread |-> SK_THREAD_INIT],
                list     |-> [h \in Heads |-> <<>>],
                group    |-> {},
                relinked |-> FALSE]
    /\ timer = [list |-> <<>>, active |-> {}, periodic |-> UserTimer,
                init |-> [x \in Timer |-> IF x \in UserTimer THEN Period[x] ELSE 0],
                timeout |-> [x \in Timer |-> 0], freed |-> {}]
    /\ tick = 0
    /\ remain_tick = Slice
    /\ in_isr = FALSE
    /\ cursor = NULL
    /\ cpu = NULL
    /\ frame = [t \in Thread |-> t]
    /\ irq_switch = NoSwitch
    /\ pc = [t \in Thread |-> "run"]

-----------------------------------------------------------------------------
(* Context switches (context.S, vector.S) *)

hw_context_switch(from, to) ==
    /\ frame' = [frame EXCEPT ![from] = cpu]
    /\ cpu' = frame'[to]
    /\ UNCHANGED irq_switch

\* Mutant: a second switch in the same handler replaces both threads.
last_switch_wins(from, to) ==
    /\ irq_switch' = [flag |-> TRUE, from |-> from, to |-> to]
    /\ UNCHANGED <<cpu, frame>>

\* The first thread switched from and the last one switched to are kept.
hw_context_switch_interrupt(from, to) ==
    /\ irq_switch' = IF irq_switch.flag
                     THEN [irq_switch EXCEPT !.to = to]
                     ELSE [flag |-> TRUE, from |-> from, to |-> to]
    /\ UNCHANGED <<cpu, frame>>

\* The scheduler state becomes s; when s has another current thread the
\* sk_schedule that chose it also switches the context.
SchedBecomes(s) ==
    /\ sched' = s
    /\ IF s.current = sched.current
       THEN UNCHANGED cpuVars
       ELSE IF in_isr
            THEN hw_context_switch_interrupt(sched.current, s.current)
            ELSE hw_context_switch(sched.current, s.current)

-----------------------------------------------------------------------------
(* Start-up (startup.c), with interrupts disabled throughout *)

\* sk_thread_create and sk_thread_startup of one of the start-up threads.
BootCreate(t) ==
    /\ sched.current = NULL
    /\ t \in BootThread
    /\ sched.stat[t] = SK_THREAD_INIT
    /\ sched' = SetStat(sk_schedule_insert_thread(sched, t), t, SK_THREAD_SUSPEND)
    /\ UNCHANGED <<timer, timeVars, isrVars, cpuVars, pc>>

SchedulerStart ==
    /\ sched.current = NULL
    /\ \A t \in BootThread : sched.stat[t] # SK_THREAD_INIT
    /\ sched' = sk_system_scheduler_start(sched)
    /\ cpu' = frame[sched'.current]
    /\ UNCHANGED <<timer, timeVars, isrVars, frame, irq_switch, pc>>

-----------------------------------------------------------------------------
(* The tick interrupt *)

\* Mutant: the slice is not renewed when it is used up.
SliceRunsOut(t) == remain_tick[t] - 1

\* The slice of the current thread after one more tick.
SliceAfterTick(t) == IF remain_tick[t] = 1 THEN Slice[t] ELSE remain_tick[t] - 1

\* sk_tick_increase up to its call of sk_timer_check: the tick, the time
\* slice of the current thread, and sk_schedule when the slice is used up.
TickIsr ==
    /\ ~in_isr
    /\ cpu # NULL
    /\ in_isr' = TRUE
    /\ tick' = (tick + 1) % TickMod
    /\ LET t == sched.current
           over == remain_tick[t] = 1
           yielded == SetStat(sched, t, WithYield(sched.stat[t]))
           s == IF over THEN sk_schedule(yielded) ELSE sched
       IN  /\ remain_tick' = [remain_tick EXCEPT ![t] = SliceAfterTick(t)]
           /\ sched' = s
           /\ IF s.current = t
              THEN UNCHANGED cpuVars
              ELSE hw_context_switch_interrupt(t, s.current)
    /\ cursor' = FirstTimer(timer)
    /\ UNCHANGED <<timer, pc>>

\* What the callback of a due and active timer may do: sk_thread_timeout for
\* a thread's timer; a user's callback returns, or stops its own timer first
\* as test_timer_func does.
Callback(x, m) ==
    IF x \in Thread
    THEN m = timer /\ SchedBecomes(sk_thread_timeout(sched, x))
    ELSE m \in {timer, sk_timer_stop(timer, x)} /\ UNCHANGED <<sched, cpuVars>>

\* One iteration of the loop of sk_timer_check.
TimerCheck ==
    /\ in_isr
    /\ cursor # NULL
    /\ \/ /\ ~Due(timer, cursor, tick)
          /\ cursor' = TimerAfter(timer, cursor)
          /\ UNCHANGED <<sched, timer, cpuVars>>
       \/ /\ Due(timer, cursor, tick)
          /\ \E m \in {timer, sk_timer_stop(timer, cursor)} :
                /\ IF cursor \in timer.active
                   THEN Callback(cursor, m)
                   ELSE m = timer /\ UNCHANGED <<sched, cpuVars>>
                /\ IF NextIsPrev(m, cursor)
                   THEN timer' = m /\ cursor' = NULL
                   ELSE /\ timer' = AfterCallback(m, cursor, tick)
                        /\ cursor' = TimerAfter(timer', cursor)
    /\ UNCHANGED <<timeVars, in_isr, pc>>

\* The tail of vector_irq: the interrupted context is stored at from->sp and
\* to's is loaded, in that order.
IsrLeave ==
    /\ in_isr
    /\ cursor = NULL
    /\ in_isr' = FALSE
    /\ irq_switch' = NoSwitch
    /\ IF irq_switch.flag
       THEN /\ frame' = [frame EXCEPT ![irq_switch.from] = cpu]
            /\ cpu' = frame'[irq_switch.to]
       ELSE UNCHANGED <<cpu, frame>>
    /\ UNCHANGED <<sched, timer, timeVars, cursor, pc>>

Interrupt == TickIsr \/ TimerCheck \/ IsrLeave

-----------------------------------------------------------------------------
(* Threads *)

\* Thread t is executing instructions of its own.
Runs(t) == ~in_isr /\ cpu = t

At(t, label) == Runs(t) /\ pc[t] = label

\* A call of sk_schedule in thread context, after which t is at label next.
Reschedule(t, label) ==
    /\ At(t, "sched")
    /\ pc' = [pc EXCEPT ![t] = label]
    /\ SchedBecomes(sk_schedule(sched))
    /\ UNCHANGED <<timer, timeVars, isrVars>>

=============================================================================
