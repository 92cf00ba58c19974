--------------------------- MODULE ThreadApiProofs ---------------------------
(***************************************************************************)
(* Proofs about ThreadApi for every number of threads and priorities, all  *)
(* time slices and sleeps, and every width of the tick counter.            *)
(***************************************************************************)
EXTENDS ThreadApi, SchedProofs, SysTimerProofs, TLAPS

\* Before the scheduler is started, every thread created is ready.
BootInv ==
    sched.current = NULL =>
       \A t \in Thread : sched.stat[t] # SK_THREAD_INIT => Linked(sched, t)

\* The CPU and the saved frames, inside the handler too: the switch that is
\* pending leads from the interrupted thread to current_thread.
CpuInv ==
    /\ \A t \in Thread : frame[t] = t
    /\ sched.current = NULL <=> cpu = NULL
    /\ in_isr => cpu # NULL
    /\ irq_switch.flag => in_isr /\ irq_switch.from = cpu /\ irq_switch.to = sched.current
    /\ ~irq_switch.flag => cpu = sched.current

\* The thread an unfinished call is about.
TargetInv ==
    \A t \in Thread :
       /\ pc[t] \in {"suspend", "resume", "startup"} => target[t] \in Thread
       /\ pc[t] = "startup" => target[t] # t

\* No timer of a thread is periodic, nor armed after sk_thread_suspend.
ThreadTimerInv ==
    \A t \in Thread :
       /\ t \notin timer.periodic
       /\ why[t] = "suspend" => t \notin timer.active

Inv ==
    /\ TypeOK
    /\ SchedInv(sched)
    /\ BootInv
    /\ CpuInv
    /\ TargetInv
    /\ ThreadTimerInv

USE DEF SK_THREAD_INIT, SK_THREAD_READY, SK_THREAD_SUSPEND, SK_THREAD_RUNNING,
        SK_THREAD_CLOSE, SK_THREAD_YIELD

-----------------------------------------------------------------------------
(* Every step preserves Inv *)

LEMMA InitInv == Init => Inv
<1>. SUFFICES ASSUME Init PROVE Inv
    OBVIOUS
<1>. USE DEF Init, KernelInit
<1>1. SK_THREAD_INIT \in Stat /\ Masked(SK_THREAD_INIT) = SK_THREAD_INIT
    BY StatMasks
<1>2. \A h \in Heads : /\ sched.list[h] = <<>> /\ sched.list[h] \in Seq(Thread)
                       /\ Len(sched.list[h]) = 0
    OBVIOUS
<1>3. sched \in SchedState
    BY <1>1, <1>2 DEF SchedState
<1>4. \A t \in Thread : \A h \in Heads : ~LinkedIn(sched, t, h)
    BY <1>2 DEF LinkedIn, Contains
<1>5. WellFormed(sched)
    <2>1. ASSUME NEW h \in Heads PROVE IsInjective(sched.list[h])
        <3>1. /\ sched.list[h] \in Seq(Thread)
              /\ \A i, j \in 1 .. Len(sched.list[h]) :
                    sched.list[h][i] = sched.list[h][j] => i = j
            BY <1>2
        <3>. QED BY <3>1, InjectiveSeq, Zenon
    <2>. QED BY Zenon, <1>2, <1>3, <1>4, <2>1, SchedConstants
             DEF WellFormed, LinksOnce, HomeList, BitmapExact
<1>6. StatesFit(sched)
    <2>1. ASSUME NEW t \in Thread PROVE Fits(sched, t)
        <3>1. sched.stat[t] = SK_THREAD_INIT /\ sched.current = NULL /\ ~Linked(sched, t)
            BY Zenon, <1>4 DEF Linked
        <3>. HIDE DEF Init, KernelInit
        <3>. QED BY <1>1, <3>1, SchedConstants DEF Fits
    <2>. QED BY Zenon, <1>4, <2>1, SchedConstants DEF StatesFit
<1>7. timer \in TimerState
    <2>1. timer.init \in [Timer -> Tick] /\ timer.timeout \in [Timer -> Tick]
        BY TickType, KernelAssumption
    <2>2. UserTimer \in SUBSET Timer /\ timer.list = <<>> /\ <<>> \in Seq(Timer)
        BY DEF Timer
    <2>. QED BY Zenon, <2>1, <2>2 DEF TimerState
<1>8. TypeOK
    BY Zenon, <1>3, <1>7, TickType, KernelAssumption
    DEF TypeOK, KernelTypeOK, NoSwitch, Labels
<1>9. BootInv /\ CpuInv /\ TargetInv /\ ThreadTimerInv
    BY SchedConstants, SysTimerAssumption
    DEF BootInv, CpuInv, TargetInv, ThreadTimerInv, NoSwitch
<1>. QED BY <1>5, <1>6, <1>8, <1>9 DEF Inv, SchedInv

\* The types of the variables, one by one.
LEMMA VarTypes ==
    ASSUME Inv
    PROVE  /\ sched \in SchedState /\ timer \in TimerState /\ tick \in Tick
           /\ remain_tick \in [Thread -> Nat \ {0}] /\ in_isr \in BOOLEAN
           /\ cursor \in Timer \cup {NULL} /\ cpu \in Thread \cup {NULL}
           /\ frame \in [Thread -> Thread]
           /\ irq_switch \in [flag : BOOLEAN, from : Thread \cup {NULL},
                              to : Thread \cup {NULL}]
           /\ pc \in [Thread -> Labels] /\ target \in [Thread -> Thread \cup {NULL}]
           /\ why \in [Thread -> {"none", "sleep", "suspend"}]
           /\ sched.current \in Thread \cup {NULL} /\ sched.stat \in [Thread -> Stat]
BY SchedParts DEF Inv, TypeOK, KernelTypeOK

\* A thread that executes is current_thread.
LEMMA RunsCurrent ==
    ASSUME Inv, NEW t \in Thread, Runs(t)
    PROVE  t = sched.current /\ sched.current \in Thread /\ ~in_isr
BY DEF Inv, CpuInv, Runs

\* SchedBecomes, in a thread and in the handler.
LEMMA SwitchInv ==
    ASSUME Inv, NEW s, SchedInv(s), sched.current \in Thread, s.current \in Thread,
           SchedBecomes(s), in_isr' = in_isr
    PROVE  /\ sched' = s /\ CpuInv' /\ BootInv' /\ SchedInv(sched')
           /\ sched' \in SchedState /\ cpu' \in Thread \cup {NULL}
           /\ frame' \in [Thread -> Thread]
           /\ irq_switch' \in [flag : BOOLEAN, from : Thread \cup {NULL},
                               to : Thread \cup {NULL}]
<1>1. sched' = s
    BY DEF SchedBecomes
<1>2. SchedInv(sched') /\ sched' \in SchedState /\ BootInv'
    BY <1>1, SchedConstants DEF SchedInv, WellFormed, BootInv
<1>3. CASE s.current = sched.current
    BY <1>1, <1>2, <1>3, VarTypes DEF SchedBecomes, Inv, CpuInv, cpuVars
<1>4. CASE s.current # sched.current /\ in_isr
    <2>1. /\ irq_switch' = IF irq_switch.flag
                            THEN [irq_switch EXCEPT !.to = s.current]
                            ELSE [flag |-> TRUE, from |-> sched.current, to |-> s.current]
          /\ cpu' = cpu /\ frame' = frame
        BY <1>4 DEF SchedBecomes, hw_context_switch_interrupt
    <2>2. /\ irq_switch'.flag = TRUE /\ irq_switch'.from = cpu
          /\ irq_switch'.to = s.current
          /\ irq_switch' \in [flag : BOOLEAN, from : Thread \cup {NULL},
                              to : Thread \cup {NULL}]
        <3>1. CASE irq_switch.flag
            BY <2>1, <3>1, VarTypes DEF Inv, CpuInv
        <3>2. CASE ~irq_switch.flag
            BY <2>1, <3>2, VarTypes DEF Inv, CpuInv
        <3>. QED BY Zenon, <3>1, <3>2
    <2>. QED BY <1>1, <1>2, <1>4, <2>1, <2>2, VarTypes, SchedConstants DEF Inv, CpuInv
<1>5. CASE s.current # sched.current /\ ~in_isr
    <2>1. /\ frame' = [frame EXCEPT ![sched.current] = cpu]
          /\ cpu' = frame'[s.current] /\ irq_switch' = irq_switch
        BY <1>5 DEF SchedBecomes, hw_context_switch
    <2>2. cpu = sched.current /\ ~irq_switch.flag
        BY <1>5 DEF Inv, CpuInv
    <2>3. \A t \in Thread : frame'[t] = t
        BY <2>1, <2>2, VarTypes DEF Inv, CpuInv
    <2>. QED BY <1>1, <1>2, <1>5, <2>1, <2>2, <2>3, VarTypes, SchedConstants DEF CpuInv
<1>. QED BY <1>3, <1>4, <1>5

\* A step of a thread that changes no more than the scheduler's state, without
\* a switch: what is left to show is about the other variables.
LEMMA CallInv ==
    ASSUME Inv, NEW t \in Thread, Runs(t), NEW s, SchedInv(s),
           s.current = sched.current, sched' = s,
           UNCHANGED <<timeVars, isrVars, cpuVars>>,
           timer' \in TimerState, pc' \in [Thread -> Labels],
           target' \in [Thread -> Thread \cup {NULL}],
           why' \in [Thread -> {"none", "sleep", "suspend"}],
           TargetInv', ThreadTimerInv'
    PROVE  Inv'
<1>1. SchedBecomes(s) /\ sched.current \in Thread /\ in_isr' = in_isr
    BY RunsCurrent DEF SchedBecomes, isrVars
<1>2. CpuInv' /\ BootInv' /\ SchedInv(sched') /\ sched' \in SchedState
    BY <1>1, SwitchInv
<1>3. TypeOK'
    BY <1>2, VarTypes DEF TypeOK, KernelTypeOK, timeVars, isrVars, cpuVars
<1>. QED BY <1>2, <1>3 DEF Inv

LEMMA SleepStep ==
    ASSUME Inv, NEW t \in Thread, NEW ticks \in Sleeps, Sleep(t, ticks)
    PROVE  Inv'
<1>. DEFINE stopped == IF MaySuspend(sched, t) THEN sk_timer_stop(timer, t) ELSE timer
            s == IF MaySuspend(sched, t) THEN SuspendThread(sched, t) ELSE sched
<1>1. /\ timer' = StartWith(stopped, t, ticks, tick) /\ sched' = s
      /\ pc' = [pc EXCEPT ![t] = "sched"] /\ why' = [why EXCEPT ![t] = "sleep"]
      /\ target' = target /\ UNCHANGED <<timeVars, isrVars, cpuVars>>
      /\ Runs(t) /\ pc[t] = "run"
    BY DEF Sleep, Goto, At
<1>2. SchedInv(s) /\ s.current = sched.current
    BY SuspendInv DEF Inv
<1>3. t \in Timer /\ tick \in Tick /\ ticks \in Tick
    BY VarTypes, ThreadApiAssumption DEF Timer
<1>4. /\ stopped \in TimerState /\ stopped.periodic = timer.periodic
      /\ \A u \in stopped.active : u \in timer.active
    <2>1. timer \in TimerState
        BY VarTypes
    <2>2. /\ sk_timer_stop(timer, t) \in TimerState
          /\ sk_timer_stop(timer, t).periodic = timer.periodic
          /\ \A u \in sk_timer_stop(timer, t).active : u \in timer.active
        BY <1>3, <2>1, TimerStopFacts
    <2>3. CASE MaySuspend(sched, t)
        BY <2>2, <2>3
    <2>4. CASE ~MaySuspend(sched, t)
        BY <2>1, <2>4
    <2>. QED BY <2>3, <2>4
<1>. HIDE DEF stopped, s
<1>5. /\ timer' \in TimerState /\ timer'.periodic = timer.periodic
      /\ timer'.active = stopped.active \cup {t}
    BY <1>1, <1>3, <1>4, StartWithFacts
<1>6. ThreadTimerInv'
    BY <1>1, <1>4, <1>5, VarTypes DEF Inv, ThreadTimerInv
<1>7. TargetInv'
    BY <1>1, VarTypes DEF Inv, TargetInv
<1>8. /\ pc' \in [Thread -> Labels] /\ target' \in [Thread -> Thread \cup {NULL}]
      /\ why' \in [Thread -> {"none", "sleep", "suspend"}]
    BY <1>1, VarTypes DEF Labels
<1>. QED BY <1>1, <1>2, <1>5, <1>6, <1>7, <1>8, CallInv

LEMMA TestStep ==
    ASSUME Inv, NEW t \in Thread, NEW u \in Thread,
           SuspendTest(t, u) \/ ResumeTest(t, u)
    PROVE  Inv'
<1>1. PICK label \in {"suspend", "resume"} :
         /\ pc' = [pc EXCEPT ![t] = label] /\ target' = [target EXCEPT ![t] = u]
         /\ Runs(t) /\ sched' = sched /\ timer' = timer /\ why' = why
         /\ UNCHANGED <<timeVars, isrVars, cpuVars>>
    BY DEF SuspendTest, ResumeTest, Goto, At
<1>2. /\ pc' \in [Thread -> Labels] /\ target' \in [Thread -> Thread \cup {NULL}]
    BY <1>1, VarTypes DEF Labels
<1>3. TargetInv' /\ ThreadTimerInv'
    BY <1>1, VarTypes DEF Inv, TargetInv, ThreadTimerInv
<1>. QED BY Zenon, <1>1, <1>2, <1>3, VarTypes, CallInv DEF Inv

LEMMA SuspendStep ==
    ASSUME Inv, NEW t \in Thread, Suspend(t)
    PROVE  Inv'
<1>. DEFINE u == target[t]
<1>1. u \in Thread /\ u \in Timer
    BY DEF Suspend, At, Inv, TargetInv, Timer
<1>2. /\ pc' = [pc EXCEPT ![t] = "run"] /\ sched' = SuspendThread(sched, u)
      /\ timer' = sk_timer_stop(timer, u) /\ why' = [why EXCEPT ![u] = "suspend"]
      /\ target' = [target EXCEPT ![t] = NULL] /\ Runs(t)
      /\ UNCHANGED <<timeVars, isrVars, cpuVars>>
    BY DEF Suspend, Goto, At
<1>. HIDE DEF u
<1>3. SchedInv(sched') /\ sched'.current = sched.current
    BY <1>1, <1>2, SuspendInv DEF Inv
<1>4. /\ timer' \in TimerState /\ timer'.active = timer.active \ {u}
      /\ timer'.periodic = timer.periodic
    BY Zenon, <1>1, <1>2, VarTypes, TimerStopFacts
<1>5. /\ pc' \in [Thread -> Labels] /\ target' \in [Thread -> Thread \cup {NULL}]
      /\ why' \in [Thread -> {"none", "sleep", "suspend"}]
    BY <1>1, <1>2, VarTypes DEF Labels
<1>6. TargetInv' /\ ThreadTimerInv'
    BY <1>1, <1>2, <1>4, VarTypes DEF Inv, TargetInv, ThreadTimerInv
<1>. QED BY <1>2, <1>3, <1>4, <1>5, <1>6, CallInv

LEMMA ResumeStep ==
    ASSUME Inv, NEW t \in Thread, Resume(t)
    PROVE  Inv'
<1>. DEFINE u == target[t]
<1>1. u \in Thread
    BY DEF Resume, At, Inv, TargetInv
<1>2. /\ pc' = [pc EXCEPT ![t] = "run"] /\ sched' = ResumeThread(sched, u)
      /\ timer' = timer /\ why' = why /\ target' = [target EXCEPT ![t] = NULL]
      /\ Runs(t) /\ UNCHANGED <<timeVars, isrVars, cpuVars>>
    BY DEF Resume, Goto, At
<1>. HIDE DEF u
<1>3. SchedInv(sched') /\ sched'.current = sched.current
    BY <1>1, <1>2, ResumeInv DEF Inv
<1>4. /\ pc' \in [Thread -> Labels] /\ target' \in [Thread -> Thread \cup {NULL}]
    BY <1>2, VarTypes DEF Labels
<1>5. TargetInv' /\ ThreadTimerInv'
    BY <1>2, VarTypes DEF Inv, TargetInv, ThreadTimerInv
<1>. QED BY <1>2, <1>3, <1>4, <1>5, VarTypes, CallInv

LEMMA CreateStep ==
    ASSUME Inv, NEW t \in Thread, NEW u \in Thread, Create(t, u)
    PROVE  Inv'
<1>1. /\ pc' = [pc EXCEPT ![t] = "startup"]
      /\ sched' = sk_schedule_insert_thread(sched, u) /\ sched.stat[u] = SK_THREAD_INIT
      /\ timer' = timer /\ why' = why /\ target' = [target EXCEPT ![t] = u]
      /\ Runs(t) /\ UNCHANGED <<timeVars, isrVars, cpuVars>>
    BY DEF Create, Goto, At
<1>2. SchedInv(sched') /\ sched'.current = sched.current /\ u # sched.current
    BY Zenon, <1>1, CreateInv DEF Inv
<1>3. u # t
    BY <1>1, <1>2, RunsCurrent
<1>4. /\ pc' \in [Thread -> Labels] /\ target' \in [Thread -> Thread \cup {NULL}]
    BY <1>1, VarTypes DEF Labels
<1>5. TargetInv' /\ ThreadTimerInv'
    BY <1>1, <1>3, VarTypes DEF Inv, TargetInv, ThreadTimerInv
<1>. QED BY <1>1, <1>2, <1>4, <1>5, VarTypes, CallInv

LEMMA StartupStep ==
    ASSUME Inv, NEW t \in Thread, Startup(t)
    PROVE  Inv'
<1>. DEFINE u == target[t]
<1>1. u \in Thread /\ u # t
    BY DEF Startup, At, Inv, TargetInv
<1>2. /\ pc' = [pc EXCEPT ![t] = "sched"]
      /\ sched' = SetStat(sched, u, SK_THREAD_SUSPEND)
      /\ timer' = timer /\ why' = why /\ target' = [target EXCEPT ![t] = NULL]
      /\ Runs(t) /\ UNCHANGED <<timeVars, isrVars, cpuVars>>
    BY DEF Startup, Goto, At
<1>. HIDE DEF u
<1>3. SchedInv(sched') /\ sched'.current = sched.current
    BY Zenon, <1>1, <1>2, RunsCurrent, StartupInv DEF Inv
<1>4. /\ pc' \in [Thread -> Labels] /\ target' \in [Thread -> Thread \cup {NULL}]
    BY <1>2, VarTypes DEF Labels
<1>5. TargetInv' /\ ThreadTimerInv'
    BY <1>2, VarTypes DEF Inv, TargetInv, ThreadTimerInv
<1>. QED BY <1>2, <1>3, <1>4, <1>5, VarTypes, CallInv

LEMMA ScheduleStep ==
    ASSUME Inv, NEW t \in Thread, Schedule(t)
    PROVE  Inv'
<1>1. /\ pc' = [pc EXCEPT ![t] = "run"] /\ Runs(t) /\ SchedBecomes(sk_schedule(sched))
      /\ timer' = timer /\ why' = why /\ target' = target
      /\ in_isr' = in_isr /\ UNCHANGED <<timeVars, isrVars>>
    BY DEF Schedule, Reschedule, At, isrVars
<1>2. sched.current \in Thread
    BY <1>1, RunsCurrent
<1>3. SchedInv(sk_schedule(sched)) /\ sk_schedule(sched).current \in Thread
    BY <1>2, ScheduleInv DEF Inv
<1>4. /\ CpuInv' /\ BootInv' /\ SchedInv(sched')
      /\ sched' \in SchedState /\ cpu' \in Thread \cup {NULL}
      /\ frame' \in [Thread -> Thread]
      /\ irq_switch' \in [flag : BOOLEAN, from : Thread \cup {NULL},
                          to : Thread \cup {NULL}]
    BY <1>1, <1>2, <1>3, SwitchInv
<1>5. pc' \in [Thread -> Labels]
    BY <1>1, VarTypes DEF Labels
<1>6. TypeOK'
    BY <1>1, <1>4, <1>5, VarTypes DEF TypeOK, KernelTypeOK, timeVars, isrVars
<1>7. TargetInv' /\ ThreadTimerInv'
    BY Zenon, <1>1, VarTypes DEF Inv, TargetInv, ThreadTimerInv
<1>. QED BY <1>4, <1>6, <1>7 DEF Inv

LEMMA ExitStep ==
    ASSUME Inv, NEW t \in Thread, Runs(t), Exit(t)
    PROVE  Inv'
<1>1. /\ pc' = [pc EXCEPT ![t] = "exit"] /\ SchedBecomes(ExitThread(sched, t))
      /\ timer' = sk_timer_delete(timer, t) /\ why' = why /\ target' = target
      /\ in_isr' = in_isr /\ UNCHANGED <<timeVars, isrVars>>
    BY DEF Exit, Goto, isrVars
<1>2. sched.current \in Thread /\ t = sched.current /\ t \in Timer
    BY RunsCurrent DEF Timer
<1>3. SchedInv(ExitThread(sched, t)) /\ ExitThread(sched, t).current \in Thread
    BY <1>2, ExitInv DEF Inv
<1>4. /\ CpuInv' /\ BootInv' /\ SchedInv(sched')
      /\ sched' \in SchedState /\ cpu' \in Thread \cup {NULL}
      /\ frame' \in [Thread -> Thread]
      /\ irq_switch' \in [flag : BOOLEAN, from : Thread \cup {NULL},
                          to : Thread \cup {NULL}]
    BY <1>1, <1>2, <1>3, SwitchInv
<1>5. /\ timer' \in TimerState /\ timer'.active = timer.active \ {t}
      /\ timer'.periodic = timer.periodic
    BY Zenon, <1>1, <1>2, VarTypes, TimerStopFacts
<1>6. pc' \in [Thread -> Labels]
    BY <1>1, VarTypes DEF Labels
<1>7. TypeOK'
    BY Zenon, <1>1, <1>4, <1>5, <1>6, VarTypes DEF TypeOK, KernelTypeOK, timeVars, isrVars
<1>8. TargetInv' /\ ThreadTimerInv'
    BY Zenon, <1>1, <1>5, VarTypes DEF Inv, TargetInv, ThreadTimerInv
<1>. QED BY <1>4, <1>7, <1>8 DEF Inv

LEMMA BootStep ==
    ASSUME Inv, Boot
    PROVE  Inv'
<1>1. sched.current = NULL /\ cpu = NULL /\ ~in_isr /\ ~irq_switch.flag
    BY DEF Boot, BootCreate, SchedulerStart, Inv, CpuInv
<1>2. ASSUME NEW t \in Thread, BootCreate(t), UNCHANGED <<target, why>> PROVE Inv'
    <2>. DEFINE s == sk_schedule_insert_thread(sched, t)
    <2>1. /\ sched.stat[t] = SK_THREAD_INIT /\ sched' = SetStat(s, t, SK_THREAD_SUSPEND)
          /\ UNCHANGED <<timer, timeVars, isrVars, cpuVars, pc, target, why>>
        BY <1>2 DEF BootCreate
    <2>2. /\ SchedInv(s) /\ s.current = sched.current /\ t # s.current
          /\ s.stat = [sched.stat EXCEPT ![t] = SK_THREAD_READY]
          /\ \A u \in Thread : Linked(s, u) <=> Linked(sched, u) \/ u = t
        BY <2>1, CreateInv DEF Inv
    <2>. HIDE DEF s
    <2>3. /\ SchedInv(sched') /\ sched'.current = sched.current
          /\ sched'.stat = [s.stat EXCEPT ![t] = SK_THREAD_SUSPEND]
          /\ \A u \in Thread : Linked(sched', u) <=> Linked(s, u)
        BY <2>1, <2>2, StartupInv
    <2>4. BootInv'
        <3>. SUFFICES ASSUME NEW u \in Thread, sched'.stat[u] # SK_THREAD_INIT
                      PROVE  Linked(sched', u)
            BY DEF BootInv
        <3>1. u = t \/ sched.stat[u] # SK_THREAD_INIT
            BY <2>2, <2>3, VarTypes
        <3>. QED BY <1>1, <2>2, <2>3, <3>1 DEF Inv, BootInv
    <2>5. CpuInv' /\ TargetInv' /\ ThreadTimerInv'
        BY <2>1, <2>3 DEF Inv, CpuInv, TargetInv, ThreadTimerInv, isrVars, cpuVars
    <2>6. TypeOK'
        BY Zenon, <2>1, <2>3, VarTypes
        DEF TypeOK, KernelTypeOK, SchedInv, WellFormed, timeVars, isrVars, cpuVars
    <2>. QED BY <2>3, <2>4, <2>5, <2>6 DEF Inv
<1>3. ASSUME SchedulerStart, UNCHANGED <<target, why>> PROVE Inv'
    <2>1. /\ sched' = sk_system_scheduler_start(sched)
          /\ cpu' = frame[sched'.current]
          /\ UNCHANGED <<timer, timeVars, isrVars, frame, irq_switch, pc, target, why>>
        BY <1>3 DEF SchedulerStart
    <2>2. \E t \in Thread : Linked(sched, t)
        BY Zenon, <1>1, <1>3, KernelAssumption, SchedConstants DEF SchedulerStart, Inv, BootInv
    <2>3. SchedInv(sched') /\ sched'.current \in Thread
        BY <1>1, <2>1, <2>2, StartInv DEF Inv
    <2>4. cpu' = sched'.current
        BY <2>1, <2>3 DEF Inv, CpuInv
    <2>5. CpuInv' /\ BootInv' /\ TargetInv' /\ ThreadTimerInv'
        BY <1>1, <2>1, <2>3, <2>4, SchedConstants
        DEF Inv, CpuInv, BootInv, TargetInv, ThreadTimerInv, isrVars
    <2>6. TypeOK'
        BY Zenon, <2>1, <2>3, <2>4, VarTypes
        DEF TypeOK, KernelTypeOK, SchedInv, WellFormed, timeVars, isrVars
    <2>. QED BY <2>3, <2>5, <2>6 DEF Inv
<1>. QED BY <1>2, <1>3 DEF Boot

LEMMA TickStep ==
    ASSUME Inv, TickInterrupt
    PROVE  Inv'
<1>. DEFINE t == sched.current
            yielded == SetStat(sched, t, WithYield(sched.stat[t]))
            s == IF remain_tick[t] = 1 THEN sk_schedule(yielded) ELSE sched
<1>1. /\ ~in_isr /\ cpu # NULL /\ in_isr' = TRUE /\ tick' = (tick + 1) % TickMod
      /\ remain_tick' = [remain_tick EXCEPT ![t] = SliceAfterTick(t)] /\ sched' = s
      /\ IF s.current = t THEN UNCHANGED cpuVars
         ELSE hw_context_switch_interrupt(t, s.current)
      /\ cursor' = FirstTimer(timer) /\ UNCHANGED <<timer, pc, target, why>>
    BY DEF TickInterrupt, TickIsr
<1>2. t \in Thread /\ cpu = t /\ ~irq_switch.flag
    BY Zenon, <1>1, VarTypes DEF Inv, CpuInv
<1>3. SchedInv(s) /\ s.current \in Thread
    <2>1. SchedInv(yielded) /\ yielded.current = t
        BY <1>2, YieldInv DEF Inv
    <2>. HIDE DEF yielded
    <2>2. SchedInv(sk_schedule(yielded)) /\ sk_schedule(yielded).current \in Thread
        BY <1>2, <2>1, ScheduleInv
    <2>. QED BY <1>2, <2>2 DEF Inv
<1>. HIDE DEF s
<1>4. /\ CpuInv' /\ cpu' \in Thread \cup {NULL} /\ frame' \in [Thread -> Thread]
      /\ irq_switch' \in [flag : BOOLEAN, from : Thread \cup {NULL},
                          to : Thread \cup {NULL}]
    <2>1. CASE s.current = t
        BY <1>1, <1>2, <1>3, <2>1, VarTypes DEF Inv, CpuInv, cpuVars
    <2>2. CASE s.current # t
        <3>1. /\ irq_switch' = [flag |-> TRUE, from |-> t, to |-> s.current]
              /\ cpu' = cpu /\ frame' = frame
            BY <1>1, <1>2, <2>2 DEF hw_context_switch_interrupt
        <3>. QED BY Zenon, <1>1, <1>2, <1>3, <3>1, VarTypes, SchedConstants DEF Inv, CpuInv
    <2>. QED BY <2>1, <2>2
<1>5. tick' \in Tick
    <2>1. tick + 1 \in Nat
        <3>1. tick \in Nat
            BY Zenon, VarTypes, TickType
        <3>. QED BY <3>1
    <2>. QED BY <1>1, <2>1, TickType, Zenon
<1>6. remain_tick' \in [Thread -> Nat \ {0}]
    <2>1. SliceAfterTick(t) \in Nat \ {0}
        BY <1>2, VarTypes, KernelAssumption DEF SliceAfterTick
    <2>. QED BY Zenon, <1>1, <2>1, VarTypes
<1>7. cursor' \in Timer \cup {NULL}
    BY <1>1, VarTypes, CursorType
<1>8. TypeOK'
    BY Zenon, <1>1, <1>3, <1>4, <1>5, <1>6, <1>7, VarTypes
    DEF TypeOK, KernelTypeOK, SchedInv, WellFormed
<1>9. BootInv' /\ TargetInv' /\ ThreadTimerInv'
    BY Zenon, <1>1, <1>3, SchedConstants DEF Inv, BootInv, TargetInv, ThreadTimerInv
<1>. QED BY <1>1, <1>3, <1>4, <1>8, <1>9 DEF Inv

LEMMA LeaveStep ==
    ASSUME Inv, Leave
    PROVE  Inv'
<1>1. /\ in_isr' = FALSE /\ irq_switch' = NoSwitch /\ in_isr
      /\ UNCHANGED <<sched, timer, timeVars, cursor, pc, target, why>>
    BY DEF Leave, IsrLeave
<1>2. cpu # NULL /\ sched.current # NULL /\ sched.current \in Thread /\ cpu \in Thread
    BY <1>1, VarTypes DEF Inv, CpuInv
<1>3. frame' = frame /\ cpu' = sched.current
    <2>1. CASE irq_switch.flag
        BY <1>2, <2>1, VarTypes DEF Leave, IsrLeave, Inv, CpuInv
    <2>2. CASE ~irq_switch.flag
        BY <2>2 DEF Leave, IsrLeave, Inv, CpuInv
    <2>. QED BY <2>1, <2>2
<1>4. CpuInv' /\ BootInv' /\ TargetInv' /\ ThreadTimerInv'
    BY Zenon, <1>1, <1>2, <1>3, SchedConstants
    DEF Inv, CpuInv, BootInv, TargetInv, ThreadTimerInv, NoSwitch
<1>5. TypeOK'
    BY Zenon, <1>1, <1>2, <1>3, VarTypes DEF TypeOK, KernelTypeOK, NoSwitch, timeVars
<1>. QED BY <1>1, <1>4, <1>5 DEF Inv

LEMMA WalkStep ==
    ASSUME Inv, TimerWalk
    PROVE  Inv'
<1>1. /\ in_isr /\ cursor # NULL /\ in_isr' = in_isr
      /\ UNCHANGED <<timeVars, pc, target, why>>
    BY Zenon DEF TimerWalk, TimerCheck
<1>2. cursor \in Timer /\ timer \in TimerState /\ tick \in Tick /\ sched.current \in Thread
    BY Zenon, <1>1, VarTypes DEF Inv, CpuInv
<1>3. SUFFICES ASSUME NEW m, m \in {timer, sk_timer_stop(timer, cursor)},
                      NEW s, SchedInv(s), s.current \in Thread, SchedBecomes(s),
                      \/ timer' = m /\ cursor' = NULL
                      \/ timer' = m /\ cursor' = TimerAfter(timer, cursor)
                      \/ timer' = AfterCallback(m, cursor, tick)
                            /\ cursor' = TimerAfter(timer', cursor)
               PROVE  Inv'
    <2>1. CASE ~Due(timer, cursor, tick)
        <3>1. /\ timer' = timer /\ cursor' = TimerAfter(timer, cursor)
              /\ sched' = sched /\ UNCHANGED cpuVars
            BY Zenon, <2>1 DEF TimerWalk, TimerCheck
        <3>2. SchedBecomes(sched)
            BY <3>1 DEF SchedBecomes
        <3>. QED BY <1>2, <1>3, <3>1, <3>2 DEF Inv
    <2>2. CASE Due(timer, cursor, tick)
        <3>1. PICK m \in {timer, sk_timer_stop(timer, cursor)} :
                 /\ IF cursor \in timer.active
                    THEN Callback(cursor, m)
                    ELSE m = timer /\ UNCHANGED <<sched, cpuVars>>
                 /\ IF NextIsPrev(m, cursor)
                    THEN timer' = m /\ cursor' = NULL
                    ELSE /\ timer' = AfterCallback(m, cursor, tick)
                         /\ cursor' = TimerAfter(timer', cursor)
            BY Zenon, <2>2 DEF TimerWalk, TimerCheck
        <3>2. CASE cursor \in timer.active /\ cursor \in Thread
            <4>. DEFINE r == ResumeThread(sched, cursor)
            <4>1. SchedBecomes(sk_schedule(r))
                BY Zenon, <3>1, <3>2 DEF Callback, sk_thread_timeout
            <4>2. SchedInv(r) /\ r.current = sched.current
                BY <3>2, ResumeInv DEF Inv
            <4>. HIDE DEF r
            <4>3. SchedInv(sk_schedule(r)) /\ sk_schedule(r).current \in Thread
                BY <1>2, <4>2, ScheduleInv
            <4>. QED BY Zenon, <1>3, <3>1, <4>1, <4>3
        <3>3. CASE ~(cursor \in timer.active /\ cursor \in Thread)
            <4>1. SchedBecomes(sched)
                BY Zenon, <3>1, <3>3 DEF Callback, SchedBecomes
            <4>. QED BY Zenon, <1>2, <1>3, <3>1, <4>1 DEF Inv
        <3>. QED BY <3>2, <3>3
    <2>. QED BY <2>1, <2>2
<1>4. /\ CpuInv' /\ BootInv' /\ SchedInv(sched')
      /\ sched' \in SchedState /\ cpu' \in Thread \cup {NULL}
      /\ frame' \in [Thread -> Thread]
      /\ irq_switch' \in [flag : BOOLEAN, from : Thread \cup {NULL},
                          to : Thread \cup {NULL}]
    BY Zenon, <1>1, <1>2, <1>3, SwitchInv
<1>5. /\ m \in TimerState /\ m.periodic = timer.periodic
      /\ \A x \in m.active : x \in timer.active
    BY <1>2, <1>3, TimerStopFacts
<1>6. /\ timer' \in TimerState /\ timer'.periodic = timer.periodic
      /\ \A x \in Timer : x \in timer'.active =>
            x \in timer.active \/ x \in timer.periodic
    <2>1. CASE timer' = m
        BY <1>5, <2>1
    <2>2. CASE timer' = AfterCallback(m, cursor, tick)
        BY <1>2, <1>5, <2>2, AfterCallbackFacts
    <2>. QED BY <1>3, <2>1, <2>2
<1>7. cursor' \in Timer \cup {NULL}
    BY <1>2, <1>3, <1>6, CursorType
<1>8. TypeOK'
    BY Zenon, <1>1, <1>4, <1>6, <1>7, VarTypes DEF TypeOK, KernelTypeOK, timeVars
<1>9. TargetInv' /\ ThreadTimerInv'
    BY <1>1, <1>6 DEF Inv, TargetInv, ThreadTimerInv, Timer
<1>. QED BY <1>4, <1>8, <1>9 DEF Inv

LEMMA UseTimerStep ==
    ASSUME Inv, NEW t \in Thread, NEW x \in UserTimer, UseTimer(t, x)
    PROVE  Inv'
<1>1. /\ timer' \in {sk_timer_start(timer, x, tick), sk_timer_stop(timer, x)}
      /\ Runs(t) /\ sched' = sched /\ pc' = pc /\ target' = target /\ why' = why
      /\ UNCHANGED <<timeVars, isrVars, cpuVars>>
    BY DEF UseTimer, At
<1>2. x \in Timer /\ x \notin Thread /\ timer \in TimerState /\ tick \in Tick
    BY VarTypes, SysTimerAssumption DEF Timer
<1>3. /\ timer' \in TimerState /\ timer'.periodic = timer.periodic
      /\ \A u \in Thread : u \in timer'.active => u \in timer.active
    BY <1>1, <1>2, TimerStartFacts, TimerStopFacts
<1>4. TargetInv' /\ ThreadTimerInv'
    BY <1>1, <1>3 DEF Inv, TargetInv, ThreadTimerInv
<1>. QED BY Zenon, <1>1, <1>3, <1>4, VarTypes, CallInv DEF Inv

\* Inv is inductive.
LEMMA NextInv == Inv /\ [Next]_vars => Inv'
<1>. SUFFICES ASSUME Inv, [Next]_vars PROVE Inv'
    OBVIOUS
<1>1. CASE Boot
    BY <1>1, BootStep
<1>2. CASE TickInterrupt
    BY <1>2, TickStep
<1>3. CASE TimerWalk
    BY <1>3, WalkStep
<1>4. CASE Leave
    BY <1>4, LeaveStep
<1>5. ASSUME NEW t \in App, Call(t) PROVE Inv'
    <2>. t \in Thread /\ App \subseteq Thread
        BY DEF App
    <2>1. ASSUME NEW ticks \in Sleeps, Sleep(t, ticks) PROVE Inv'
        BY <2>1, SleepStep
    <2>2. ASSUME NEW u \in App, SuspendTest(t, u) \/ ResumeTest(t, u) PROVE Inv'
        BY <2>2, TestStep
    <2>3. ASSUME NEW u \in App, Create(t, u) PROVE Inv'
        BY <2>3, CreateStep
    <2>4. ASSUME At(t, "run"), Exit(t) PROVE Inv'
        BY <2>4, ExitStep DEF At
    <2>5. ASSUME NEW x \in UserTimer, UseTimer(t, x) PROVE Inv'
        BY <2>5, UseTimerStep
    <2>. QED BY <1>5, <2>1, <2>2, <2>3, <2>4, <2>5 DEF Call
<1>6. ASSUME NEW t \in App, Proceed(t) PROVE Inv'
    <2>. t \in Thread
        BY DEF App
    <2>. QED BY <1>6, ScheduleStep, SuspendStep, ResumeStep, StartupStep, ExitStep
             DEF Proceed, At
<1>7. CASE UNCHANGED vars
    <2>1. /\ sched' = sched /\ timer' = timer /\ tick' = tick
          /\ remain_tick' = remain_tick /\ in_isr' = in_isr /\ cursor' = cursor
          /\ cpu' = cpu /\ frame' = frame /\ irq_switch' = irq_switch /\ pc' = pc
          /\ target' = target /\ why' = why
        BY <1>7 DEF vars
    <2>. QED BY Zenon, <2>1 DEF Inv, TypeOK, KernelTypeOK, BootInv, CpuInv, TargetInv,
                          ThreadTimerInv
<1>. QED BY <1>1, <1>2, <1>3, <1>4, <1>5, <1>6, <1>7 DEF Next, Machine

-----------------------------------------------------------------------------
(* The theorems *)

\* Every behaviour of the kernel satisfies the inductive invariant.
THEOREM Invariance == Spec => []Inv
BY InitInv, NextInv, PTL DEF Spec

\* Every variable keeps its type; in particular remain_tick, which
\* sk_tick_increase decrements as an unsigned number, never reaches zero.
THEOREM TypeCorrect == Spec => []TypeOK
<1>1. Inv => TypeOK
    BY DEF Inv
<1>. QED BY <1>1, Invariance, PTL

\* The bitmap, the ready lists and the thread states that sk_schedule trusts
\* agree, whatever the thread calls and the tick handler do and in any order.
THEOREM ReadyListsCorrect == Spec => []ReadyListsExact
<1>1. Inv => ReadyListsExact
    <2>. SUFFICES ASSUME Inv PROVE ReadyListsExact
        OBVIOUS
    <2>1. BitmapExact(sched) /\ HomeList(sched)
        BY DEF Inv, SchedInv, WellFormed
    <2>2. ASSUME NEW t \in Thread, Linked(sched, t) PROVE Ready(sched, t)
        <3>1. PICK h \in Heads : LinkedIn(sched, t, h)
            BY <2>2 DEF Linked
        <3>2. h \in Prio
            BY <3>1, SchedConstants DEF Inv, SchedInv, StatesFit
        <3>. QED BY <2>1, <3>1, <3>2 DEF HomeList, Ready
    <2>3. \A t \in Thread : Fits(sched, t)
        BY DEF Inv, SchedInv, StatesFit
    <2>. QED BY <2>1, <2>2, <2>3 DEF ReadyListsExact, Ready, Fits
<1>. QED BY <1>1, Invariance, PTL

\* A thread's tlist is in at most one list and at most once: no call order and
\* no interrupt makes sk_list_add_tail link a node that is already linked.
THEOREM LinkedOnceCorrect == Spec => []LinkedOnce
<1>1. Inv => LinkedOnce
    BY DEF Inv, SchedInv, WellFormed, LinkedOnce
<1>. QED BY <1>1, Invariance, PTL

\* At most one thread is RUNNING or carries YIELD, it is current_thread, and
\* it is in no ready list, inside the tick handler too.
THEOREM OneRunningCorrect == Spec => []OneRunning
<1>1. Inv => OneRunning
    BY DEF Inv, SchedInv, StatesFit, Fits, OneRunning
<1>. QED BY <1>1, Invariance, PTL

\* However many switches one handler asks for, vector_irq saves the frame of
\* the interrupted thread in its own place and resumes current_thread.
THEOREM ContextCorrect == Spec => []ContextIntact
<1>1. Inv => ContextIntact
    BY DEF Inv, CpuInv, ContextIntact
<1>. QED BY <1>1, Invariance, PTL

\* No timer is armed for a thread that sk_thread_suspend has stopped.
THEOREM SuspendedCorrect == Spec => []SuspendedUntilResumed
<1>1. Inv => SuspendedUntilResumed
    BY DEF Inv, ThreadTimerInv, SuspendedUntilResumed
<1>. QED BY <1>1, Invariance, PTL

=============================================================================
