--------------------------- MODULE DispatchProofs ---------------------------
(***************************************************************************)
(* Every switch goes to a thread that no waiting thread outranks, for every*)
(* number of threads and priorities, all time slices and sleeps.           *)
(***************************************************************************)
EXTENDS ThreadApiProofs

USE DEF SK_THREAD_INIT, SK_THREAD_READY, SK_THREAD_SUSPEND, SK_THREAD_RUNNING,
        SK_THREAD_CLOSE, SK_THREAD_YIELD

\* Every change of current_thread after start-up is a result of sk_schedule.
LEMMA SwitchOrigin ==
    ASSUME Inv, Next, Switches
    PROVE  \E s : SchedInv(s) /\ s.current = sched.current /\ sched' = sk_schedule(s)
<1>. sched.current \in Thread /\ sched'.current # sched.current
    BY VarTypes DEF Switches
<1>1. CASE Boot
    BY <1>1 DEF Boot, BootCreate, SchedulerStart, Switches
<1>2. CASE TickInterrupt
    <2>. DEFINE s == SetStat(sched, sched.current, WithYield(sched.stat[sched.current]))
    <2>1. SchedInv(s) /\ s.current = sched.current
        BY YieldInv DEF Inv
    <2>2. sched' = sk_schedule(s)
        BY <1>2 DEF TickInterrupt, TickIsr
    <2>. QED BY <2>1, <2>2
<1>3. CASE TimerWalk
    <2>. DEFINE s == ResumeThread(sched, cursor)
    <2>1. cursor \in Thread /\ sched' = sk_schedule(s)
        BY Zenon, <1>3 DEF TimerWalk, TimerCheck, Callback, SchedBecomes, sk_thread_timeout
    <2>2. SchedInv(s) /\ s.current = sched.current
        BY <2>1, ResumeInv DEF Inv
    <2>. QED BY <2>1, <2>2
<1>4. CASE Leave
    BY <1>4 DEF Leave, IsrLeave
<1>5. ASSUME NEW t \in Thread, At(t, "run") \/ At(t, "exit"), Exit(t)
      PROVE  \E s : SchedInv(s) /\ s.current = sched.current /\ sched' = sk_schedule(s)
    <2>. DEFINE s == SetStat(sk_schedule_remove_thread(sched, sched.current),
                             sched.current, SK_THREAD_CLOSE)
    <2>1. t = sched.current
        BY <1>5, RunsCurrent DEF At
    <2>2. SchedInv(s) /\ s.current = sched.current
        BY CloseInv DEF Inv
    <2>3. sched' = sk_schedule(s)
        BY Zenon, <1>5, <2>1 DEF Exit, SchedBecomes, ExitThread
    <2>. QED BY <2>2, <2>3
<1>6. ASSUME NEW t \in App, Call(t)
      PROVE  \E s : SchedInv(s) /\ s.current = sched.current /\ sched' = sk_schedule(s)
    <2>. t \in Thread /\ App \subseteq Thread
        BY DEF App
    <2>1. ASSUME NEW ticks \in Sleeps, Sleep(t, ticks) PROVE FALSE
        BY <2>1, SuspendInv DEF Sleep, Inv
    <2>2. ASSUME NEW u \in App, SuspendTest(t, u) \/ ResumeTest(t, u) PROVE FALSE
        BY <2>2 DEF SuspendTest, ResumeTest
    <2>3. ASSUME NEW u \in App, Create(t, u) PROVE FALSE
        BY Zenon, <2>3, CreateInv DEF Create, Inv
    <2>4. ASSUME NEW x \in UserTimer, UseTimer(t, x) PROVE FALSE
        BY <2>4 DEF UseTimer
    <2>. QED BY <1>5, <1>6, <2>1, <2>2, <2>3, <2>4 DEF Call
<1>7. ASSUME NEW t \in App, Proceed(t)
      PROVE  \E s : SchedInv(s) /\ s.current = sched.current /\ sched' = sk_schedule(s)
    <2>. t \in Thread
        BY DEF App
    <2>1. CASE Schedule(t)
        BY Zenon, <2>1 DEF Schedule, Reschedule, SchedBecomes, Inv
    <2>2. ASSUME Suspend(t) PROVE FALSE
        BY <2>2, SuspendInv DEF Suspend, At, Inv, TargetInv
    <2>3. ASSUME Resume(t) PROVE FALSE
        BY Zenon, <2>3, ResumeInv DEF Resume, At, Inv, TargetInv
    <2>4. ASSUME Startup(t) PROVE FALSE
        BY Zenon, <2>4, StartupInv, RunsCurrent DEF Startup, At, Inv, TargetInv
    <2>. QED BY Zenon, <1>5, <1>7, <2>1, <2>2, <2>3, <2>4 DEF Proceed
<1>. QED BY <1>1, <1>2, <1>3, <1>4, <1>6, <1>7 DEF Next, Machine

\* No thread that waits in a ready list outranks the one sk_schedule switches
\* to, in thread context or at the end of a handler.
THEOREM DispatchCorrect == Spec => DispatchesHighest
<1>. DEFINE A == Switches =>
                    \A u \in Thread \ {sched.current} :
                       Ready(sched', u) => Priority[sched'.current] <= Priority[u]
<1>1. Inv /\ [Next]_vars => [A]_vars
    <2>. SUFFICES ASSUME Inv, Next, Switches, NEW u \in Thread, u # sched.current,
                         Ready(sched', u)
                  PROVE  Priority[sched'.current] <= Priority[u]
        BY Zenon
    <2>1. PICK s : SchedInv(s) /\ s.current = sched.current /\ sched' = sk_schedule(s)
        BY SwitchOrigin
    <2>2. /\ WellFormed(s) /\ s.current \in Thread /\ ~Linked(s, s.current)
          /\ sk_schedule(s) # s
        BY Zenon, <2>1, VarTypes DEF SchedInv, StatesFit, Fits, Switches
    <2>. DEFINE r == sk_schedule(s)
    <2>3. /\ \A q \in Prio : LinkedIn(s, u, q) => Priority[r.current] <= q
          /\ \A h \in Heads : LinkedIn(r, u, h) => LinkedIn(s, u, h)
        <3>1. /\ \A v \in Thread : \A q \in Prio :
                    LinkedIn(s, v, q) => Priority[r.current] <= q
              /\ \/ \A v \in Thread : \A h \in Heads :
                       LinkedIn(r, v, h) <=> LinkedIn(s, v, h) /\ v # r.current
                 \/ \A v \in Thread : \A h \in Heads :
                       LinkedIn(r, v, h) <=>
                          (\/ LinkedIn(s, v, h) /\ v # r.current
                           \/ v = s.current /\ h = Priority[v])
            BY <2>2, ScheduleFacts, Zenon
        <3>. HIDE DEF r
        <3>. QED BY <2>1, <3>1
    <2>. QED BY Zenon, <2>1, <2>3, SchedConstants DEF Ready
<1>. QED BY <1>1, Invariance, PTL DEF Spec, DispatchesHighest

=============================================================================
