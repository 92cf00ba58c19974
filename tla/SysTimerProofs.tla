--------------------------- MODULE SysTimerProofs ---------------------------
(***************************************************************************)
(* What the timer operations return, for every set of timers and every     *)
(* width of the tick counter.                                              *)
(***************************************************************************)
EXTENDS SysTimer, SeqLemmas, TLAPS

LEMMA TickType ==
    /\ Tick \subseteq Nat /\ 0 \in Tick
    /\ \A i \in Nat : i % TickMod \in Tick
BY SysTimerAssumption DEF Tick

LEMMA TimerParts ==
    ASSUME NEW m \in TimerState
    PROVE  /\ m.list \in Seq(Timer) /\ m.active \in SUBSET Timer
           /\ m.periodic \in SUBSET Timer
           /\ m.init \in [Timer -> Tick] /\ m.timeout \in [Timer -> Tick]
           /\ m.freed \in SUBSET Timer
BY DEF TimerState

LEMMA RemoveFirstType ==
    ASSUME NEW S, NEW q \in Seq(S), NEW e
    PROVE  RemoveFirst(q, e) \in Seq(S)
BY RemoveFirstAbsent, RemoveFirstPresent

\* sk_timer_start arms the timer, sk_timer_stop and sk_timer_delete disarm it,
\* and none of them touches another timer's flags.
LEMMA TimerStartFacts ==
    ASSUME NEW m \in TimerState, NEW x \in Timer, NEW now \in Tick,
           NEW r, r = sk_timer_start(m, x, now)
    PROVE  /\ r \in TimerState
           /\ r.active = m.active \cup {x} /\ r.periodic = m.periodic
<1>. DEFINE q == <<x>> \o RemoveFirst(m.list, x)
            tick1 == (now + m.init[x]) % TickMod
<1>1. q \in Seq(Timer)
    BY TimerParts, RemoveFirstType, ConcatProperties
<1>2. tick1 \in Tick
    <2>1. now \in Nat /\ m.init[x] \in Nat
        BY Zenon, TimerParts, TickType
    <2>2. now + m.init[x] \in Nat
        BY <2>1
    <2>. QED BY <2>2, TickType, Zenon
<1>3. r = [m EXCEPT !.list = q, !.timeout[x] = tick1, !.active = @ \cup {x}]
    BY DEF sk_timer_start
<1>. HIDE DEF q, tick1
<1>4. [m.timeout EXCEPT ![x] = tick1] \in [Timer -> Tick]
    BY <1>2, TimerParts
<1>5. r = [m EXCEPT !.list = q, !.timeout = [m.timeout EXCEPT ![x] = tick1],
                    !.active = m.active \cup {x}]
    BY <1>3 DEF TimerState
<1>6. /\ r.list = q /\ r.active = m.active \cup {x} /\ r.periodic = m.periodic
      /\ r.init = m.init /\ r.timeout = [m.timeout EXCEPT ![x] = tick1]
      /\ r.freed = m.freed
      /\ r = [list |-> r.list, active |-> r.active, periodic |-> r.periodic,
              init |-> r.init, timeout |-> r.timeout, freed |-> r.freed]
    BY Zenon, <1>5 DEF TimerState
<1>7. m.active \cup {x} \in SUBSET Timer /\ m.periodic \in SUBSET Timer
      /\ m.init \in [Timer -> Tick] /\ m.freed \in SUBSET Timer
    BY TimerParts
<1>. QED BY <1>1, <1>4, <1>6, <1>7 DEF TimerState

LEMMA TimerStopFacts ==
    ASSUME NEW m \in TimerState, NEW x \in Timer
    PROVE  /\ sk_timer_stop(m, x) \in TimerState
           /\ sk_timer_stop(m, x).active = m.active \ {x}
           /\ sk_timer_stop(m, x).periodic = m.periodic
           /\ sk_timer_delete(m, x) \in TimerState
           /\ sk_timer_delete(m, x).active = m.active \ {x}
           /\ sk_timer_delete(m, x).periodic = m.periodic
<1>1. RemoveFirst(m.list, x) \in Seq(Timer)
    BY TimerParts, RemoveFirstType
<1>. QED BY Zenon, <1>1 DEF TimerState, sk_timer_stop, sk_timer_delete

LEMMA StartWithFacts ==
    ASSUME NEW m \in TimerState, NEW x \in Timer, NEW now \in Tick, NEW ticks \in Tick,
           NEW r, r = StartWith(m, x, ticks, now)
    PROVE  /\ r \in TimerState
           /\ r.active = m.active \cup {x} /\ r.periodic = m.periodic
<1>. DEFINE c == sk_timer_control(m, x, ticks)
<1>1. [m.init EXCEPT ![x] = ticks] \in [Timer -> Tick]
    BY TimerParts
<1>2. c = [m EXCEPT !.init = [m.init EXCEPT ![x] = ticks]]
    BY DEF sk_timer_control, TimerState
<1>3. c \in TimerState /\ c.active = m.active /\ c.periodic = m.periodic
    BY Zenon, <1>1, <1>2 DEF TimerState
<1>4. r = sk_timer_start(c, x, now)
    BY DEF StartWith
<1>. HIDE DEF c
<1>. QED BY <1>3, <1>4, TimerStartFacts

LEMMA AfterCallbackFacts ==
    ASSUME NEW m \in TimerState, NEW x \in Timer, NEW now \in Tick,
           NEW r, r = AfterCallback(m, x, now)
    PROVE  /\ r \in TimerState /\ r.periodic = m.periodic
           /\ \A y \in Timer : y \in r.active =>
                 y \in m.active \/ (y = x /\ x \in m.periodic)
<1>1. CASE x \in m.periodic
    BY <1>1, TimerStartFacts DEF AfterCallback
<1>2. CASE x \notin m.periodic
    BY <1>2 DEF AfterCallback, TimerState
<1>. QED BY <1>1, <1>2

LEMMA CursorType ==
    ASSUME NEW m \in TimerState
    PROVE  /\ FirstTimer(m) \in Timer \cup {NULL}
           /\ \A x : TimerAfter(m, x) \in Timer \cup {NULL}
<1>1. m.list \in Seq(Timer)
    BY TimerParts
<1>2. FirstTimer(m) \in Timer \cup {NULL}
    BY <1>1, EmptySeq DEF FirstTimer
<1>3. ASSUME NEW x PROVE TimerAfter(m, x) \in Timer \cup {NULL}
    <2>. DEFINE I == {i \in 1 .. Len(m.list) : m.list[i] = x}
                at == IF I # {} THEN Min(I) ELSE 0
    <2>1. TimerAfter(m, x) = IF at < Len(m.list) THEN m.list[at + 1] ELSE NULL
        BY Zenon DEF TimerAfter, SelectInSeq
    <2>2. at \in 0 .. Len(m.list)
        <3>1. I \in SUBSET Nat /\ I \subseteq 1 .. Len(m.list)
            BY <1>1
        <3>. HIDE DEF I
        <3>2. I # {} => Min(I) \in I
            BY <3>1, MinProperties
        <3>3. Len(m.list) \in Nat
            BY <1>1
        <3>4. CASE I = {}
            BY <3>3, <3>4
        <3>5. CASE I # {}
            <4>1. Min(I) \in 1 .. Len(m.list)
                BY Zenon, <3>1, <3>2, <3>5
            <4>. QED BY <3>5, <4>1, <3>3
        <3>. QED BY <3>4, <3>5
    <2>. HIDE DEF at
    <2>. QED BY <1>1, <2>1, <2>2
<1>. QED BY <1>2, <1>3

=============================================================================
