----------------------------- MODULE SchedProofs -----------------------------
(***************************************************************************)
(* What the operations of Sched do to the lists, for every set of threads, *)
(* priorities and wait lists.  Each lemma describes an operation by who is *)
(* linked where afterwards, and shows that WellFormed survives it.  The    *)
(* second part shows that SchedInv, which adds the threads' states, does.  *)
(***************************************************************************)
EXTENDS Sched, SeqLemmas, TLAPS

\* What the lemmas need to know of the constants.
LEMMA SchedConstants ==
    /\ Prio \subseteq Heads /\ WaitList \subseteq Heads /\ Prio \subseteq Nat
    /\ Idle \in Thread /\ NULL \notin Thread
    /\ \A t \in Thread : Priority[t] \in Prio
    /\ \A h \in Heads : h \in Prio \/ h \in WaitList
    /\ \A h \in WaitList : h \notin Prio
BY SchedAssumption DEF Prio, Heads

\* The types of the parts of a scheduler state.
LEMMA SchedParts ==
    ASSUME NEW s \in SchedState
    PROVE  /\ s.current \in Thread \cup {NULL}
           /\ s.stat \in [Thread -> Stat]
           /\ s.list \in [Heads -> Seq(Thread)]
           /\ s.group \in SUBSET Prio
           /\ s.relinked \in BOOLEAN
BY DEF SchedState

\* The values of thread->stat: what the two masks make of them.
LEMMA StatValues ==
    /\ \A st \in Stat : Masked(st) \in BaseStat /\ WithYield(st) \in Stat
    /\ \A st \in BaseStat : st \in Stat /\ Masked(st) = st /\ st < SK_THREAD_YIELD
    /\ \A st \in Stat : st < SK_THREAD_YIELD => st \in BaseStat
    /\ \A st \in Stat : Masked(WithYield(st)) = Masked(st) /\ WithYield(st) >= SK_THREAD_YIELD
BY DEF Stat, BaseStat, Masked, WithYield, SK_THREAD_INIT, SK_THREAD_READY,
       SK_THREAD_SUSPEND, SK_THREAD_RUNNING, SK_THREAD_CLOSE, SK_THREAD_YIELD

\* BitmapExact in terms of links.
LEMMA BitmapLinks ==
    ASSUME NEW s \in SchedState
    PROVE  \A p \in Prio : s.list[p] # <<>> <=> \E u \in Thread : LinkedIn(s, u, p)
BY SchedParts, SchedConstants, EmptyContains DEF LinkedIn

\* sk_list_del unlinks the thread and touches no other link.
LEMMA DelFacts ==
    ASSUME NEW s \in SchedState, LinksOnce(s), NEW t \in Thread,
           NEW d, d = sk_list_del(s, t)
    PROVE  /\ d \in SchedState /\ LinksOnce(d)
           /\ d.current = s.current /\ d.stat = s.stat
           /\ d.group = s.group
           /\ \A u \in Thread : \A h \in Heads :
                 LinkedIn(d, u, h) <=> LinkedIn(s, u, h) /\ u # t
<1>1. \A h \in Heads : s.list[h] \in Seq(Thread) /\ IsInjective(s.list[h])
    BY SchedParts DEF LinksOnce
<1>2. \A h \in Heads :
         /\ RemoveFirst(s.list[h], t) \in Seq(Thread)
         /\ IsInjective(RemoveFirst(s.list[h], t))
         /\ \A u : Contains(RemoveFirst(s.list[h], t), u)
                      <=> Contains(s.list[h], u) /\ u # t
    BY <1>1, RemoveFirstInjective
<1>3. /\ d.current = s.current /\ d.stat = s.stat /\ d.group = s.group
      /\ d.relinked = s.relinked
      /\ d.list = [h \in Heads |-> RemoveFirst(s.list[h], t)]
    BY DEF sk_list_del, SchedState
<1>4. d \in SchedState
    BY Zenon, <1>2 DEF sk_list_del, SchedState
<1>5. \A u \in Thread : \A h \in Heads :
         LinkedIn(d, u, h) <=> LinkedIn(s, u, h) /\ u # t
    BY Zenon, <1>2, <1>3 DEF LinkedIn
<1>6. LinksOnce(d)
    BY <1>2, <1>3, <1>5 DEF LinksOnce
<1>. QED BY <1>3, <1>4, <1>5, <1>6

\* sk_list_add_tail links a thread that is in no list.
LEMMA AddFacts ==
    ASSUME NEW s \in SchedState, LinksOnce(s), NEW t \in Thread, ~Linked(s, t),
           NEW l \in Heads, NEW d, d = sk_list_add_tail(s, l, t)
    PROVE  /\ d \in SchedState /\ LinksOnce(d)
           /\ d.current = s.current /\ d.stat = s.stat
           /\ d.group = s.group
           /\ \A u \in Thread : \A h \in Heads :
                 LinkedIn(d, u, h) <=> LinkedIn(s, u, h) \/ (u = t /\ h = l)
<1>1. \A h \in Heads : s.list[h] \in Seq(Thread) /\ IsInjective(s.list[h])
    BY SchedParts DEF LinksOnce
<1>2. ~Contains(s.list[l], t)
    BY DEF Linked, LinkedIn
<1>3. /\ Append(s.list[l], t) \in Seq(Thread)
      /\ IsInjective(Append(s.list[l], t))
      /\ \A u : Contains(Append(s.list[l], t), u) <=> Contains(s.list[l], u) \/ u = t
    BY <1>1, <1>2, AppendInjectiveSeq
<1>4. /\ d.current = s.current /\ d.stat = s.stat /\ d.group = s.group
      /\ d.relinked = s.relinked
      /\ d.list = [s.list EXCEPT ![l] = Append(s.list[l], t)]
    BY DEF sk_list_add_tail, SchedState
<1>5. d \in SchedState
    BY Zenon, <1>3 DEF sk_list_add_tail, SchedState
<1>6. \A u \in Thread : \A h \in Heads :
         LinkedIn(d, u, h) <=> LinkedIn(s, u, h) \/ (u = t /\ h = l)
    BY <1>3, <1>4, SchedParts DEF LinkedIn
<1>7. LinksOnce(d)
    <2>1. ~d.relinked BY <1>4 DEF LinksOnce
    <2>2. \A h \in Heads : IsInjective(d.list[h])
        BY <1>1, <1>3, <1>4, SchedParts
    <2>3. ASSUME NEW u \in Thread, NEW g \in Heads, NEW h \in Heads,
                 LinkedIn(d, u, g), LinkedIn(d, u, h)
          PROVE  g = h
        BY <1>6, <2>3 DEF Linked, LinksOnce
    <2>. QED BY <2>1, <2>2, <2>3 DEF LinksOnce
<1>. QED BY <1>4, <1>5, <1>6, <1>7

\* sk_schedule_remove_thread keeps the bitmap exact, whichever list the thread
\* was in and also when it was in none.
LEMMA RemoveFacts ==
    ASSUME NEW s, WellFormed(s), NEW t \in Thread,
           NEW r, r = sk_schedule_remove_thread(s, t)
    PROVE  /\ WellFormed(r)
           /\ r.current = s.current /\ r.stat = s.stat
           /\ \A u \in Thread : \A h \in Heads :
                 LinkedIn(r, u, h) <=> LinkedIn(s, u, h) /\ u # t
<1>. DEFINE d == sk_list_del(s, t)
<1>1. s \in SchedState /\ LinksOnce(s) /\ HomeList(s) /\ BitmapExact(s)
    BY DEF WellFormed
<1>2. /\ d \in SchedState /\ LinksOnce(d)
      /\ d.current = s.current /\ d.stat = s.stat /\ d.group = s.group
      /\ \A u \in Thread : \A h \in Heads :
            LinkedIn(d, u, h) <=> LinkedIn(s, u, h) /\ u # t
    BY <1>1, DelFacts
<1>3. r = [d EXCEPT !.group = IF d.list[Priority[t]] = <<>>
                              THEN @ \ {Priority[t]} ELSE @]
    BY DEF sk_schedule_remove_thread
<1>. HIDE DEF d
<1>4. /\ r \in SchedState /\ r.list = d.list /\ r.relinked = d.relinked
      /\ r.current = d.current /\ r.stat = d.stat
      /\ r.group = IF d.list[Priority[t]] = <<>>
                   THEN d.group \ {Priority[t]} ELSE d.group
    BY <1>2, <1>3 DEF SchedState
<1>5. \A u \in Thread : \A h \in Heads : LinkedIn(r, u, h) <=> LinkedIn(d, u, h)
    BY <1>4 DEF LinkedIn
<1>6. LinksOnce(r)
    BY <1>2, <1>4, <1>5 DEF LinksOnce
<1>7. HomeList(r)
    BY <1>1, <1>2, <1>5, SchedConstants DEF HomeList
<1>8. BitmapExact(r)
    <2>. SUFFICES ASSUME NEW p \in Prio
                  PROVE  p \in r.group <=> r.list[p] # <<>>
        BY DEF BitmapExact
    <2>1. p \in s.group <=> \E u \in Thread : LinkedIn(s, u, p)
        BY <1>1, BitmapLinks DEF BitmapExact
    <2>2. d.list[p] # <<>> <=> \E u \in Thread : LinkedIn(d, u, p)
        BY <1>2, BitmapLinks
    <2>3. CASE p = Priority[t]
        BY <1>2, <1>4, <2>1, <2>2, <2>3, SchedConstants
    <2>4. CASE p # Priority[t]
        <3>1. ~LinkedIn(s, t, p)
            BY <1>1, <2>4 DEF HomeList
        <3>. QED BY <1>2, <1>4, <2>1, <2>2, <2>4, <3>1, SchedConstants
    <2>. QED BY <2>3, <2>4
<1>. QED BY <1>2, <1>4, <1>5, <1>6, <1>7, <1>8 DEF WellFormed

\* sk_schedule_insert_thread of a thread that is in no list.  The bit of its
\* priority may be stale, as it is after a bare sk_list_del.
LEMMA InsertFacts ==
    ASSUME NEW s \in SchedState, LinksOnce(s), HomeList(s),
           NEW t \in Thread, t # s.current, ~Linked(s, t),
           \A p \in Prio \ {Priority[t]} : p \in s.group <=> s.list[p] # <<>>,
           NEW r, r = sk_schedule_insert_thread(s, t)
    PROVE  /\ WellFormed(r)
           /\ r.current = s.current
           /\ r.stat = [s.stat EXCEPT ![t] = SK_THREAD_READY]
           /\ \A u \in Thread : \A h \in Heads :
                 LinkedIn(r, u, h) <=> LinkedIn(s, u, h) \/ (u = t /\ h = Priority[t])
<1>. DEFINE d == sk_list_add_tail(s, Priority[t], t)
<1>1. /\ d \in SchedState /\ LinksOnce(d)
      /\ d.current = s.current /\ d.stat = s.stat /\ d.group = s.group
      /\ \A u \in Thread : \A h \in Heads :
            LinkedIn(d, u, h) <=> LinkedIn(s, u, h) \/ (u = t /\ h = Priority[t])
    <2>1. Priority[t] \in Heads
        BY Zenon, SchedConstants
    <2>. QED BY <2>1, AddFacts
<1>2. r = [d EXCEPT !.stat[t] = SK_THREAD_READY, !.group = @ \cup {Priority[t]}]
    BY DEF sk_schedule_insert_thread
<1>. HIDE DEF d
<1>3. SK_THREAD_READY \in Stat /\ Priority[t] \in Prio
    BY SchedConstants DEF Stat, BaseStat
<1>4. /\ r \in SchedState /\ r.list = d.list /\ r.relinked = d.relinked
      /\ r.current = d.current /\ r.stat = [d.stat EXCEPT ![t] = SK_THREAD_READY]
      /\ r.group = d.group \cup {Priority[t]}
    <2>1. /\ d.stat \in [Thread -> Stat] /\ d.group \in SUBSET Prio
          /\ [d.stat EXCEPT ![t] = SK_THREAD_READY] \in [Thread -> Stat]
          /\ d.group \cup {Priority[t]} \in SUBSET Prio
        BY <1>1, <1>3, SchedParts
    <2>2. r = [d EXCEPT !.stat = [d.stat EXCEPT ![t] = SK_THREAD_READY],
                        !.group = d.group \cup {Priority[t]}]
        BY <1>1, <1>2 DEF SchedState
    <2>. QED BY Zenon, <1>1, <2>1, <2>2 DEF SchedState
<1>5. \A u \in Thread : \A h \in Heads : LinkedIn(r, u, h) <=> LinkedIn(d, u, h)
    BY <1>4 DEF LinkedIn
<1>6. LinksOnce(r)
    BY <1>1, <1>4, <1>5 DEF LinksOnce
<1>7. HomeList(r)
    BY <1>1, <1>5, SchedConstants DEF HomeList
<1>8. BitmapExact(r)
    <2>. SUFFICES ASSUME NEW p \in Prio
                  PROVE  p \in r.group <=> r.list[p] # <<>>
        BY DEF BitmapExact
    <2>1. s.list[p] # <<>> <=> \E u \in Thread : LinkedIn(s, u, p)
        BY BitmapLinks
    <2>2. d.list[p] # <<>> <=> \E u \in Thread : LinkedIn(d, u, p)
        BY <1>1, BitmapLinks
    <2>. QED BY <1>1, <1>4, <2>1, <2>2, SchedConstants
<1>. QED BY <1>1, <1>4, <1>5, <1>6, <1>7, <1>8 DEF WellFormed

\* ResumeThread, of sk_thread_resume and sk_thread_timeout, moves any thread to
\* the tail of its ready list, from whichever list it is in.
LEMMA ResumeFacts ==
    ASSUME NEW s, WellFormed(s), NEW t \in Thread, t # s.current,
           NEW r, r = ResumeThread(s, t)
    PROVE  /\ WellFormed(r)
           /\ r.current = s.current
           /\ r.stat = [s.stat EXCEPT ![t] = SK_THREAD_READY]
           /\ \A u \in Thread : \A h \in Heads :
                 LinkedIn(r, u, h) <=>
                    (u # t /\ LinkedIn(s, u, h)) \/ (u = t /\ h = Priority[t])
<1>. DEFINE d == sk_list_del(s, t)
<1>1. s \in SchedState /\ LinksOnce(s) /\ HomeList(s) /\ BitmapExact(s)
    BY DEF WellFormed
<1>2. /\ d \in SchedState /\ LinksOnce(d)
      /\ d.current = s.current /\ d.stat = s.stat /\ d.group = s.group
      /\ \A u \in Thread : \A h \in Heads :
            LinkedIn(d, u, h) <=> LinkedIn(s, u, h) /\ u # t
    BY <1>1, DelFacts
<1>3. r = sk_schedule_insert_thread(d, t)
    BY DEF ResumeThread
<1>. HIDE DEF d
<1>4. ~Linked(d, t) /\ HomeList(d)
    BY Zenon, <1>1, <1>2, SchedConstants DEF Linked, HomeList
<1>5. ASSUME NEW p \in Prio \ {Priority[t]}
      PROVE  p \in d.group <=> d.list[p] # <<>>
    <2>1. p \in s.group <=> \E u \in Thread : LinkedIn(s, u, p)
        BY <1>1, BitmapLinks DEF BitmapExact
    <2>2. d.list[p] # <<>> <=> \E u \in Thread : LinkedIn(d, u, p)
        BY <1>2, BitmapLinks
    <2>3. ~LinkedIn(s, t, p)
        BY <1>1 DEF HomeList
    <2>. QED BY <1>2, <2>1, <2>2, <2>3, SchedConstants
<1>. QED BY <1>2, <1>3, <1>4, <1>5, InsertFacts

\* __schedule_get_hp_thread returns a linked thread of the highest priority in
\* any ready list.
LEMMA HighestFacts ==
    ASSUME NEW s, WellFormed(s), s.group # {},
           NEW to, to = schedule_get_hp_thread(s)
    PROVE  /\ to \in Thread /\ LinkedIn(s, to, Priority[to])
           /\ ready_hp_prio(s) = Priority[to]
           /\ \A u \in Thread : \A q \in Prio :
                 LinkedIn(s, u, q) => Priority[to] <= q
<1>. DEFINE p == ready_hp_prio(s)
<1>1. s \in SchedState /\ HomeList(s) /\ BitmapExact(s)
    BY DEF WellFormed
<1>2. s.group \in SUBSET Prio /\ s.group \in SUBSET Nat
    BY Zenon, <1>1, SchedParts, SchedConstants
<1>3. p \in s.group /\ \A q \in s.group : p <= q
    BY <1>2, MinProperties DEF ready_hp_prio
<1>4. to = Head(s.list[p])
    BY DEF schedule_get_hp_thread
<1>. HIDE DEF p
<1>5. s.list[p] # <<>> /\ s.list[p] \in Seq(Thread) /\ p \in Prio
    BY <1>1, <1>2, <1>3, SchedParts, SchedConstants DEF BitmapExact
<1>6. to \in Thread /\ LinkedIn(s, to, p)
    BY <1>4, <1>5, EmptyContains DEF LinkedIn
<1>7. p = Priority[to]
    BY <1>1, <1>5, <1>6 DEF HomeList
<1>8. ASSUME NEW u \in Thread, NEW q \in Prio, LinkedIn(s, u, q)
      PROVE  p <= q
    BY <1>1, <1>3, <1>8, BitmapLinks DEF BitmapExact
<1>. QED BY <1>6, <1>7, <1>8 DEF p

\* Changing one thread's stat, or the current thread, changes no link.
LEMMA StatFacts ==
    ASSUME NEW s, WellFormed(s), NEW t \in Thread, NEW st \in Stat,
           NEW r, r = SetStat(s, t, st)
    PROVE  /\ WellFormed(r)
           /\ r.current = s.current
           /\ r.stat = [s.stat EXCEPT ![t] = st]
           /\ \A u \in Thread : \A h \in Heads : LinkedIn(r, u, h) <=> LinkedIn(s, u, h)
<1>1. s \in SchedState
    BY DEF WellFormed
<1>2. r = [s EXCEPT !.stat = [s.stat EXCEPT ![t] = st]]
    BY <1>1 DEF SchedState, SetStat
<1>3. [s.stat EXCEPT ![t] = st] \in [Thread -> Stat]
    BY <1>1, SchedParts
<1>4. /\ r \in SchedState /\ r.list = s.list /\ r.relinked = s.relinked
      /\ r.group = s.group /\ r.current = s.current
      /\ r.stat = [s.stat EXCEPT ![t] = st]
    BY Zenon, <1>1, <1>2, <1>3 DEF SchedState
<1>. QED BY <1>4 DEF WellFormed, LinksOnce, HomeList, BitmapExact, LinkedIn

LEMMA CurrentFacts ==
    ASSUME NEW s, WellFormed(s), NEW t \in Thread,
           NEW r, r = SetCurrent(s, t)
    PROVE  /\ WellFormed(r)
           /\ r.current = t /\ r.stat = s.stat
           /\ \A u \in Thread : \A h \in Heads : LinkedIn(r, u, h) <=> LinkedIn(s, u, h)
<1>1. s \in SchedState
    BY DEF WellFormed
<1>2. /\ r \in SchedState /\ r.list = s.list /\ r.relinked = s.relinked
      /\ r.group = s.group /\ r.current = t /\ r.stat = s.stat
    BY Zenon, <1>1 DEF SchedState, SetCurrent
<1>. QED BY <1>2 DEF WellFormed, LinksOnce, HomeList, BitmapExact, LinkedIn

\* Dispatch takes the chosen thread out of its list and marks it RUNNING.
LEMMA DispatchFacts ==
    ASSUME NEW s, WellFormed(s), NEW to \in Thread,
           NEW r, r = Dispatch(s, to)
    PROVE  /\ WellFormed(r)
           /\ r.current = s.current
           /\ r.stat = [s.stat EXCEPT ![to] = SK_THREAD_RUNNING]
           /\ \A u \in Thread : \A h \in Heads :
                 LinkedIn(r, u, h) <=> LinkedIn(s, u, h) /\ u # to
<1>1. SK_THREAD_RUNNING \in Stat
    BY DEF Stat, BaseStat
<1>2. PICK d : d = sk_schedule_remove_thread(s, to)
    OBVIOUS
<1>3. /\ WellFormed(d) /\ d.current = s.current /\ d.stat = s.stat
      /\ \A u \in Thread : \A h \in Heads :
            LinkedIn(d, u, h) <=> LinkedIn(s, u, h) /\ u # to
    BY <1>2, RemoveFacts
<1>4. r = SetStat(d, to, SK_THREAD_RUNNING)
    BY <1>2 DEF Dispatch
<1>5. /\ WellFormed(r) /\ r.current = d.current
      /\ r.stat = [d.stat EXCEPT ![to] = SK_THREAD_RUNNING]
      /\ \A u \in Thread : \A h \in Heads : LinkedIn(r, u, h) <=> LinkedIn(d, u, h)
    BY <1>1, <1>3, <1>4, StatFacts
<1>. QED BY <1>3, <1>5

\* sk_schedule, called with the running thread in no list: it changes nothing,
\* or it switches to a thread of the highest ready priority.
LEMMA ScheduleFacts ==
    ASSUME NEW s, WellFormed(s), s.current \in Thread, ~Linked(s, s.current),
           NEW r, r = sk_schedule(s), r # s
    PROVE  /\ WellFormed(r)
           /\ r.current \in Thread /\ r.current # s.current
           /\ LinkedIn(s, r.current, Priority[r.current])
           /\ \A u \in Thread : \A q \in Prio :
                 LinkedIn(s, u, q) => Priority[r.current] <= q
           /\ s.stat[s.current] = SK_THREAD_RUNNING =>
                 Priority[r.current] < Priority[s.current]
           /\ \/ /\ s.stat[s.current] \in {SK_THREAD_SUSPEND, SK_THREAD_CLOSE}
                 /\ r.stat = [s.stat EXCEPT ![r.current] = SK_THREAD_RUNNING]
                 /\ \A u \in Thread : \A h \in Heads :
                       LinkedIn(r, u, h) <=> LinkedIn(s, u, h) /\ u # r.current
              \/ /\ s.stat[s.current] \notin {SK_THREAD_SUSPEND, SK_THREAD_CLOSE}
                 /\ r.stat = [s.stat EXCEPT ![s.current] = SK_THREAD_READY,
                                            ![r.current] = SK_THREAD_RUNNING]
                 /\ \A u \in Thread : \A h \in Heads :
                       LinkedIn(r, u, h) <=>
                          (\/ LinkedIn(s, u, h) /\ u # r.current
                           \/ u = s.current /\ h = Priority[u])
<1>. DEFINE from == s.current
            to == schedule_get_hp_thread(s)
            moved == SetCurrent(s, to)
<1>1. /\ s.group # {} /\ ~KeepsCpu(s) /\ to # from
      /\ r = Dispatch(GivesUpCpu(s, to), to)
    BY DEF sk_schedule
<1>2. /\ to \in Thread /\ LinkedIn(s, to, Priority[to])
      /\ ready_hp_prio(s) = Priority[to]
      /\ \A u \in Thread : \A q \in Prio : LinkedIn(s, u, q) => Priority[to] <= q
    BY <1>1, HighestFacts
<1>. HIDE DEF to
<1>3. s.stat[from] = SK_THREAD_RUNNING => Priority[to] < Priority[from]
    BY <1>1, <1>2, SchedConstants DEF KeepsCpu
<1>4. /\ WellFormed(moved) /\ moved.current = to /\ moved.stat = s.stat
      /\ \A u \in Thread : \A h \in Heads : LinkedIn(moved, u, h) <=> LinkedIn(s, u, h)
    BY <1>2, CurrentFacts
<1>5. CASE s.stat[from] \in {SK_THREAD_SUSPEND, SK_THREAD_CLOSE}
    <2>1. r = Dispatch(moved, to)
        BY <1>1, <1>5 DEF GivesUpCpu
    <2>. HIDE DEF moved
    <2>2. /\ WellFormed(r) /\ r.current = to
          /\ r.stat = [s.stat EXCEPT ![to] = SK_THREAD_RUNNING]
          /\ \A u \in Thread : \A h \in Heads :
                LinkedIn(r, u, h) <=> LinkedIn(s, u, h) /\ u # to
        BY <1>2, <1>4, <2>1, DispatchFacts
    <2>. QED BY <1>1, <1>2, <1>3, <1>5, <2>2
<1>6. CASE s.stat[from] \notin {SK_THREAD_SUSPEND, SK_THREAD_CLOSE}
    <2>. DEFINE i == sk_schedule_insert_thread(moved, from)
    <2>1. r = Dispatch(i, to)
        BY <1>1, <1>6 DEF GivesUpCpu
    <2>. HIDE DEF moved
    <2>2. /\ moved \in SchedState /\ LinksOnce(moved) /\ HomeList(moved)
          /\ BitmapExact(moved) /\ from # moved.current /\ ~Linked(moved, from)
        BY <1>1, <1>4 DEF WellFormed, Linked
    <2>3. /\ WellFormed(i) /\ i.current = to
          /\ i.stat = [s.stat EXCEPT ![from] = SK_THREAD_READY]
          /\ \A u \in Thread : \A h \in Heads :
                LinkedIn(i, u, h) <=> LinkedIn(s, u, h) \/ (u = from /\ h = Priority[from])
        <3>1. \A p \in Prio \ {Priority[from]} : p \in moved.group <=> moved.list[p] # <<>>
            BY <2>2 DEF BitmapExact
        <3>. QED BY <1>4, <2>2, <3>1, InsertFacts
    <2>. HIDE DEF i
    <2>4. /\ WellFormed(r) /\ r.current = to
          /\ r.stat = [i.stat EXCEPT ![to] = SK_THREAD_RUNNING]
          /\ \A u \in Thread : \A h \in Heads :
                LinkedIn(r, u, h) <=> LinkedIn(i, u, h) /\ u # to
        BY <1>2, <2>1, <2>3, DispatchFacts
    <2>5. \A u \in Thread : \A h \in Heads :
             LinkedIn(r, u, h) <=> (\/ LinkedIn(s, u, h) /\ u # to
                                    \/ u = from /\ h = Priority[u])
        BY <1>1, <2>3, <2>4
    <2>. QED BY <1>1, <1>2, <1>3, <1>6, <2>3, <2>4, <2>5
<1>. QED BY <1>5, <1>6

-----------------------------------------------------------------------------

\* The state of a thread agrees with the lists and with current_thread.
Fits(s, t) ==
    /\ t = s.current =>
          /\ ~Linked(s, t)
          /\ Masked(s.stat[t]) \in
                {SK_THREAD_RUNNING, SK_THREAD_SUSPEND, SK_THREAD_CLOSE}
    /\ s.stat[t] = SK_THREAD_READY => LinkedIn(s, t, Priority[t])
    /\ Linked(s, t) => s.stat[t] \in {SK_THREAD_READY, SK_THREAD_SUSPEND}
    /\ Masked(s.stat[t]) = SK_THREAD_RUNNING => t = s.current
    /\ s.stat[t] >= SK_THREAD_YIELD => t = s.current

StatesFit(s) ==
    /\ \A t \in Thread : Fits(s, t)
    /\ \A t \in Thread : \A h \in WaitList : ~LinkedIn(s, t, h)

SchedInv(s) == WellFormed(s) /\ StatesFit(s)

USE DEF SK_THREAD_INIT, SK_THREAD_READY, SK_THREAD_SUSPEND, SK_THREAD_RUNNING,
        SK_THREAD_CLOSE, SK_THREAD_YIELD

\* The masks on the values no arithmetic is needed for.
LEMMA StatMasks ==
    /\ \A st \in BaseStat : st \in Stat /\ Masked(st) = st /\ ~(st >= SK_THREAD_YIELD)
    /\ \A st \in Stat : /\ WithYield(st) \in Stat
                        /\ Masked(WithYield(st)) = Masked(st)
                        /\ WithYield(st) >= SK_THREAD_YIELD
    /\ BaseStat = {SK_THREAD_INIT, SK_THREAD_READY, SK_THREAD_SUSPEND,
                   SK_THREAD_RUNNING, SK_THREAD_CLOSE}
BY DEF Stat, BaseStat, Masked, WithYield

\* A thread an operation leaves alone still fits.
LEMMA FitsSame ==
    ASSUME NEW s, NEW r, NEW t \in Thread, Fits(s, t),
           r.stat[t] = s.stat[t],
           \A h \in Heads : LinkedIn(r, t, h) <=> LinkedIn(s, t, h),
           t = r.current <=> t = s.current
    PROVE  Fits(r, t)
<1>1. Linked(r, t) <=> Linked(s, t)
    BY DEF Linked
<1>2. LinkedIn(r, t, Priority[t]) <=> LinkedIn(s, t, Priority[t])
    BY Zenon, SchedConstants
<1>. QED BY <1>1, <1>2 DEF Fits

\* A thread that has just been given a state without YIELD.
LEMMA FitsNew ==
    ASSUME NEW r, NEW t \in Thread,
           \/ r.stat[t] = SK_THREAD_READY /\ t # r.current /\ LinkedIn(r, t, Priority[t])
           \/ r.stat[t] = SK_THREAD_SUSPEND /\ (t = r.current => ~Linked(r, t))
           \/ r.stat[t] = SK_THREAD_CLOSE /\ ~Linked(r, t)
           \/ r.stat[t] = SK_THREAD_RUNNING /\ t = r.current /\ ~Linked(r, t)
    PROVE  Fits(r, t)
BY StatMasks DEF Fits

\* sk_thread_suspend
LEMMA SuspendInv ==
    ASSUME NEW s, SchedInv(s), NEW t \in Thread
    PROVE  /\ SchedInv(SuspendThread(s, t))
           /\ SuspendThread(s, t).current = s.current
<1>. DEFINE d == sk_schedule_remove_thread(s, t)
            r == SuspendThread(s, t)
<1>1. s \in SchedState /\ s.stat \in [Thread -> Stat]
    BY SchedParts DEF SchedInv, WellFormed
<1>2. /\ WellFormed(d) /\ d.current = s.current /\ d.stat = s.stat
      /\ \A u \in Thread : \A h \in Heads :
            LinkedIn(d, u, h) <=> LinkedIn(s, u, h) /\ u # t
    BY RemoveFacts DEF SchedInv
<1>3. r = SetStat(d, t, SK_THREAD_SUSPEND)
    BY DEF SuspendThread
<1>. HIDE DEF d, r
<1>4. /\ WellFormed(r) /\ r.current = d.current
      /\ r.stat = [d.stat EXCEPT ![t] = SK_THREAD_SUSPEND]
      /\ \A u \in Thread : \A h \in Heads : LinkedIn(r, u, h) <=> LinkedIn(d, u, h)
    BY <1>2, <1>3, StatMasks, StatFacts
<1>5. \A u \in Thread : Linked(r, u) <=> Linked(s, u) /\ u # t
    BY <1>2, <1>4 DEF Linked
<1>6. StatesFit(r)
    <2>1. ASSUME NEW u \in Thread, u # t PROVE Fits(r, u)
        BY <1>1, <1>2, <1>4, <2>1, FitsSame DEF SchedInv, StatesFit
    <2>2. Fits(r, t)
        BY <1>1, <1>2, <1>4, <1>5, FitsNew
    <2>3. \A u \in Thread : \A h \in WaitList : ~LinkedIn(r, u, h)
        BY <1>2, <1>4, SchedConstants DEF SchedInv, StatesFit
    <2>. QED BY <2>1, <2>2, <2>3 DEF StatesFit
<1>. QED BY <1>2, <1>4, <1>6 DEF SchedInv, r

\* sk_thread_resume and the first half of sk_thread_timeout
LEMMA ResumeInv ==
    ASSUME NEW s, SchedInv(s), NEW t \in Thread
    PROVE  /\ SchedInv(ResumeThread(s, t))
           /\ ResumeThread(s, t).current = s.current
<1>. DEFINE r == ResumeThread(s, t)
<1>1. s \in SchedState /\ s.stat \in [Thread -> Stat]
    BY SchedParts DEF SchedInv, WellFormed
<1>2. CASE t # s.current
    <2>1. /\ WellFormed(r) /\ r.current = s.current
          /\ r.stat = [s.stat EXCEPT ![t] = SK_THREAD_READY]
          /\ \A u \in Thread : \A h \in Heads :
                LinkedIn(r, u, h) <=>
                    (u # t /\ LinkedIn(s, u, h)) \/ (u = t /\ h = Priority[t])
        BY <1>2, ResumeFacts DEF SchedInv
    <2>. HIDE DEF r
    <2>2. \A u \in Thread : Linked(r, u) <=> Linked(s, u) \/ u = t
        BY Zenon, <2>1, SchedConstants DEF Linked
    <2>3. StatesFit(r)
        <3>1. ASSUME NEW u \in Thread, u # t PROVE Fits(r, u)
            BY <1>1, <2>1, <3>1, FitsSame DEF SchedInv, StatesFit
        <3>2. Fits(r, t)
            BY Zenon, <1>1, <1>2, <2>1, FitsNew, SchedConstants
        <3>3. \A u \in Thread : \A h \in WaitList : ~LinkedIn(r, u, h)
            BY <2>1, SchedConstants DEF SchedInv, StatesFit
        <3>. QED BY <3>1, <3>2, <3>3 DEF StatesFit
    <2>. QED BY <2>1, <2>3 DEF SchedInv, r
<1>3. CASE t = s.current
    <2>. DEFINE d == sk_list_del(s, t)
    <2>1. ~Linked(s, t)
        BY <1>3 DEF SchedInv, StatesFit, Fits
    <2>2. /\ d \in SchedState /\ LinksOnce(d)
          /\ d.current = s.current /\ d.stat = s.stat /\ d.group = s.group
          /\ \A u \in Thread : \A h \in Heads :
                LinkedIn(d, u, h) <=> LinkedIn(s, u, h)
        BY <1>1, <2>1, DelFacts DEF SchedInv, WellFormed, Linked
    <2>3. r = SetStat(d, t, SK_THREAD_RUNNING)
        BY <1>3, <2>2 DEF ResumeThread, sk_schedule_insert_thread
    <2>. HIDE DEF d, r
    <2>4. WellFormed(d)
        <3>1. HomeList(d)
            BY <2>2, SchedConstants DEF SchedInv, WellFormed, HomeList
        <3>2. BitmapExact(d)
            BY <1>1, <2>2, BitmapLinks, SchedConstants DEF SchedInv, WellFormed, BitmapExact
        <3>. QED BY <2>2, <3>1, <3>2 DEF WellFormed
    <2>5. /\ WellFormed(r) /\ r.current = s.current
          /\ r.stat = [s.stat EXCEPT ![t] = SK_THREAD_RUNNING]
          /\ \A u \in Thread : \A h \in Heads : LinkedIn(r, u, h) <=> LinkedIn(s, u, h)
        <3>1. /\ WellFormed(r) /\ r.current = d.current
              /\ r.stat = [d.stat EXCEPT ![t] = SK_THREAD_RUNNING]
              /\ \A u \in Thread : \A h \in Heads : LinkedIn(r, u, h) <=> LinkedIn(d, u, h)
            BY <2>3, <2>4, StatMasks, StatFacts
        <3>. QED BY <2>2, <3>1
    <2>6. \A u \in Thread : Linked(r, u) <=> Linked(s, u)
        BY <2>5 DEF Linked
    <2>7. StatesFit(r)
        <3>1. ASSUME NEW u \in Thread, u # t PROVE Fits(r, u)
            BY <1>1, <2>5, <3>1, FitsSame DEF SchedInv, StatesFit
        <3>2. Fits(r, t)
            BY <1>1, <1>3, <2>1, <2>5, <2>6, FitsNew
        <3>3. \A u \in Thread : \A h \in WaitList : ~LinkedIn(r, u, h)
            BY Zenon, <2>5, SchedConstants DEF SchedInv, StatesFit
        <3>. QED BY <3>1, <3>2, <3>3 DEF StatesFit
    <2>. QED BY <2>5, <2>7 DEF SchedInv, r
<1>. QED BY <1>2, <1>3

\* sk_schedule
LEMMA ScheduleInv ==
    ASSUME NEW s, SchedInv(s), s.current \in Thread
    PROVE  SchedInv(sk_schedule(s)) /\ sk_schedule(s).current \in Thread
<1>. DEFINE r == sk_schedule(s)
<1>1. s \in SchedState /\ s.stat \in [Thread -> Stat]
    BY SchedParts DEF SchedInv, WellFormed
<1>2. CASE r = s
    BY <1>2
<1>3. CASE r # s
    <2>1. WellFormed(s) /\ ~Linked(s, s.current)
        BY DEF SchedInv, StatesFit, Fits
    <2>2. WellFormed(r) /\ r.current \in Thread /\ r.current # s.current
        BY Zenon, <1>3, <2>1, ScheduleFacts
    <2>3. CASE s.stat[s.current] \in {SK_THREAD_SUSPEND, SK_THREAD_CLOSE}
        <3>1. /\ r.stat = [s.stat EXCEPT ![r.current] = SK_THREAD_RUNNING]
              /\ \A u \in Thread : \A h \in Heads :
                    LinkedIn(r, u, h) <=> LinkedIn(s, u, h) /\ u # r.current
            BY Zenon, <1>3, <2>1, <2>3, ScheduleFacts
        <3>. HIDE DEF r
        <3>2. \A u \in Thread : Linked(r, u) <=> Linked(s, u) /\ u # r.current
            BY <3>1 DEF Linked
        <3>3. StatesFit(r)
            <4>1. ASSUME NEW u \in Thread, u # s.current, u # r.current
                  PROVE  Fits(r, u)
                BY <1>1, <3>1, <4>1, FitsSame DEF SchedInv, StatesFit
            <4>2. Fits(r, r.current)
                BY <1>1, <2>2, <3>1, <3>2, FitsNew
            <4>3. r.stat[s.current] = s.stat[s.current] /\ ~Linked(r, s.current)
                BY <1>1, <2>1, <2>2, <3>1, <3>2
            <4>4. Fits(r, s.current)
                BY <2>2, <2>3, <4>3, FitsNew
            <4>5. \A u \in Thread : \A h \in WaitList : ~LinkedIn(r, u, h)
                BY Zenon, <3>1, SchedConstants DEF SchedInv, StatesFit
            <4>. QED BY <4>1, <4>2, <4>4, <4>5 DEF StatesFit
        <3>. QED BY <2>2, <3>3 DEF SchedInv, r
    <2>4. CASE s.stat[s.current] \notin {SK_THREAD_SUSPEND, SK_THREAD_CLOSE}
        <3>1. /\ r.stat = [s.stat EXCEPT ![s.current] = SK_THREAD_READY,
                                         ![r.current] = SK_THREAD_RUNNING]
              /\ \A u \in Thread : \A h \in Heads :
                    LinkedIn(r, u, h) <=>
                       (\/ LinkedIn(s, u, h) /\ u # r.current
                        \/ u = s.current /\ h = Priority[u])
            BY Zenon, <1>3, <2>1, <2>4, ScheduleFacts
        <3>. HIDE DEF r
        <3>2. \A u \in Thread :
                 Linked(r, u) <=> (Linked(s, u) /\ u # r.current) \/ u = s.current
            BY Zenon, <3>1, SchedConstants DEF Linked
        <3>3. StatesFit(r)
            <4>1. ASSUME NEW u \in Thread, u # s.current, u # r.current
                  PROVE  Fits(r, u)
                BY <1>1, <3>1, <4>1, FitsSame DEF SchedInv, StatesFit
            <4>2. Fits(r, r.current)
                BY <1>1, <2>2, <3>1, <3>2, FitsNew
            <4>3. /\ r.stat[s.current] = SK_THREAD_READY
                  /\ LinkedIn(r, s.current, Priority[s.current])
                BY Zenon, <1>1, <2>2, <3>1, SchedConstants
            <4>4. Fits(r, s.current)
                BY <2>2, <4>3, FitsNew
            <4>5. \A u \in Thread : \A h \in WaitList : ~LinkedIn(r, u, h)
                BY <3>1, SchedConstants DEF SchedInv, StatesFit
            <4>. QED BY <4>1, <4>2, <4>4, <4>5 DEF StatesFit
        <3>. QED BY <2>2, <3>3 DEF SchedInv, r
    <2>. QED BY <2>3, <2>4
<1>. QED BY <1>2, <1>3

\* sk_schedule_insert_thread of a thread that has just been created
LEMMA CreateInv ==
    ASSUME NEW s, SchedInv(s), NEW t \in Thread, s.stat[t] = SK_THREAD_INIT
    PROVE  /\ SchedInv(sk_schedule_insert_thread(s, t))
           /\ sk_schedule_insert_thread(s, t).current = s.current
           /\ t # s.current
           /\ \A u \in Thread : Linked(sk_schedule_insert_thread(s, t), u)
                                 <=> Linked(s, u) \/ u = t
           /\ sk_schedule_insert_thread(s, t).stat =
                 [s.stat EXCEPT ![t] = SK_THREAD_READY]
<1>. DEFINE r == sk_schedule_insert_thread(s, t)
<1>1. /\ s \in SchedState /\ s.stat \in [Thread -> Stat]
      /\ LinksOnce(s) /\ HomeList(s) /\ BitmapExact(s)
    BY SchedParts DEF SchedInv, WellFormed
<1>2. t # s.current /\ ~Linked(s, t)
    <2>1. Masked(SK_THREAD_INIT) = SK_THREAD_INIT
        BY StatMasks
    <2>. QED BY <2>1 DEF SchedInv, StatesFit, Fits
<1>3. \A p \in Prio \ {Priority[t]} : p \in s.group <=> s.list[p] # <<>>
    BY <1>1 DEF BitmapExact
<1>4. /\ WellFormed(r) /\ r.current = s.current
      /\ r.stat = [s.stat EXCEPT ![t] = SK_THREAD_READY]
      /\ \A u \in Thread : \A h \in Heads :
            LinkedIn(r, u, h) <=> LinkedIn(s, u, h) \/ (u = t /\ h = Priority[t])
    BY <1>1, <1>2, <1>3, InsertFacts
<1>. HIDE DEF r
<1>5. \A u \in Thread : Linked(r, u) <=> Linked(s, u) \/ u = t
    BY Zenon, <1>4, SchedConstants DEF Linked
<1>6. StatesFit(r)
    <2>1. ASSUME NEW u \in Thread, u # t PROVE Fits(r, u)
        BY <1>1, <1>4, <2>1, FitsSame DEF SchedInv, StatesFit
    <2>2. Fits(r, t)
        BY Zenon, <1>1, <1>2, <1>4, FitsNew, SchedConstants
    <2>3. \A u \in Thread : \A h \in WaitList : ~LinkedIn(r, u, h)
        <3>. SUFFICES ASSUME NEW u \in Thread, NEW h \in WaitList
                      PROVE  ~LinkedIn(r, u, h)
            OBVIOUS
        <3>1. h \in Heads /\ h # Priority[t]
            BY SchedConstants
        <3>. QED BY <1>4, <3>1 DEF SchedInv, StatesFit
    <2>. QED BY <2>1, <2>2, <2>3 DEF StatesFit
<1>. QED BY <1>2, <1>4, <1>5, <1>6 DEF SchedInv, r

\* thread->stat = SK_THREAD_SUSPEND of a thread that does not have the CPU, as
\* in sk_thread_startup
LEMMA StartupInv ==
    ASSUME NEW s, SchedInv(s), NEW t \in Thread, t # s.current
    PROVE  /\ SchedInv(SetStat(s, t, SK_THREAD_SUSPEND))
           /\ SetStat(s, t, SK_THREAD_SUSPEND).current = s.current
           /\ SetStat(s, t, SK_THREAD_SUSPEND).stat =
                 [s.stat EXCEPT ![t] = SK_THREAD_SUSPEND]
           /\ \A u \in Thread :
                 Linked(SetStat(s, t, SK_THREAD_SUSPEND), u) <=> Linked(s, u)
<1>. DEFINE r == SetStat(s, t, SK_THREAD_SUSPEND)
<1>1. s \in SchedState /\ s.stat \in [Thread -> Stat]
    BY SchedParts DEF SchedInv, WellFormed
<1>2. /\ WellFormed(r) /\ r.current = s.current
      /\ r.stat = [s.stat EXCEPT ![t] = SK_THREAD_SUSPEND]
      /\ \A u \in Thread : \A h \in Heads : LinkedIn(r, u, h) <=> LinkedIn(s, u, h)
    BY StatMasks, StatFacts DEF SchedInv
<1>. HIDE DEF r
<1>3. StatesFit(r)
    <2>1. ASSUME NEW u \in Thread, u # t PROVE Fits(r, u)
        BY <1>1, <1>2, <2>1, FitsSame DEF SchedInv, StatesFit
    <2>2. Fits(r, t)
        BY <1>1, <1>2, FitsNew
    <2>3. \A u \in Thread : \A h \in WaitList : ~LinkedIn(r, u, h)
        BY Zenon, <1>2, SchedConstants DEF SchedInv, StatesFit
    <2>. QED BY <2>1, <2>2, <2>3 DEF StatesFit
<1>4. \A u \in Thread : Linked(r, u) <=> Linked(s, u)
    BY <1>2 DEF Linked
<1>. QED BY <1>2, <1>3, <1>4 DEF SchedInv, r

\* thread->stat |= SK_THREAD_YIELD of the running thread, in sk_tick_increase
LEMMA YieldInv ==
    ASSUME NEW s, SchedInv(s), s.current \in Thread
    PROVE  LET r == SetStat(s, s.current, WithYield(s.stat[s.current]))
           IN  SchedInv(r) /\ r.current = s.current
<1>. DEFINE t == s.current
            r == SetStat(s, t, WithYield(s.stat[t]))
<1>1. s \in SchedState /\ s.stat \in [Thread -> Stat] /\ s.stat[t] \in Stat
    BY SchedParts DEF SchedInv, WellFormed
<1>2. /\ WithYield(s.stat[t]) \in Stat
      /\ Masked(WithYield(s.stat[t])) = Masked(s.stat[t])
      /\ WithYield(s.stat[t]) >= SK_THREAD_YIELD
    BY <1>1, StatMasks
<1>3. /\ WellFormed(r) /\ r.current = s.current
      /\ r.stat = [s.stat EXCEPT ![t] = WithYield(s.stat[t])]
      /\ \A u \in Thread : \A h \in Heads : LinkedIn(r, u, h) <=> LinkedIn(s, u, h)
    BY <1>2, StatFacts DEF SchedInv
<1>. HIDE DEF r
<1>4. StatesFit(r)
    <2>1. ASSUME NEW u \in Thread, u # t PROVE Fits(r, u)
        BY <1>1, <1>3, <2>1, FitsSame DEF SchedInv, StatesFit
    <2>2. Fits(r, t)
        <3>1. Fits(s, t)
            BY DEF SchedInv, StatesFit
        <3>2. Linked(r, t) <=> Linked(s, t)
            BY <1>3 DEF Linked
        <3>3. r.stat[t] = WithYield(s.stat[t]) /\ r.stat[t] # SK_THREAD_READY
            BY <1>1, <1>2, <1>3
        <3>. QED BY <1>2, <1>3, <3>1, <3>2, <3>3 DEF Fits
    <2>3. \A u \in Thread : \A h \in WaitList : ~LinkedIn(r, u, h)
        BY Zenon, <1>3, SchedConstants DEF SchedInv, StatesFit
    <2>. QED BY <2>1, <2>2, <2>3 DEF StatesFit
<1>. QED BY <1>3, <1>4 DEF SchedInv, r

\* __thread_exit of the running thread: the state its sk_schedule starts from,
\* and the state it leaves.
LEMMA CloseInv ==
    ASSUME NEW s, SchedInv(s), s.current \in Thread
    PROVE  LET r == SetStat(sk_schedule_remove_thread(s, s.current), s.current,
                            SK_THREAD_CLOSE)
           IN  SchedInv(r) /\ r.current = s.current
<1>. DEFINE t == s.current
            d == sk_schedule_remove_thread(s, t)
            r == SetStat(d, t, SK_THREAD_CLOSE)
<1>1. s \in SchedState /\ s.stat \in [Thread -> Stat]
    BY SchedParts DEF SchedInv, WellFormed
<1>2. /\ WellFormed(d) /\ d.current = s.current /\ d.stat = s.stat
      /\ \A u \in Thread : \A h \in Heads :
            LinkedIn(d, u, h) <=> LinkedIn(s, u, h) /\ u # t
    BY RemoveFacts DEF SchedInv
<1>. HIDE DEF d
<1>4. /\ WellFormed(r) /\ r.current = d.current
      /\ r.stat = [d.stat EXCEPT ![t] = SK_THREAD_CLOSE]
      /\ \A u \in Thread : \A h \in Heads : LinkedIn(r, u, h) <=> LinkedIn(d, u, h)
    BY <1>2, StatMasks, StatFacts
<1>. HIDE DEF r
<1>5. StatesFit(r)
    <2>1. ASSUME NEW u \in Thread, u # t PROVE Fits(r, u)
        BY <1>1, <1>2, <1>4, <2>1, FitsSame DEF SchedInv, StatesFit
    <2>2. ~Linked(r, t) /\ r.stat[t] = SK_THREAD_CLOSE
        BY <1>1, <1>2, <1>4 DEF Linked
    <2>3. Fits(r, t)
        BY <2>2, FitsNew
    <2>4. \A u \in Thread : \A h \in WaitList : ~LinkedIn(r, u, h)
        BY <1>2, <1>4, SchedConstants DEF SchedInv, StatesFit
    <2>. QED BY <2>1, <2>3, <2>4 DEF StatesFit
<1>. QED BY <1>2, <1>4, <1>5 DEF SchedInv, r, d

LEMMA ExitInv ==
    ASSUME NEW s, SchedInv(s), s.current \in Thread
    PROVE  SchedInv(ExitThread(s, s.current)) /\ ExitThread(s, s.current).current \in Thread
<1>. DEFINE r == SetStat(sk_schedule_remove_thread(s, s.current), s.current,
                         SK_THREAD_CLOSE)
<1>1. SchedInv(r) /\ r.current = s.current
    BY CloseInv
<1>2. ExitThread(s, s.current) = sk_schedule(r)
    BY DEF ExitThread
<1>. HIDE DEF r
<1>. QED BY <1>1, <1>2, ScheduleInv

\* sk_system_scheduler_start, with a thread ready
LEMMA StartInv ==
    ASSUME NEW s, SchedInv(s), s.current = NULL,
           \E t \in Thread : Linked(s, t)
    PROVE  /\ SchedInv(sk_system_scheduler_start(s))
           /\ sk_system_scheduler_start(s).current \in Thread
<1>. DEFINE to == schedule_get_hp_thread(s)
            m == SetCurrent(s, to)
            r == Dispatch(m, to)
<1>1. s \in SchedState /\ s.stat \in [Thread -> Stat] /\ WellFormed(s)
    BY SchedParts DEF SchedInv, WellFormed
<1>2. s.group # {}
    <2>1. PICK t \in Thread, h \in Prio : LinkedIn(s, t, h)
        BY SchedConstants DEF SchedInv, StatesFit, Linked
    <2>. QED BY <1>1, <2>1, BitmapLinks DEF WellFormed, BitmapExact
<1>3. to \in Thread
    BY <1>1, <1>2, HighestFacts
<1>4. sk_system_scheduler_start(s) = r
    BY DEF sk_system_scheduler_start
<1>. HIDE DEF to
<1>5. /\ WellFormed(m) /\ m.current = to /\ m.stat = s.stat
      /\ \A u \in Thread : \A h \in Heads : LinkedIn(m, u, h) <=> LinkedIn(s, u, h)
    BY <1>1, <1>3, CurrentFacts
<1>. HIDE DEF m
<1>6. /\ WellFormed(r) /\ r.current = to
      /\ r.stat = [s.stat EXCEPT ![to] = SK_THREAD_RUNNING]
      /\ \A u \in Thread : \A h \in Heads :
            LinkedIn(r, u, h) <=> LinkedIn(s, u, h) /\ u # to
    <2>1. /\ WellFormed(r) /\ r.current = m.current
          /\ r.stat = [m.stat EXCEPT ![to] = SK_THREAD_RUNNING]
          /\ \A u \in Thread : \A h \in Heads :
                LinkedIn(r, u, h) <=> LinkedIn(m, u, h) /\ u # to
        BY <1>3, <1>5, DispatchFacts
    <2>. QED BY <1>5, <2>1
<1>. HIDE DEF r
<1>7. StatesFit(r)
    <2>1. ASSUME NEW u \in Thread, u # to PROVE Fits(r, u)
        BY <1>1, <1>6, <2>1, FitsSame, SchedConstants DEF SchedInv, StatesFit
    <2>2. ~Linked(r, to) /\ r.stat[to] = SK_THREAD_RUNNING
        BY <1>1, <1>3, <1>6 DEF Linked
    <2>3. Fits(r, to)
        BY Zenon, <1>3, <1>6, <2>2, FitsNew
    <2>4. \A u \in Thread : \A h \in WaitList : ~LinkedIn(r, u, h)
        BY <1>6, SchedConstants DEF SchedInv, StatesFit
    <2>. QED BY <2>1, <2>3, <2>4 DEF StatesFit
<1>. QED BY <1>3, <1>4, <1>6, <1>7 DEF SchedInv

=============================================================================
