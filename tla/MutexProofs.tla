----------------------------- MODULE MutexProofs -----------------------------
(***************************************************************************)
(* The safety properties of Mutex, proved for any set of threads, any      *)
(* priorities and any limit of the count.  Beyond the properties           *)
(* themselves the invariant says who may be on the way out of              *)
(* sk_mutex_lock: the owner, or a thread whose wait was cut short; and     *)
(* that one thread at most deletes the mutex, which nobody joins then.     *)
(***************************************************************************)
EXTENDS Mutex, SeqLemmas

Ordered(q) == \A i, j \in 1 .. Len(q) : i < j => Priority[q[i]] <= Priority[q[j]]

ListSane == IsInjective(Waiters) /\ Ordered(Waiters)

\* WaitersHaveOwner, while the mutex is deleted too.
Awaited ==
    /\ Waiters # <<>> => owner # NULL
    /\ owner # NULL => ~Contains(Waiters, owner)

\* A thread that is on its way out of sk_mutex_lock got the mutex, unless its
\* wait was cut short.
Returning ==
    \A t \in Thread : pc[t] = "ret" /\ ~Contains(Waiters, t) /\ t \notin late => owner = t

WaitersPlace == \A t \in Thread : Contains(Waiters, t) => pc[t] = "ret" /\ t \notin late

Deleting ==
    /\ \A t \in Thread : pc[t] \in {"test", "wake"} => life = "closing"
    /\ \A t, u \in Thread : pc[t] \in {"test", "wake"} /\ pc[u] \in {"test", "wake"} => t = u
    /\ life = "dead" => Waiters = <<>>
    /\ life # "live" /\ owner # NULL => pc[owner] # "ret"

IInv ==
    /\ TypeOK
    /\ ListSane
    /\ OwnerConsistent
    /\ Awaited
    /\ WaitersPlace
    /\ Returning
    /\ Deleting
    /\ inside \ late \subseteq {owner}

-----------------------------------------------------------------------------
(* The suspend list *)

\* Taking a thread out keeps the order.
LEMMA RemovedOrdered ==
    ASSUME NEW q \in Seq(Thread), Ordered(q), NEW e
    PROVE  Ordered(RemoveFirst(q, e))
<1>1. CASE ~Contains(q, e)
    BY <1>1, RemoveFirstAbsent
<1>2. CASE Contains(q, e)
    <2>. DEFINE r == RemoveFirst(q, e)
    <2>1. r \in Seq(Thread) /\ Len(r) = Len(q) - 1 /\ Len(q) \in Nat
        BY <1>2, RemoveFirstPresent
    <2>2. PICK k \in 1 .. Len(q) :
             \A i \in 1 .. Len(q) - 1 : r[i] = IF i < k THEN q[i] ELSE q[i + 1]
        BY <1>2, RemoveFirstPresent
    <2>. HIDE DEF r
    <2>. DEFINE at(n) == IF n < k THEN n ELSE n + 1
    <2>3. ASSUME NEW n \in 1 .. Len(r)
          PROVE  at(n) \in 1 .. Len(q) /\ r[n] = q[at(n)]
        BY <2>1, <2>2
    <2>4. ASSUME NEW i \in 1 .. Len(r), NEW j \in 1 .. Len(r), i < j
          PROVE  at(i) < at(j)
        BY <2>1, <2>4
    <2>. HIDE DEF at
    <2>5. Ordered(r)
        BY <2>3, <2>4 DEF Ordered
    <2>. QED BY <2>5 DEF r
<1>. QED BY <1>1, <1>2

\* Position is a place in the list: nobody in front of it has a lower priority
\* than the thread, everybody from there on has.
LEMMA PositionProperties ==
    ASSUME NEW q \in Seq(Thread), Ordered(q), NEW t \in Thread
    PROVE  /\ Position(q, t) \in 1 .. Len(q) + 1
           /\ \A i \in 1 .. Len(q) :
                 IF i < Position(q, t) THEN Priority[q[i]] <= Priority[t]
                 ELSE Priority[t] <= Priority[q[i]]
<1>. DEFINE later == {i \in 1 .. Len(q) : Priority[t] < Priority[q[i]]}
            k == Position(q, t)
<1>1. Len(q) \in Nat /\ Priority[t] \in Nat /\ \A i \in 1 .. Len(q) : Priority[q[i]] \in Nat
    BY MutexAssumption
<1>2. CASE later = {}
    <2>1. k = Len(q) + 1
        BY <1>2 DEF Position
    <2>2. \A i \in 1 .. Len(q) : ~(Priority[t] < Priority[q[i]])
        BY <1>2
    <2>. QED BY <1>1, <2>1, <2>2
<1>3. CASE later # {}
    <2>1. k = Min(later)
        BY <1>3 DEF Position
    <2>2. later \in SUBSET Nat
        OBVIOUS
    <2>. HIDE DEF later, k
    <2>3. k \in later /\ \A y \in later : k <= y
        BY <1>3, <2>1, <2>2, MinProperties
    <2>4. k \in 1 .. Len(q) /\ Priority[t] < Priority[q[k]]
        BY <2>3 DEF later
    <2>5. ASSUME NEW i \in 1 .. Len(q), i < k PROVE Priority[q[i]] <= Priority[t]
        <3>1. i \notin later
            BY <1>1, <2>3, <2>4, <2>5
        <3>. QED BY <1>1, <3>1 DEF later
    <2>6. ASSUME NEW i \in 1 .. Len(q), ~(i < k) PROVE Priority[t] <= Priority[q[i]]
        <3>1. Priority[q[k]] <= Priority[q[i]]
            BY <1>1, <2>4, <2>6 DEF Ordered
        <3>. QED BY <1>1, <2>4, <3>1
    <2>. QED BY <1>1, <2>4, <2>5, <2>6 DEF k
<1>. QED BY <1>2, <1>3

LEMMA JoinedOrdered ==
    ASSUME NEW q \in Seq(Thread), Ordered(q), NEW t \in Thread
    PROVE  Ordered(InsertAt(q, Position(q, t), t))
<1>. DEFINE k == Position(q, t)
            r == InsertAt(q, k, t)
<1>1. /\ k \in 1 .. Len(q) + 1
      /\ \A i \in 1 .. Len(q) :
            IF i < k THEN Priority[q[i]] <= Priority[t] ELSE Priority[t] <= Priority[q[i]]
    BY PositionProperties
<1>2. Len(q) \in Nat /\ Priority[t] \in Nat /\ \A i \in 1 .. Len(q) : Priority[q[i]] \in Nat
    BY MutexAssumption
<1>. HIDE DEF k
<1>3. /\ r \in Seq(Thread) /\ Len(r) = Len(q) + 1
      /\ \A i \in 1 .. Len(q) + 1 : r[i] = IF i < k THEN q[i] ELSE IF i = k THEN t ELSE q[i - 1]
    BY <1>1, InsertAtProperties
<1>. HIDE DEF r
<1>. DEFINE at(n) == IF n < k THEN n ELSE n - 1
<1>4. ASSUME NEW n \in 1 .. Len(q) + 1, n # k
      PROVE  at(n) \in 1 .. Len(q) /\ r[n] = q[at(n)] /\ (at(n) < k <=> n < k)
    BY <1>1, <1>2, <1>3, <1>4
<1>5. r[k] = t
    BY <1>1, <1>2, <1>3
<1>6. ASSUME NEW i \in 1 .. Len(q) + 1, NEW j \in 1 .. Len(q) + 1, i < j
      PROVE  Priority[r[i]] <= Priority[r[j]]
    <2>1. CASE i = k
        BY <1>1, <1>4, <1>5, <1>6, <2>1
    <2>2. CASE j = k
        BY <1>1, <1>4, <1>5, <1>6, <2>2
    <2>3. CASE i # k /\ j # k
        <3>1. at(i) < at(j)
            BY <1>1, <1>2, <1>6, <2>3
        <3>. QED BY <1>4, <2>3, <3>1 DEF Ordered
    <2>. QED BY <2>1, <2>2, <2>3
<1>. QED BY <1>3, <1>6 DEF Ordered, r, k

\* What the three changes of the suspend list do to it.
LEMMA ListJoins ==
    ASSUME WaitTypeOK, ListSane, NEW t \in Thread, ~Contains(Waiters, t),
           NEW time, Block(t, Mtx, time, SK_IPC_FLAG_PRIO)
    PROVE  /\ WaitTypeOK' /\ ListSane' /\ Waiters' # <<>>
           /\ \A u : Contains(Waiters', u) <=> Contains(Waiters, u) \/ u = t
<1>1. queue \in [WaitList -> Seq(Thread)] /\ Mtx \in WaitList /\ Waiters \in Seq(Thread)
    BY MutexAssumption DEF WaitTypeOK, Waiters
<1>. DEFINE k == Position(Waiters, t)
            r == InsertAt(Waiters, k, t)
<1>2. Waiters' = r /\ queue' = [queue EXCEPT ![Mtx] = r]
    BY <1>1 DEF Block, Joined, Waiters
<1>3. k \in 1 .. Len(Waiters) + 1
    BY <1>1, PositionProperties DEF ListSane
<1>4. Ordered(r)
    BY <1>1, JoinedOrdered DEF ListSane
<1>. HIDE DEF k
<1>5. r \in Seq(Thread) /\ IsInjective(r) /\ \A u : Contains(r, u) <=> Contains(Waiters, u) \/ u = t
    BY <1>1, <1>3, InsertAtProperties, InsertAtInjective DEF ListSane
<1>. HIDE DEF r
<1>6. timed' \in SUBSET Thread
    BY DEF Block, WaitTypeOK
<1>7. r # <<>>
    BY <1>5, EmptyContains
<1>8. WaitTypeOK'
    BY <1>1, <1>2, <1>5, <1>6 DEF WaitTypeOK
<1>9. ListSane'
    <2>1. IsInjective(Waiters') /\ Ordered(Waiters')
        BY <1>2, <1>4, <1>5
    <2>. QED BY <2>1 DEF ListSane, Ordered
<1>. QED BY <1>2, <1>5, <1>7, <1>8, <1>9

LEMMA ListWakes ==
    ASSUME WaitTypeOK, ListSane, Waiters # <<>>, Wake(Mtx)
    PROVE  /\ WaitTypeOK' /\ ListSane'
           /\ Head(Waiters) \in Thread /\ Contains(Waiters, Head(Waiters))
           /\ \A u : Contains(Waiters', u) <=> Contains(Waiters, u) /\ u # Head(Waiters)
<1>1. queue \in [WaitList -> Seq(Thread)] /\ Mtx \in WaitList /\ Waiters \in Seq(Thread)
    BY MutexAssumption DEF WaitTypeOK, Waiters
<1>. DEFINE h == Head(Waiters)
            r == RemoveFirst(Waiters, h)
<1>2. Waiters' = r /\ queue' = [queue EXCEPT ![Mtx] = r]
    BY <1>1 DEF Wake, Waiters
<1>3. h \in Thread /\ Contains(Waiters, h)
    BY <1>1, EmptyContains
<1>4. timed' \in SUBSET Thread
    BY DEF Wake, WaitTypeOK
<1>. HIDE DEF h
<1>5. Ordered(r)
    BY <1>1, RemovedOrdered DEF ListSane
<1>6. r \in Seq(Thread) /\ IsInjective(r) /\ \A u : Contains(r, u) <=> Contains(Waiters, u) /\ u # h
    BY <1>1, RemoveFirstInjective DEF ListSane
<1>. HIDE DEF r
<1>7. WaitTypeOK'
    BY <1>1, <1>2, <1>4, <1>6 DEF WaitTypeOK
<1>8. ListSane'
    <2>1. IsInjective(Waiters') /\ Ordered(Waiters')
        BY <1>2, <1>5, <1>6
    <2>. QED BY <2>1 DEF ListSane, Ordered
<1>. QED BY <1>2, <1>3, <1>6, <1>7, <1>8 DEF h

LEMMA ListExpires ==
    ASSUME WaitTypeOK, ListSane, NEW t \in Thread, Expire(t)
    PROVE  /\ WaitTypeOK' /\ ListSane'
           /\ \A u : Contains(Waiters', u) <=> Contains(Waiters, u) /\ u # t
           /\ Waiters = <<>> => Waiters' = <<>>
<1>1. queue \in [WaitList -> Seq(Thread)] /\ WaitList = {Mtx} /\ Waiters \in Seq(Thread)
    BY MutexAssumption DEF WaitTypeOK, Waiters
<1>. DEFINE r == RemoveFirst(Waiters, t)
<1>2. Waiters' = r /\ queue' = [l \in WaitList |-> r]
    BY <1>1 DEF Expire, Waiters
<1>3. timed' \in SUBSET Thread
    BY DEF Expire, WaitTypeOK
<1>4. Ordered(r)
    BY <1>1, RemovedOrdered DEF ListSane
<1>5. r \in Seq(Thread) /\ IsInjective(r) /\ \A u : Contains(r, u) <=> Contains(Waiters, u) /\ u # t
    BY <1>1, RemoveFirstInjective DEF ListSane
<1>. HIDE DEF r
<1>6. WaitTypeOK'
    BY <1>1, <1>2, <1>3, <1>5 DEF WaitTypeOK
<1>7. ListSane'
    <2>1. IsInjective(Waiters') /\ Ordered(Waiters')
        BY <1>2, <1>4, <1>5
    <2>. QED BY <2>1 DEF ListSane, Ordered
<1>8. Waiters = <<>> => r = <<>>
    BY Zenon, <1>1, <1>5, EmptyContains
<1>. QED BY <1>2, <1>5, <1>6, <1>7, <1>8

LEMMA ListStays ==
    ASSUME WaitTypeOK, ListSane, UNCHANGED waitVars
    PROVE  WaitTypeOK' /\ ListSane' /\ Waiters' = Waiters
BY DEF WaitTypeOK, ListSane, Ordered, waitVars, Waiters

\* A blocked thread is in the one list there is.
LEMMA BlockedMeans == ASSUME NEW t PROVE Blocked(t) <=> Contains(Waiters, t)
BY MutexAssumption DEF Blocked, Waiters

-----------------------------------------------------------------------------
(* The steps *)

LEMMA LockAgainKeeps ==
    ASSUME NEW t \in Thread, IInv, LockAgain(t) PROVE IInv'
<1>1. WaitTypeOK' /\ ListSane' /\ Waiters' = Waiters
    BY ListStays DEF IInv, TypeOK, LockAgain
<1>2. Blocked(t) <=> Contains(Waiters, t)
    BY BlockedMeans
<1>3. TypeOK'
    BY <1>1, <1>2, MutexAssumption DEF IInv, TypeOK, OwnerConsistent, LockAgain, MayCall,
       At, mutexVars
<1>4. OwnerConsistent'
    BY <1>1, <1>2, MutexAssumption DEF IInv, TypeOK, OwnerConsistent, LockAgain, MayCall,
       At, mutexVars
<1>5. Awaited' /\ WaitersPlace'
    BY <1>1, <1>2, MutexAssumption DEF IInv, TypeOK, OwnerConsistent, Awaited, WaitersPlace,
       Deleting, LockAgain, MayCall, At, mutexVars
<1>6. Returning' /\ (inside \ late \subseteq {owner})'
    BY <1>1, <1>2, MutexAssumption DEF IInv, TypeOK, OwnerConsistent, Returning, Awaited,
       WaitersPlace, Deleting, LockAgain, MayCall, At, mutexVars
<1>7. Deleting'
    BY <1>1, <1>2, MutexAssumption DEF IInv, TypeOK, OwnerConsistent, Awaited, Returning,
       WaitersPlace, Deleting, LockAgain, MayCall, At, mutexVars
<1> QED
    BY <1>1, <1>3, <1>4, <1>5, <1>6, <1>7 DEF IInv

LEMMA LockTakesKeeps ==
    ASSUME NEW t \in Thread, IInv, LockTakes(t) PROVE IInv'
<1>1. WaitTypeOK' /\ ListSane' /\ Waiters' = Waiters
    BY ListStays DEF IInv, TypeOK, LockTakes
<1>2. Blocked(t) <=> Contains(Waiters, t)
    BY BlockedMeans
<1>3. TypeOK'
    BY <1>1, <1>2, MutexAssumption DEF IInv, TypeOK, OwnerConsistent, LockTakes, MayCall,
       At, mutexVars
<1>4. OwnerConsistent'
    BY <1>1, <1>2, MutexAssumption DEF IInv, TypeOK, OwnerConsistent, LockTakes, MayCall,
       At, mutexVars
<1>5. Awaited' /\ WaitersPlace'
    BY <1>1, <1>2, MutexAssumption DEF IInv, TypeOK, OwnerConsistent, Awaited, WaitersPlace,
       Deleting, LockTakes, MayCall, At, mutexVars
<1>6. Returning' /\ (inside \ late \subseteq {owner})'
    BY <1>1, <1>2, MutexAssumption DEF IInv, TypeOK, OwnerConsistent, Returning, Awaited,
       WaitersPlace, Deleting, LockTakes, MayCall, At, mutexVars
<1>7. Deleting'
    BY <1>1, <1>2, MutexAssumption DEF IInv, TypeOK, OwnerConsistent, Awaited, Returning,
       WaitersPlace, Deleting, LockTakes, MayCall, At, mutexVars
<1> QED
    BY <1>1, <1>3, <1>4, <1>5, <1>6, <1>7 DEF IInv

LEMMA LockBlocksKeeps ==
    ASSUME NEW t \in Thread, NEW time \in Timeouts, IInv, LockBlocks(t, time) PROVE IInv'
<1>1. /\ WaitTypeOK' /\ ListSane' /\ Waiters' # <<>>
      /\ \A u : Contains(Waiters', u) <=> Contains(Waiters, u) \/ u = t
    BY BlockedMeans, ListJoins DEF IInv, TypeOK, LockBlocks, MayCall, At
<1>2. Blocked(t) <=> Contains(Waiters, t)
    BY BlockedMeans
<1>3. TypeOK'
    BY <1>1, <1>2, MutexAssumption DEF IInv, TypeOK, OwnerConsistent, LockBlocks, Goto,
       Labels, MayCall, At, mutexVars
<1>4. OwnerConsistent'
    BY <1>1, <1>2, MutexAssumption DEF IInv, TypeOK, OwnerConsistent, LockBlocks, Goto,
       Labels, MayCall, At, mutexVars
<1>5. Awaited' /\ WaitersPlace'
    BY <1>1, <1>2, MutexAssumption DEF IInv, TypeOK, OwnerConsistent, Awaited, WaitersPlace,
       Deleting, LockBlocks, Goto, Labels, MayCall, At, mutexVars
<1>6. Returning' /\ (inside \ late \subseteq {owner})'
    BY <1>1, <1>2, MutexAssumption DEF IInv, TypeOK, OwnerConsistent, Returning, Awaited,
       WaitersPlace, Deleting, LockBlocks, Goto, Labels, MayCall, At, mutexVars
<1>7. Deleting'
    BY <1>1, <1>2, MutexAssumption DEF IInv, TypeOK, OwnerConsistent, Awaited, Returning,
       WaitersPlace, Deleting, LockBlocks, Goto, Labels, MayCall, At, mutexVars
<1> QED
    BY <1>1, <1>3, <1>4, <1>5, <1>6, <1>7 DEF IInv

LEMMA LockReturnsKeeps ==
    ASSUME NEW t \in Thread, IInv, LockReturns(t) PROVE IInv'
<1>1. WaitTypeOK' /\ ListSane' /\ Waiters' = Waiters
    BY ListStays DEF IInv, TypeOK, LockReturns
<1>2. Blocked(t) <=> Contains(Waiters, t)
    BY BlockedMeans
<1>3. TypeOK'
    BY <1>1, <1>2, MutexAssumption DEF IInv, TypeOK, OwnerConsistent, LockReturns, Goto,
       Labels, At, mutexVars
<1>4. OwnerConsistent'
    BY <1>1, <1>2, MutexAssumption DEF IInv, TypeOK, OwnerConsistent, LockReturns, Goto,
       Labels, At, mutexVars
<1>5. Awaited' /\ WaitersPlace'
    BY <1>1, <1>2, MutexAssumption DEF IInv, TypeOK, OwnerConsistent, Awaited, WaitersPlace,
       Deleting, LockReturns, Goto, Labels, At, mutexVars
<1>6. Returning' /\ (inside \ late \subseteq {owner})'
    BY <1>1, <1>2, MutexAssumption DEF IInv, TypeOK, OwnerConsistent, Returning, Awaited,
       WaitersPlace, Deleting, LockReturns, Goto, Labels, At, mutexVars
<1>7. Deleting'
    BY <1>1, <1>2, MutexAssumption DEF IInv, TypeOK, OwnerConsistent, Awaited, Returning,
       WaitersPlace, Deleting, LockReturns, Goto, Labels, At, mutexVars
<1> QED
    BY <1>1, <1>3, <1>4, <1>5, <1>6, <1>7 DEF IInv

LEMMA TimeoutKeeps ==
    ASSUME NEW t \in Thread, IInv, Timeout(t) PROVE IInv'
<1>1. /\ WaitTypeOK' /\ ListSane'
      /\ \A u : Contains(Waiters', u) <=> Contains(Waiters, u) /\ u # t
      /\ Waiters = <<>> => Waiters' = <<>>
    BY ListExpires DEF IInv, TypeOK, Timeout
<1>2. Blocked(t) <=> Contains(Waiters, t)
    BY BlockedMeans
<1>3. TypeOK'
    BY <1>1, <1>2, MutexAssumption DEF IInv, TypeOK, OwnerConsistent, Timeout, mutexVars
<1>4. OwnerConsistent'
    BY <1>1, <1>2, MutexAssumption DEF IInv, TypeOK, OwnerConsistent, Timeout, mutexVars
<1>5. Awaited' /\ WaitersPlace'
    BY <1>1, <1>2, MutexAssumption DEF IInv, TypeOK, OwnerConsistent, Awaited, WaitersPlace,
       Deleting, Timeout, mutexVars
<1>6. Returning' /\ (inside \ late \subseteq {owner})'
    BY <1>1, <1>2, MutexAssumption DEF IInv, TypeOK, OwnerConsistent, Returning, Awaited,
       WaitersPlace, Deleting, Timeout, mutexVars
<1>7. Deleting'
    BY <1>1, <1>2, MutexAssumption DEF IInv, TypeOK, OwnerConsistent, Awaited, Returning,
       WaitersPlace, Deleting, Timeout, mutexVars
<1> QED
    BY <1>1, <1>3, <1>4, <1>5, <1>6, <1>7 DEF IInv

LEMMA UnlockRefusedKeeps ==
    ASSUME NEW t \in Thread, IInv, UnlockRefused(t) PROVE IInv'
<1>1. WaitTypeOK' /\ ListSane' /\ Waiters' = Waiters
    BY ListStays DEF IInv, TypeOK, UnlockRefused
<1>2. Blocked(t) <=> Contains(Waiters, t)
    BY BlockedMeans
<1>3. TypeOK'
    BY <1>1, <1>2, MutexAssumption DEF IInv, TypeOK, OwnerConsistent, UnlockRefused,
       MayCall, At, mutexVars
<1>4. OwnerConsistent'
    BY <1>1, <1>2, MutexAssumption DEF IInv, TypeOK, OwnerConsistent, UnlockRefused,
       MayCall, At, mutexVars
<1>5. Awaited' /\ WaitersPlace'
    BY <1>1, <1>2, MutexAssumption DEF IInv, TypeOK, OwnerConsistent, Awaited, WaitersPlace,
       Deleting, UnlockRefused, MayCall, At, mutexVars
<1>6. Returning' /\ (inside \ late \subseteq {owner})'
    BY <1>1, <1>2, MutexAssumption DEF IInv, TypeOK, OwnerConsistent, Returning, Awaited,
       WaitersPlace, Deleting, UnlockRefused, MayCall, At, mutexVars
<1>7. Deleting'
    BY <1>1, <1>2, MutexAssumption DEF IInv, TypeOK, OwnerConsistent, Awaited, Returning,
       WaitersPlace, Deleting, UnlockRefused, MayCall, At, mutexVars
<1> QED
    BY <1>1, <1>3, <1>4, <1>5, <1>6, <1>7 DEF IInv

LEMMA UnlockInnerKeeps ==
    ASSUME NEW t \in Thread, IInv, UnlockInner(t) PROVE IInv'
<1>1. WaitTypeOK' /\ ListSane' /\ Waiters' = Waiters
    BY ListStays DEF IInv, TypeOK, UnlockInner
<1>2. Blocked(t) <=> Contains(Waiters, t)
    BY BlockedMeans
<1>3. TypeOK'
    BY <1>1, <1>2, MutexAssumption DEF IInv, TypeOK, OwnerConsistent, UnlockInner, MayCall,
       At, mutexVars
<1>4. OwnerConsistent'
    BY <1>1, <1>2, MutexAssumption DEF IInv, TypeOK, OwnerConsistent, UnlockInner, MayCall,
       At, mutexVars
<1>5. Awaited' /\ WaitersPlace'
    BY <1>1, <1>2, MutexAssumption DEF IInv, TypeOK, OwnerConsistent, Awaited, WaitersPlace,
       Deleting, UnlockInner, MayCall, At, mutexVars
<1>6. Returning' /\ (inside \ late \subseteq {owner})'
    BY <1>1, <1>2, MutexAssumption DEF IInv, TypeOK, OwnerConsistent, Returning, Awaited,
       WaitersPlace, Deleting, UnlockInner, MayCall, At, mutexVars
<1>7. Deleting'
    BY <1>1, <1>2, MutexAssumption DEF IInv, TypeOK, OwnerConsistent, Awaited, Returning,
       WaitersPlace, Deleting, UnlockInner, MayCall, At, mutexVars
<1> QED
    BY <1>1, <1>3, <1>4, <1>5, <1>6, <1>7 DEF IInv

LEMMA UnlockWakesKeeps ==
    ASSUME NEW t \in Thread, IInv, UnlockWakes(t) PROVE IInv'
<1>1. /\ WaitTypeOK' /\ ListSane'
      /\ Head(Waiters) \in Thread /\ Contains(Waiters, Head(Waiters))
      /\ \A u : Contains(Waiters', u) <=> Contains(Waiters, u) /\ u # Head(Waiters)
    BY ListWakes DEF IInv, TypeOK, UnlockWakes
<1>2. Blocked(t) <=> Contains(Waiters, t)
    BY BlockedMeans
<1>3. TypeOK'
    BY <1>1, <1>2, MutexAssumption DEF IInv, TypeOK, OwnerConsistent, UnlockWakes, MayCall,
       At, mutexVars
<1>4. OwnerConsistent'
    BY <1>1, <1>2, MutexAssumption DEF IInv, TypeOK, OwnerConsistent, UnlockWakes, MayCall,
       At, mutexVars
<1>5. Awaited' /\ WaitersPlace'
    BY <1>1, <1>2, MutexAssumption DEF IInv, TypeOK, OwnerConsistent, Awaited, WaitersPlace,
       Deleting, UnlockWakes, MayCall, At, mutexVars
<1>6. Returning' /\ (inside \ late \subseteq {owner})'
    BY <1>1, <1>2, MutexAssumption DEF IInv, TypeOK, OwnerConsistent, Returning, Awaited,
       WaitersPlace, Deleting, UnlockWakes, MayCall, At, mutexVars
<1>7. Deleting'
    BY <1>1, <1>2, MutexAssumption DEF IInv, TypeOK, OwnerConsistent, Awaited, Returning,
       WaitersPlace, Deleting, UnlockWakes, MayCall, At, mutexVars
<1> QED
    BY <1>1, <1>3, <1>4, <1>5, <1>6, <1>7 DEF IInv

LEMMA UnlockFreesKeeps ==
    ASSUME NEW t \in Thread, IInv, UnlockFrees(t) PROVE IInv'
<1>1. WaitTypeOK' /\ ListSane' /\ Waiters' = Waiters
    BY ListStays DEF IInv, TypeOK, UnlockFrees
<1>2. Blocked(t) <=> Contains(Waiters, t)
    BY BlockedMeans
<1>3. TypeOK'
    BY <1>1, <1>2, MutexAssumption DEF IInv, TypeOK, OwnerConsistent, UnlockFrees, MayCall,
       At, mutexVars
<1>4. OwnerConsistent'
    BY <1>1, <1>2, MutexAssumption DEF IInv, TypeOK, OwnerConsistent, UnlockFrees, MayCall,
       At, mutexVars
<1>5. Awaited' /\ WaitersPlace'
    BY <1>1, <1>2, MutexAssumption DEF IInv, TypeOK, OwnerConsistent, Awaited, WaitersPlace,
       Deleting, UnlockFrees, MayCall, At, mutexVars
<1>6. Returning' /\ (inside \ late \subseteq {owner})'
    BY <1>1, <1>2, MutexAssumption DEF IInv, TypeOK, OwnerConsistent, Returning, Awaited,
       WaitersPlace, Deleting, UnlockFrees, MayCall, At, mutexVars
<1>7. Deleting'
    BY <1>1, <1>2, MutexAssumption DEF IInv, TypeOK, OwnerConsistent, Awaited, Returning,
       WaitersPlace, Deleting, UnlockFrees, MayCall, At, mutexVars
<1> QED
    BY <1>1, <1>3, <1>4, <1>5, <1>6, <1>7 DEF IInv

LEMMA DeleteKeeps ==
    ASSUME NEW t \in Thread, IInv, Delete(t) PROVE IInv'
<1>1. WaitTypeOK' /\ ListSane' /\ Waiters' = Waiters
    BY ListStays DEF IInv, TypeOK, Delete
<1>2. Blocked(t) <=> Contains(Waiters, t)
    BY BlockedMeans
<1>3. TypeOK'
    BY <1>1, <1>2, MutexAssumption DEF IInv, TypeOK, OwnerConsistent, Delete, Goto, Labels,
       MayCall, At, mutexVars
<1>4. OwnerConsistent'
    BY <1>1, <1>2, MutexAssumption DEF IInv, TypeOK, OwnerConsistent, Delete, Goto, Labels,
       MayCall, At, mutexVars
<1>5. Awaited' /\ WaitersPlace'
    BY <1>1, <1>2, MutexAssumption DEF IInv, TypeOK, OwnerConsistent, Awaited, WaitersPlace,
       Deleting, Delete, Goto, Labels, MayCall, At, mutexVars
<1>6. Returning' /\ (inside \ late \subseteq {owner})'
    BY <1>1, <1>2, MutexAssumption DEF IInv, TypeOK, OwnerConsistent, Returning, Awaited,
       WaitersPlace, Deleting, Delete, Goto, Labels, MayCall, At, mutexVars
<1>7. Deleting'
    BY <1>1, <1>2, MutexAssumption DEF IInv, TypeOK, OwnerConsistent, Awaited, Returning,
       WaitersPlace, Deleting, Delete, Goto, Labels, MayCall, At, mutexVars
<1> QED
    BY <1>1, <1>3, <1>4, <1>5, <1>6, <1>7 DEF IInv

LEMMA DeleteTestsKeeps ==
    ASSUME NEW t \in Thread, IInv, DeleteTests(t) PROVE IInv'
<1>1. WaitTypeOK' /\ ListSane' /\ Waiters' = Waiters
    BY ListStays DEF IInv, TypeOK, DeleteTests
<1>2. Blocked(t) <=> Contains(Waiters, t)
    BY BlockedMeans
<1>3. TypeOK'
    BY <1>1, <1>2, MutexAssumption DEF IInv, TypeOK, OwnerConsistent, DeleteTests, Goto,
       Labels, At, mutexVars
<1>4. OwnerConsistent'
    BY <1>1, <1>2, MutexAssumption DEF IInv, TypeOK, OwnerConsistent, DeleteTests, Goto,
       Labels, At, mutexVars
<1>5. Awaited' /\ WaitersPlace'
    BY <1>1, <1>2, MutexAssumption DEF IInv, TypeOK, OwnerConsistent, Awaited, WaitersPlace,
       Deleting, DeleteTests, Goto, Labels, At, mutexVars
<1>6. Returning' /\ (inside \ late \subseteq {owner})'
    BY <1>1, <1>2, MutexAssumption DEF IInv, TypeOK, OwnerConsistent, Returning, Awaited,
       WaitersPlace, Deleting, DeleteTests, Goto, Labels, At, mutexVars
<1>7. Deleting'
    BY <1>1, <1>2, MutexAssumption DEF IInv, TypeOK, OwnerConsistent, Awaited, Returning,
       WaitersPlace, Deleting, DeleteTests, Goto, Labels, At, mutexVars
<1> QED
    BY <1>1, <1>3, <1>4, <1>5, <1>6, <1>7 DEF IInv

LEMMA DeleteWakesKeeps ==
    ASSUME NEW t \in Thread, IInv, DeleteWakes(t) PROVE IInv'
<1>1. /\ WaitTypeOK' /\ ListSane'
      /\ \/ UNCHANGED late /\ Waiters' = Waiters
         \/ /\ late' = late \cup {Head(Waiters)} /\ Head(Waiters) \in Thread
            /\ Waiters # <<>>
            /\ \A u : Contains(Waiters', u) <=> Contains(Waiters, u) /\ u # Head(Waiters)
    BY ListWakes, ListStays DEF IInv, TypeOK, DeleteWakes, waitVars
<1>2. Blocked(t) <=> Contains(Waiters, t)
    BY BlockedMeans
<1>3. TypeOK'
    BY <1>1, <1>2, MutexAssumption DEF IInv, TypeOK, OwnerConsistent, DeleteWakes, Goto,
       Labels, At, mutexVars
<1>4. OwnerConsistent'
    BY <1>1, <1>2, MutexAssumption DEF IInv, TypeOK, OwnerConsistent, DeleteWakes, Goto,
       Labels, At, mutexVars
<1>5. Awaited' /\ WaitersPlace'
    BY <1>1, <1>2, MutexAssumption DEF IInv, TypeOK, OwnerConsistent, Awaited, WaitersPlace,
       Deleting, DeleteWakes, Goto, Labels, At, mutexVars
<1>6. Returning' /\ (inside \ late \subseteq {owner})'
    BY <1>1, <1>2, MutexAssumption DEF IInv, TypeOK, OwnerConsistent, Returning, Awaited,
       WaitersPlace, Deleting, DeleteWakes, Goto, Labels, At, mutexVars
<1>7. Deleting'
    BY <1>1, <1>2, MutexAssumption DEF IInv, TypeOK, OwnerConsistent, Awaited, Returning,
       WaitersPlace, Deleting, DeleteWakes, Goto, Labels, At, mutexVars
<1> QED
    BY <1>1, <1>3, <1>4, <1>5, <1>6, <1>7 DEF IInv

LEMMA MutexInitKeeps ==
    ASSUME NEW t \in Thread, IInv, MutexInit(t) PROVE IInv'
<1>1. WaitTypeOK' /\ ListSane' /\ Waiters' = Waiters
    BY ListStays DEF IInv, TypeOK, MutexInit
<1>2. Blocked(t) <=> Contains(Waiters, t)
    BY BlockedMeans
<1>3. TypeOK'
    BY <1>1, <1>2, MutexAssumption DEF IInv, TypeOK, OwnerConsistent, MutexInit, MayCall,
       At, mutexVars
<1>4. OwnerConsistent'
    BY <1>1, <1>2, MutexAssumption DEF IInv, TypeOK, OwnerConsistent, MutexInit, MayCall,
       At, mutexVars
<1>5. Awaited' /\ WaitersPlace'
    BY <1>1, <1>2, MutexAssumption DEF IInv, TypeOK, OwnerConsistent, Awaited, WaitersPlace,
       Deleting, MutexInit, MayCall, At, mutexVars
<1>6. Returning' /\ (inside \ late \subseteq {owner})'
    BY <1>1, <1>2, MutexAssumption DEF IInv, TypeOK, OwnerConsistent, Returning, Awaited,
       WaitersPlace, Deleting, MutexInit, MayCall, At, mutexVars
<1>7. Deleting'
    BY <1>1, <1>2, MutexAssumption DEF IInv, TypeOK, OwnerConsistent, Awaited, Returning,
       WaitersPlace, Deleting, MutexInit, MayCall, At, mutexVars
<1> QED
    BY <1>1, <1>3, <1>4, <1>5, <1>6, <1>7 DEF IInv

LEMMA InitGood == Init => IInv
<1> SUFFICES ASSUME Init PROVE IInv
    OBVIOUS
<1>1. Waiters = <<>> /\ WaitTypeOK
    BY MutexAssumption DEF Init, WaitInit, WaitTypeOK, Waiters
<1>2. ListSane /\ \A u : ~Contains(Waiters, u)
  <2>1. Waiters \in Seq(Thread) /\ Len(Waiters) = 0
    BY <1>1
  <2>2. IsInjective(Waiters)
    <3>1. \A i, j \in 1 .. Len(Waiters) : Waiters[i] = Waiters[j] => i = j
        BY <2>1
    <3> QED
        BY Zenon, <2>1, <3>1, InjectiveSeq
  <2> QED
    BY <2>1, <2>2 DEF ListSane, Ordered, Contains
<1>3. TypeOK
    BY <1>1, MutexAssumption DEF Init, TypeOK, Labels
<1> QED
    BY <1>1, <1>2, <1>3, MutexAssumption DEF IInv, Init, OwnerConsistent, Awaited,
       WaitersPlace, Returning, Deleting

LEMMA StutterKeeps == IInv /\ UNCHANGED vars => IInv'
<1> SUFFICES ASSUME IInv, UNCHANGED vars PROVE IInv'
    OBVIOUS
<1>1. WaitTypeOK' /\ ListSane' /\ Waiters' = Waiters
    BY ListStays DEF IInv, TypeOK, vars, waitVars
<1> QED
    BY <1>1 DEF IInv, vars, TypeOK, OwnerConsistent, Awaited, WaitersPlace, Returning, Deleting

\* Every step of every call, every timeout and every deletion keeps the
\* invariant.
THEOREM Invariance == Spec => []IInv
<1>1. IInv /\ [Next]_vars => IInv'
  <2> SUFFICES ASSUME IInv, [Next]_vars PROVE IInv'
    OBVIOUS
  <2>1. CASE UNCHANGED vars
    BY <2>1, StutterKeeps
  <2>2. ASSUME NEW t \in Thread,
               Lock(t) \/ Timeout(t) \/ Unlock(t) \/ Delete(t) \/ DeleteLoop(t) \/ MutexInit(t)
        PROVE  IInv'
    <3>1. CASE Lock(t)
        BY <2>1, <3>1, LockAgainKeeps, LockTakesKeeps, LockReturnsKeeps, LockBlocksKeeps,
           StutterKeeps DEF Lock, LockRefused
    <3>2. CASE Unlock(t)
        BY <3>2, UnlockRefusedKeeps, UnlockInnerKeeps, UnlockWakesKeeps, UnlockFreesKeeps
           DEF Unlock, LastUnlock
    <3>3. CASE Timeout(t) \/ Delete(t) \/ DeleteLoop(t) \/ MutexInit(t)
        BY <3>3, TimeoutKeeps, DeleteKeeps, DeleteTestsKeeps, DeleteWakesKeeps,
           MutexInitKeeps DEF DeleteLoop
    <3> QED
        BY <2>2, <3>1, <3>2, <3>3
  <2> QED
    BY <2>1, <2>2 DEF Next
<1> QED
    BY <1>1, InitGood, PTL DEF Spec

\* The types hold; above all sk_mutex_lock and sk_mutex_unlock keep hold between
\* zero and its limit, and value at 0 or 1 (mutex.c:125, :142, :224).
THEOREM TypeCorrect == Spec => []TypeOK
<1>1. IInv => TypeOK
    BY DEF IInv
<1> QED
    BY <1>1, Invariance, PTL

\* value, owner and hold agree, whichever way the mutex is passed on.
THEOREM OwnerCorrect == Spec => []OwnerConsistent
<1>1. IInv => OwnerConsistent
    BY DEF IInv
<1> QED
    BY <1>1, Invariance, PTL

\* No thread waits for a mutex that is free, or that it has itself.
THEOREM WaitersCorrect == Spec => []WaitersHaveOwner
<1>1. IInv => WaitersHaveOwner
    BY DEF IInv, Awaited, WaitersHaveOwner
<1> QED
    BY <1>1, Invariance, PTL

\* __ipc_list_suspend keeps the suspend list in the order of the priorities, and
\* timeouts and wake-ups leave it so.
THEOREM OrderCorrect == Spec => []MostUrgentNext
<1>1. IInv => MostUrgentNext
    BY DEF IInv, ListSane, Ordered, MostUrgentNext
<1> QED
    BY <1>1, Invariance, PTL

\* Mutual exclusion, for every number of threads: only a lock that ended by its
\* timeout or by the deletion lets a thread in beside the owner.
THEOREM ExclusionCorrect == Spec => []MutualExclusion
<1>1. IInv => MutualExclusion
    BY DEF IInv, MutualExclusion
<1> QED
    BY <1>1, Invariance, PTL

=============================================================================
