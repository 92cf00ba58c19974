-------------------------------- MODULE Mutex --------------------------------
(***************************************************************************)
(* ipc/mutex.c: threads lock and unlock one recursive mutex, with timeouts *)
(* that run out at any moment, and delete it and set it up again.          *)
(*                                                                         *)
(* original_pri is left out: no code reads it.                             *)
(***************************************************************************)
EXTENDS Wait

CONSTANTS
    NULL,
    Mtx,                \* the suspend list of the mutex
    SK_MUTEX_HOLD_MAX

ASSUME MutexAssumption ==
    /\ NULL \notin Thread
    /\ WaitList = {Mtx}
    /\ Priority \in [Thread -> Nat]
    /\ SK_MUTEX_HOLD_MAX \in Nat \ {0}

VARIABLES
    value,    \* mutex->value
    owner,    \* mutex->owner
    hold,     \* mutex->hold
    life,     \* "live", "closing" while sk_mutex_delete runs, then "dead"
              \* (unlinked from the object list and given to sk_free)
    inside,   \* history: the threads whose sk_mutex_lock has returned SK_EOK
    late      \* history: the threads whose last wait for the mutex ended by
              \* its timeout or by the deletion of the mutex

waitVars == <<queue, timed>>
mutexVars == <<value, owner, hold>>
vars == <<queue, timed, pc, value, owner, hold, life, inside, late>>

Labels == {"run", "ret", "test", "wake"}

TypeOK ==
    /\ WaitTypeOK
    /\ pc \in [Thread -> Labels]
    /\ value \in {0, 1}
    /\ owner \in Thread \cup {NULL}
    /\ hold \in 0 .. SK_MUTEX_HOLD_MAX
    /\ life \in {"live", "closing", "dead"}
    /\ inside \in SUBSET Thread
    /\ late \in SUBSET Thread

Init ==
    /\ WaitInit
    /\ pc = [t \in Thread |-> "run"]
    /\ value = 1
    /\ owner = NULL
    /\ hold = 0
    /\ life = "live"
    /\ inside = {}
    /\ late = {}

Waiters == queue[Mtx]

\* The application calls the mutex only while it is live.
MayCall(t) == At(t, "run") /\ life = "live"

-----------------------------------------------------------------------------
(* sk_mutex_lock; sk_mutex_trylock is the case time = 0 *)

\* SK_EFULL, with nothing changed, when the count is at its limit.
LockAgain(t) ==
    /\ MayCall(t)
    /\ owner = t
    /\ hold' = IF hold < SK_MUTEX_HOLD_MAX THEN hold + 1 ELSE hold
    /\ UNCHANGED <<waitVars, pc, value, owner, life, inside, late>>

\* The code tests the limit of the count only after it has taken the mutex.
LockTakes(t) ==
    /\ MayCall(t)
    /\ owner # t
    /\ value > 0
    /\ value' = value - 1
    /\ owner' = t
    /\ IF hold < SK_MUTEX_HOLD_MAX
       THEN hold' = hold + 1 /\ inside' = inside \cup {t}
       ELSE UNCHANGED <<hold, inside>>
    /\ late' = late \ {t}
    /\ UNCHANGED <<waitVars, pc, life>>

LockRefused(t, time) ==
    /\ MayCall(t)
    /\ owner # t
    /\ value = 0
    /\ time = 0
    /\ UNCHANGED vars

LockBlocks(t, time) ==
    /\ MayCall(t)
    /\ owner # t
    /\ value = 0
    /\ time # 0
    /\ Block(t, Mtx, time, SK_IPC_FLAG_PRIO)
    /\ Goto(t, "ret")
    /\ inside' = inside \ {t}
    /\ late' = late \ {t}
    /\ UNCHANGED <<mutexVars, life>>

\* The thread runs again, for whatever reason, and the call returns SK_EOK.
LockReturns(t) ==
    /\ At(t, "ret")
    /\ Goto(t, "run")
    /\ inside' = inside \cup {t}
    /\ UNCHANGED <<waitVars, mutexVars, life, late>>

Timeout(t) ==
    /\ Expire(t)
    /\ late' = late \cup {t}
    /\ UNCHANGED <<pc, mutexVars, life, inside>>

-----------------------------------------------------------------------------
(* sk_mutex_unlock *)

\* SK_ERROR, with the mutex left alone, for anyone but the owner.
UnlockRefused(t) ==
    /\ MayCall(t)
    /\ owner # t
    /\ inside' = inside \ {t}
    /\ UNCHANGED <<waitVars, pc, mutexVars, life, late>>

UnlockInner(t) ==
    /\ MayCall(t)
    /\ owner = t
    /\ hold # 1
    /\ hold' = (hold - 1) % (SK_MUTEX_HOLD_MAX + 1)
    /\ UNCHANGED <<waitVars, pc, value, owner, life, inside, late>>

\* Mutant: the new owner's count is not set.
UnlockWakesUncounted(t) ==
    /\ MayCall(t)
    /\ owner = t
    /\ hold = 1
    /\ Waiters # <<>>
    /\ owner' = Head(Waiters)
    /\ hold' = 0
    /\ Wake(Mtx)
    /\ inside' = inside \ {t}
    /\ UNCHANGED <<pc, value, life, late>>

\* Mutant: the mutex is set free and the waiter is left to take it.
UnlockWakesUnowned(t) ==
    /\ MayCall(t)
    /\ owner = t
    /\ hold = 1
    /\ Waiters # <<>>
    /\ owner' = NULL
    /\ hold' = 0
    /\ value' = value + 1
    /\ Wake(Mtx)
    /\ inside' = inside \ {t}
    /\ UNCHANGED <<pc, life, late>>

\* The mutex passes to the thread at the head of the list, which is resumed.
UnlockWakes(t) ==
    /\ MayCall(t)
    /\ owner = t
    /\ hold = 1
    /\ Waiters # <<>>
    /\ owner' = Head(Waiters)
    /\ hold' = 1
    /\ Wake(Mtx)
    /\ inside' = inside \ {t}
    /\ UNCHANGED <<pc, value, life, late>>

\* Mutant: the list is not tested.
UnlockFreesAlways(t) ==
    /\ MayCall(t)
    /\ owner = t
    /\ hold = 1
    /\ value' = value + 1
    /\ owner' = NULL
    /\ hold' = 0
    /\ inside' = inside \ {t}
    /\ UNCHANGED <<waitVars, pc, life, late>>

UnlockFrees(t) ==
    /\ MayCall(t)
    /\ owner = t
    /\ hold = 1
    /\ Waiters = <<>>
    /\ value' = value + 1
    /\ owner' = NULL
    /\ hold' = 0
    /\ inside' = inside \ {t}
    /\ UNCHANGED <<waitVars, pc, life, late>>

-----------------------------------------------------------------------------
(* sk_mutex_delete, whose loop tests the list with interrupts enabled *)

\* The application does not delete a mutex that another thread has.
Delete(t) ==
    /\ MayCall(t)
    /\ owner \in {NULL, t}
    /\ life' = "closing"
    /\ Goto(t, "test")
    /\ UNCHANGED <<waitVars, mutexVars, inside, late>>

DeleteTests(t) ==
    /\ At(t, "test")
    /\ IF Waiters = <<>>
       THEN Goto(t, "run") /\ life' = "dead"
       ELSE Goto(t, "wake") /\ UNCHANGED life
    /\ UNCHANGED <<waitVars, mutexVars, inside, late>>

\* Nothing happens when the last waiter has timed out since the test: the list
\* head is taken for the tlist of a thread, whose stat is then the low byte of
\* mutex->value, never SUSPEND.
DeleteWakes(t) ==
    /\ At(t, "wake")
    /\ Goto(t, "test")
    /\ IF Waiters # <<>>
       THEN Wake(Mtx) /\ late' = late \cup {Head(Waiters)}
       ELSE UNCHANGED <<waitVars, late>>
    /\ UNCHANGED <<mutexVars, life, inside>>

\* sk_mutex_init on the memory of a deleted mutex.
MutexInit(t) ==
    /\ At(t, "run")
    /\ life = "dead"
    /\ life' = "live"
    /\ value' = 1
    /\ owner' = NULL
    /\ hold' = 0
    /\ inside' = inside \cap late
    /\ UNCHANGED <<waitVars, pc, late>>

-----------------------------------------------------------------------------

Lock(t) ==
    \/ LockAgain(t) \/ LockTakes(t) \/ LockReturns(t)
    \/ \E time \in Timeouts : LockRefused(t, time) \/ LockBlocks(t, time)

LastUnlock(t) == UnlockWakes(t) \/ UnlockFrees(t)

Unlock(t) == UnlockRefused(t) \/ UnlockInner(t) \/ LastUnlock(t)

DeleteLoop(t) == DeleteTests(t) \/ DeleteWakes(t)

Next ==
    \E t \in Thread :
       Lock(t) \/ Timeout(t) \/ Unlock(t) \/ Delete(t) \/ DeleteLoop(t) \/ MutexInit(t)

Spec == Init /\ [][Next]_vars

-----------------------------------------------------------------------------
(* Properties *)

\* value, owner and hold tell the same story whatever path the mutex took from
\* one thread to the next: free, unowned and not held, or none of them.
OwnerConsistent ==
    /\ owner = NULL <=> value = 1
    /\ owner = NULL <=> hold = 0

\* Nobody waits for a mutex nobody has, and the thread that has it is not one
\* of those blocked on it: an unlock will come.
WaitersHaveOwner ==
    life = "live" =>
       /\ Waiters # <<>> => owner # NULL
       /\ owner # NULL => ~Contains(Waiters, owner)

\* The suspend list is ordered by priority, so that sk_mutex_unlock passes the
\* mutex to the most urgent waiter.
MostUrgentNext ==
    \A i, j \in 1 .. Len(Waiters) :
       i < j => Priority[Waiters[i]] <= Priority[Waiters[j]]

\* At most one thread is between a successful sk_mutex_lock and its
\* sk_mutex_unlock, and it is the owner.  A lock that ran into its timeout or
\* into the deletion returns SK_EOK as well (mutex.c:171): these alone are let
\* in beside the owner.
MutualExclusion == life = "live" => inside \ late \subseteq {owner}

\* The most urgent thread gets the mutex, or its timeout, however often the
\* others pass it on and lock it again, provided that no owner keeps the mutex
\* and no deletion goes on for ever.  That an owner gets as far as its unlock is
\* a premise: the scheduler does not promise it, since sk_mutex_lock leaves the
\* owner's priority as it is (mutex.c:157).
MostUrgentServed ==
    (\A u \in Thread : []<>(owner # u)) /\ []<>(life # "closing") =>
       \A t \in Thread :
          (\A u \in Thread \ {t} : Priority[t] < Priority[u]) =>
             []<>~Contains(Waiters, t)

=============================================================================
