------------------------------- MODULE SysTimer -------------------------------
(***************************************************************************)
(* The software timers of init/sys_tick.c, as functions on the timer       *)
(* state.  Every thread owns one timer (thread->thread_timer), named by    *)
(* the thread; UserTimer holds the timers an application creates.          *)
(*                                                                         *)
(* A timer state m is a record:                                            *)
(*   list      __timer_list, in list order                                 *)
(*   active    the timers with SK_TIMER_FLAG_ACTIVE                        *)
(*   periodic  the timers with SK_TIMER_FLAG_PERIODIC                      *)
(*   init      timer->init_tick                                            *)
(*   timeout   timer->timeout_tick                                         *)
(*   freed     the timers whose object has left the object list and has    *)
(*             been given to sk_free                                       *)
(* Ticks are sk_tick_t, an unsigned integer that wraps: TickMod stands for *)
(* 2^32.                                                                   *)
(***************************************************************************)
EXTENDS Sched

CONSTANTS
    UserTimer,
    TickMod

Timer == Thread \cup UserTimer
Tick == 0 .. TickMod - 1

ASSUME SysTimerAssumption ==
    /\ Thread \cap UserTimer = {}
    /\ NULL \notin UserTimer
    /\ TickMod \in Nat \ {0}

TimerState ==
    [list     : Seq(Timer),
     active   : SUBSET Timer,
     periodic : SUBSET Timer,
     init     : [Timer -> Tick],
     timeout  : [Timer -> Tick],
     freed    : SUBSET Timer]

InList(m, x) == Contains(m.list, x)

sk_timer_control(m, x, ticks) == [m EXCEPT !.init[x] = ticks]

\* Mutant: a timer that is not in the list is not put into it.
start_without_link(m, x, now) ==
    [m EXCEPT !.timeout[x] = (now + m.init[x]) % TickMod,
              !.active = @ \cup {x}]

\* Started timers go to the front of the list.
sk_timer_start(m, x, now) ==
    [m EXCEPT !.list = <<x>> \o RemoveFirst(@, x),
              !.timeout[x] = (now + m.init[x]) % TickMod,
              !.active = @ \cup {x}]

\* The list is left alone when the timer is not active.
sk_timer_stop(m, x) ==
    IF x \in m.active
    THEN [m EXCEPT !.list = RemoveFirst(@, x), !.active = @ \ {x}]
    ELSE m

\* Ends with sk_object_delete, which unlinks the timer's object and frees it.
\* The only caller, __thread_exit, passes a timer inside the thread's own block:
\* what sk_free does with a pointer into a block is not followed.
sk_timer_delete(m, x) ==
    [m EXCEPT !.list = RemoveFirst(@, x), !.active = @ \ {x},
              !.freed = @ \cup {x}]

\* A timer started over with the period given, as sk_thread_sleep and the
\* blocking IPC calls do for the calling thread.
StartWith(m, x, ticks, now) ==
    sk_timer_start(sk_timer_control(m, x, ticks), x, now)

Due(m, x, now) == now >= m.timeout[x]

\* list_1->next == list_1->prev: the timer is unlinked, or alone in the list.
NextIsPrev(m, x) == ~InList(m, x) \/ Len(m.list) = 1

\* The first node of the list, and the node after x's: sk_list_for_each.
FirstTimer(m) == IF m.list = <<>> THEN NULL ELSE m.list[1]

\* Mutant: the walk starts over after every timer.
WalkStartsOver(m, x) == FirstTimer(m)

TimerAfter(m, x) ==
    LET at == SelectInSeq(m.list, LAMBDA y : y = x)
    IN  IF at < Len(m.list) THEN m.list[at + 1] ELSE NULL

\* What sk_timer_check does to a due timer after its callback has returned.
AfterCallback(m, x, now) ==
    IF x \in m.periodic
    THEN sk_timer_start(m, x, now)
    ELSE [m EXCEPT !.active = @ \ {x}]

=============================================================================
