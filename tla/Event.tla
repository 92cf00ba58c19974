-------------------------------- MODULE Event --------------------------------
(***************************************************************************)
(* ipc/event.c: threads send flags to one event and wait for all or for    *)
(* any of a set of flags, with timeouts that run out at any moment.  A set *)
(* of flags is the set of its bits.                                        *)
(*                                                                         *)
(* sk_event_send decides by a variable it may leave unset whether to call  *)
(* sk_schedule at its end; either way any thread may run next.             *)
(***************************************************************************)
EXTENDS Wait

CONSTANTS
    Ev,      \* the suspend list of the event
    FLAG,    \* how it is ordered
    Flags    \* the flags the application uses

VARIABLES
    set,          \* event->set
    event_set,    \* thread->event_set of the threads inside sk_event_recv
    event_info,   \* thread->event_info of them: the option of the call
    granted,      \* history: the flags set as a send ended the wait of each
    given         \* history: the flags the last step handed to a receiver that
                  \* asked to clear them

waitVars == <<queue, timed>>
vars == <<queue, timed, pc, set, event_set, event_info, granted, given>>
recvVars == <<event_set, event_info, granted>>

Options == [kind : {"AND", "OR"}, clear : BOOLEAN]

TypeOK ==
    /\ WaitTypeOK
    /\ pc \in [Thread -> {"run", "ret"}]
    /\ set \in SUBSET Flags
    /\ event_set \in [Thread -> SUBSET Flags]
    /\ event_info \in [Thread -> Options]
    /\ granted \in [Thread -> SUBSET Flags]
    /\ given \in SUBSET Flags

\* Nothing reads thread->event_set and event_info outside sk_event_recv.
NoCall == [kind |-> "AND", clear |-> FALSE]

Init ==
    /\ WaitInit
    /\ pc = [t \in Thread |-> "run"]
    /\ set = {}
    /\ event_set = [t \in Thread |-> {}]
    /\ event_info = [t \in Thread |-> NoCall]
    /\ granted = [t \in Thread |-> {}]
    /\ given = {}

Waiters == queue[Ev]

\* The flags wanted, by the option, are there in have.
Satisfied(want, option, have) ==
    IF option.kind = "AND" THEN want \subseteq have ELSE want \cap have # {}

\* Thread t waits for flags that are all set, or of which one is.
Overdue(t) == Contains(Waiters, t) /\ Satisfied(event_set[t], event_info[t], set)

\* The flags left in have when want is received.
Left(want, option, have) == IF option.clear THEN have \ want ELSE have

Given(flags, option) == given' = IF option.clear THEN flags ELSE {}

-----------------------------------------------------------------------------
(* sk_event_send *)

SendNobodyWaits(t, flags) ==
    /\ At(t, "run")
    /\ Waiters = <<>>
    /\ set' = set \cup flags
    /\ given' = {}
    /\ UNCHANGED <<waitVars, pc, recvVars>>

\* Mutant: a thread that waits for any of its flags is told it got them all.
SendWakesUncut(t, flags) ==
    LET h == Head(Waiters)
        have == set \cup flags
    IN  /\ At(t, "run")
        /\ Waiters # <<>>
        /\ Satisfied(event_set[h], event_info[h], have)
        /\ set' = Left(event_set[h], event_info[h], have)
        /\ granted' = [granted EXCEPT ![h] = have]
        /\ Given(event_set[h], event_info[h])
        /\ Wake(Ev)
        /\ UNCHANGED <<pc, event_set, event_info>>

\* The first waiter is given its flags: those of them that are set, when it
\* waits for any.
SendWakes(t, flags) ==
    LET h == Head(Waiters)
        have == set \cup flags
        got == IF event_info[h].kind = "OR"
               THEN event_set[h] \cap have ELSE event_set[h]
    IN  /\ At(t, "run")
        /\ Waiters # <<>>
        /\ Satisfied(event_set[h], event_info[h], have)
        /\ event_set' = [event_set EXCEPT ![h] = got]
        /\ set' = Left(got, event_info[h], have)
        /\ granted' = [granted EXCEPT ![h] = have]
        /\ Given(got, event_info[h])
        /\ Wake(Ev)
        /\ UNCHANGED <<pc, event_info>>

\* The first waiter waits on; nobody else is looked at.
SendServesNobody(t, flags) ==
    LET h == Head(Waiters)
        have == set \cup flags
    IN  /\ At(t, "run")
        /\ Waiters # <<>>
        /\ ~Satisfied(event_set[h], event_info[h], have)
        /\ set' = have
        /\ given' = {}
        /\ UNCHANGED <<waitVars, pc, recvVars>>

-----------------------------------------------------------------------------
(* sk_event_recv *)

\* Mutant: a receive that clears takes every flag away.
RecvTakesAll(t, want, option) ==
    /\ At(t, "run")
    /\ Satisfied(want, option, set)
    /\ set' = Left(set, option, set)
    /\ Given(set \cap want, option)
    /\ UNCHANGED <<waitVars, pc, recvVars>>

RecvTakes(t, want, option) ==
    /\ At(t, "run")
    /\ Satisfied(want, option, set)
    /\ set' = Left(want, option, set)
    /\ Given(set \cap want, option)
    /\ UNCHANGED <<waitVars, pc, recvVars>>

\* SK_ETIMEOUT, with nothing changed.
RecvRefused(t, want, option, time) ==
    /\ At(t, "run")
    /\ ~Satisfied(want, option, set)
    /\ time = 0
    /\ UNCHANGED vars

RecvBlocks(t, want, option, time) ==
    /\ At(t, "run")
    /\ ~Satisfied(want, option, set)
    /\ time # 0
    /\ event_set' = [event_set EXCEPT ![t] = want]
    /\ event_info' = [event_info EXCEPT ![t] = option]
    /\ Block(t, Ev, time, FLAG)
    /\ Goto(t, "ret")
    /\ granted' = [granted EXCEPT ![t] = {}]
    /\ given' = {}
    /\ UNCHANGED set

\* The thread runs again, for whatever reason: *recved = thread->event_set,
\* and the call returns SK_EOK.
RecvReturns(t) ==
    /\ At(t, "ret")
    /\ Goto(t, "run")
    /\ event_set' = [event_set EXCEPT ![t] = {}]
    /\ event_info' = [event_info EXCEPT ![t] = NoCall]
    /\ granted' = [granted EXCEPT ![t] = {}]
    /\ given' = {}
    /\ UNCHANGED <<waitVars, set>>

Timeout(t) ==
    /\ Expire(t)
    /\ given' = {}
    /\ UNCHANGED <<pc, set, recvVars>>

-----------------------------------------------------------------------------

Wanted == SUBSET Flags \ {{}}

Send(t) ==
    \E flags \in Wanted :
       SendNobodyWaits(t, flags) \/ SendWakes(t, flags) \/ SendServesNobody(t, flags)

Recv(t) ==
    \E want \in Wanted, option \in Options :
       \/ RecvTakes(t, want, option)
       \/ \E time \in Timeouts :
             RecvRefused(t, want, option, time) \/ RecvBlocks(t, want, option, time)

Next == \E t \in Thread : Send(t) \/ Recv(t) \/ RecvReturns(t) \/ Timeout(t)

Spec == Init /\ [][Next]_vars

-----------------------------------------------------------------------------
(* Properties *)

\* A wait that a send has ended reports flags that were set then, and at least
\* one; all of those it asked for when it asked for all.  Only a wait that ran
\* into its timeout (which returns SK_EOK too) reports the flags it asked for
\* and did not get.
ReportsWhatWasSet ==
    \A t \in Thread :
       At(t, "ret") /\ granted[t] # {} =>
          event_set[t] # {} /\ event_set[t] \subseteq granted[t]

\* A flag once sent is lost to nobody: it leaves the set only together with a
\* receive that asked to clear it and reports it.
FlagsGoToReceivers == [][set \ set' \subseteq given']_vars

\* A send resumes the threads whose flags have come: nobody stays suspended on
\* the event while the flags it waits for are set (event.c:98, :122).
NobodyOverdue == \A t \in Thread : ~Overdue(t)

=============================================================================
