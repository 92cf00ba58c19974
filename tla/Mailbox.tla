------------------------------- MODULE Mailbox -------------------------------
(***************************************************************************)
(* ipc/mailbox.c: threads send to and receive from one mailbox.            *)
(*                                                                         *)
(* A call that need not wait is one critical section.  A call that has     *)
(* waited goes on with interrupts enabled: there every statement is a step *)
(* of its own (the "window" of the call), and any other thread may come in *)
(* between.  Two calls meet when one writes what another in its window is  *)
(* at work on: then the mailbox is left as their instructions happen to    *)
(* interleave, and the model ends (met).                                   *)
(***************************************************************************)
EXTENDS Wait, FiniteSets

CONSTANTS
    Mail,       \* the values sent
    NoMail,     \* stands for a value nobody reads
    Receivers,  \* parent.suspend_thread: the receivers that wait
    Senders,    \* suspend_sender_thread: the senders that wait
    FLAG,       \* parent.parent.flag: how both are ordered
    size        \* mb->size

VARIABLES
    mb,       \* the fields msg_pool, in_offset, out_offset and entry
    mail,     \* the value each thread in a window sends or has received
    mails,    \* history: what has been sent and not received, oldest first
    met       \* history: two calls have met

mbVars == <<mb, mail, mails, met>>
vars == <<queue, timed, pc, mb, mail, mails, met>>

SendWindow == {"store", "in", "in_wrap", "more"}
RecvWindow == {"load", "out", "out_wrap", "less"}

TypeOK ==
    /\ WaitTypeOK
    /\ pc \in [Thread -> {"run", "full", "empty", "wake"} \cup SendWindow \cup RecvWindow]
    /\ mb \in [pool : [0 .. size -> Mail \cup {NoMail}], in : 0 .. size,
               out : 0 .. size, entry : 0 .. size]
    /\ mail \in [Thread -> Mail \cup {NoMail}]
    /\ mails \in Seq(Mail)
    /\ met \in BOOLEAN

\* sk_mailbox_init.  pool[size] is the memory behind the pool.
Init ==
    /\ WaitInit
    /\ pc = [t \in Thread |-> "run"]
    /\ mb = [pool |-> [i \in 0 .. size |-> NoMail], in |-> 0, out |-> 0, entry |-> 0]
    /\ mail = [t \in Thread |-> NoMail]
    /\ mails = <<>>
    /\ met = FALSE

InWindow(t, labels) == ~Blocked(t) /\ pc[t] \in labels

\* Thread t writes what a call in its window at one of labels works on.
Meets(t, labels) == met' = (\E u \in Thread \ {t} : InWindow(u, labels))

\* A send meets another in its window, and a receive about to count down; a
\* receive meets another in its window, and a send about to count up.
Sending == SendWindow \cup {"less"}
Receiving == RecvWindow \cup {"more"}

Wrap(i) == IF i >= size THEN 0 ELSE i

\* The receiver at the head of the list, if any, is resumed; recv does this as
\* well as send.  In a window the list may become empty between the test and
\* the resume: the list head is then taken for the tlist of a thread whose stat
\* is the low byte of the pointer msg_pool, never SUSPEND.
WakeReceiver ==
    IF queue[Receivers] # <<>> THEN Wake(Receivers) ELSE UNCHANGED <<queue, timed>>

-----------------------------------------------------------------------------
(* sk_mailbox_send_wait; sk_mailbox_send is the case time = 0 *)

SendNow(t, v) ==
    /\ At(t, "run")
    /\ mb.entry < size
    /\ mb' = [mb EXCEPT !.pool[mb.in] = v, !.in = Wrap(@ + 1), !.entry = @ + 1]
    /\ mails' = Append(mails, v)
    /\ WakeReceiver
    /\ Meets(t, Sending)
    /\ UNCHANGED <<pc, mail>>

\* SK_EFULL
SendRefused(t, time) ==
    /\ At(t, "run")
    /\ mb.entry = size
    /\ time = 0
    /\ UNCHANGED vars

SendBlocks(t, v, time) ==
    /\ At(t, "run")
    /\ mb.entry = size
    /\ time # 0
    /\ Block(t, Senders, time, FLAG)
    /\ Goto(t, "full")
    /\ mail' = [mail EXCEPT ![t] = v]
    /\ UNCHANGED <<mb, mails, met>>

\* One statement of a window: t goes on at label, and mb becomes m.
Statement(t, from, to, m) ==
    /\ At(t, from)
    /\ Goto(t, to)
    /\ mb' = m
    /\ mail' = [mail EXCEPT ![t] = IF to = "run" THEN NoMail ELSE @]
    /\ UNCHANGED <<queue, timed>>

\* SK_EFULL when the mailbox is full again, or full after all.
FinishSend(t) ==
    \/ /\ Statement(t, "full", IF mb.entry = size THEN "run" ELSE "store", mb)
       /\ UNCHANGED <<mails, met>>
    \/ /\ \/ Statement(t, "store", "in", [mb EXCEPT !.pool[mb.in] = mail[t]])
          \/ Statement(t, "in", "in_wrap", [mb EXCEPT !.in = @ + 1])
          \/ Statement(t, "in_wrap", "more", [mb EXCEPT !.in = Wrap(@)])
       /\ Meets(t, SendWindow)
       /\ UNCHANGED mails
    \/ LET room == mb.entry < size
       IN  /\ Statement(t, "more", IF room THEN "wake" ELSE "run",
                        IF room THEN [mb EXCEPT !.entry = @ + 1] ELSE mb)
           /\ mails' = IF room THEN Append(mails, mail[t]) ELSE mails
           /\ Meets(t, Sending)

\* The end of both windows.
WindowWakes(t) ==
    /\ At(t, "wake")
    /\ Goto(t, "run")
    /\ WakeReceiver
    /\ mail' = [mail EXCEPT ![t] = NoMail]
    /\ UNCHANGED <<mb, mails, met>>

-----------------------------------------------------------------------------
(* sk_mailbox_recv *)

\* Mutant: the mail at in_offset.
RecvNewest(t) ==
    /\ At(t, "run")
    /\ mb.entry > 0
    /\ mb' = [mb EXCEPT !.in = (@ + size - 1) % size, !.entry = @ - 1]
    /\ mails' = Tail(mails)
    /\ WakeReceiver
    /\ Meets(t, Receiving)
    /\ UNCHANGED <<pc, mail>>

RecvNow(t) ==
    /\ At(t, "run")
    /\ mb.entry > 0
    /\ mb' = [mb EXCEPT !.out = Wrap(@ + 1), !.entry = @ - 1]
    /\ mails' = Tail(mails)
    /\ WakeReceiver
    /\ Meets(t, Receiving)
    /\ UNCHANGED <<pc, mail>>

\* SK_ETIMEOUT
RecvRefused(t, time) ==
    /\ At(t, "run")
    /\ mb.entry = 0
    /\ time = 0
    /\ UNCHANGED vars

RecvBlocks(t, time) ==
    /\ At(t, "run")
    /\ mb.entry = 0
    /\ time # 0
    /\ Block(t, Receivers, time, FLAG)
    /\ Goto(t, "empty")
    /\ UNCHANGED mbVars

\* SK_ETIMEOUT, also for a wait without a timeout, when the mail that woke the
\* thread has gone to another.
FinishRecv(t) ==
    \/ /\ Statement(t, "empty", IF mb.entry = 0 THEN "run" ELSE "load", mb)
       /\ UNCHANGED <<mails, met>>
    \/ /\ At(t, "load")
       /\ Goto(t, "out")
       /\ mail' = [mail EXCEPT ![t] = mb.pool[mb.out]]
       /\ UNCHANGED <<queue, timed, mb, mails, met>>
    \/ /\ \/ Statement(t, "out", "out_wrap", [mb EXCEPT !.out = @ + 1])
          \/ Statement(t, "out_wrap", "less", [mb EXCEPT !.out = Wrap(@)])
       /\ Meets(t, RecvWindow)
       /\ UNCHANGED mails
    \/ /\ Statement(t, "less", "wake", [mb EXCEPT !.entry = Max({@ - 1, 0})])
       /\ mails' = SubSeq(mails, 2, Len(mails))
       /\ Meets(t, Receiving)

-----------------------------------------------------------------------------

Call(t) ==
    \/ \E v \in Mail : SendNow(t, v)
    \/ RecvNow(t)
    \/ \E time \in Timeouts :
          \/ SendRefused(t, time) \/ RecvRefused(t, time)
          \/ \E v \in Mail : SendBlocks(t, v, time)
          \/ RecvBlocks(t, time)

Timeout(t) ==
    /\ Expire(t)
    /\ UNCHANGED <<pc, mbVars>>

Proceed(t) == FinishSend(t) \/ FinishRecv(t) \/ WindowWakes(t)

Next == ~met /\ \E t \in Thread : Call(t) \/ Proceed(t) \/ Timeout(t)

Spec == Init /\ [][Next]_vars

-----------------------------------------------------------------------------
(* Properties *)

\* Until two calls meet, and whatever a send does inside the window of a receive
\* or the other way round: the mails from out_offset on are those sent and not
\* received, in the order sent; and a receiver that has waited and is about to
\* count its mail off has the oldest one.
MailsInOrder ==
    ~met =>
       /\ (\A t \in Thread : ~InWindow(t, SendWindow \cup RecvWindow)) =>
             /\ Len(mails) = mb.entry
             /\ \A i \in 1 .. mb.entry : mails[i] = mb.pool[(mb.out + i - 1) % size]
       /\ \A t \in Thread :
             At(t, "less") => mails # <<>> /\ mail[t] = Head(mails)

\* No wake-up of a receiver is lost: while receivers wait, there are no more
\* mails than receivers already resumed to fetch them.
NoIdleMail ==
    queue[Receivers] # <<>> =>
       mb.entry <= Cardinality({t \in Thread :
                                  InWindow(t, RecvWindow \cup {"empty", "wake"})})

=============================================================================
