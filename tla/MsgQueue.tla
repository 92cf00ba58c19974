------------------------------- MODULE MsgQueue -------------------------------
(***************************************************************************)
(* ipc/msg_queue.c: threads send to and receive from one message queue,    *)
(* whose messages lie in slots linked into the queue or the free list.     *)
(*                                                                         *)
(* A send takes a slot, fills it with interrupts enabled and links it; a   *)
(* receive unlinks a slot, copies it with interrupts enabled and frees it. *)
(* A receive that has waited unlinks with interrupts enabled too, every    *)
(* statement a step (its "window"), and any other thread may come in       *)
(* between.  Two calls meet when one writes what another in its window is  *)
(* at work on: then the queue is left as their instructions happen to      *)
(* interleave, and the model ends (met).                                   *)
(*                                                                         *)
(* No sender waits: the test for a full queue (msg_queue.c:201) looks at   *)
(* mq instead of msg, so that a send with a timeout goes on with the NULL  *)
(* slot.  The model ends where the NULL slot is used (fault).              *)
(***************************************************************************)
EXTENDS Wait, FiniteSets

CONSTANTS
    Message,     \* the messages sent
    NoMessage,   \* stands for a message nobody reads
    Receivers,   \* parent.suspend_thread: the receivers that wait
    FLAG,        \* parent.parent.flag: how they are ordered
    max_msgs     \* mq->max_msgs, the number of slots

VARIABLES
    mq,      \* msg_queue_head, _tail, _free, entry; fault once NULL was used
    next,    \* msg->next of each slot
    data,    \* what each slot holds
    held,    \* the local variable msg of each thread
    msg,     \* the message of each thread that sends, until it is linked
    msgs,    \* history: what has been sent and not received, oldest first
    due,     \* history: what each receiver has to find in the slot it holds
    met      \* history: two calls have met

slotVars == <<next, data>>
mqVars == <<mq, next, data, held, msg, msgs, due, met>>
vars == <<queue, timed, pc, mq, next, data, held, msg, msgs, due, met>>

NoSlot == 0
Slot == 1 .. max_msgs
Pointer == Slot \cup {NoSlot}

Window == {"head", "next", "tail", "less"}

TypeOK ==
    /\ WaitTypeOK
    /\ pc \in [Thread -> {"run", "fill", "link", "copy", "free", "empty"}
                      \cup Window]
    /\ mq \in [head : Pointer, tail : Pointer, free : Pointer,
               entry : 0 .. max_msgs, fault : BOOLEAN]
    /\ next \in [Slot -> Pointer]
    /\ data \in [Slot -> Message \cup {NoMessage}]
    /\ held \in [Thread -> Pointer]
    /\ met \in BOOLEAN

\* sk_msg_queue_init: every slot is put in front of the free list.
Init ==
    /\ WaitInit
    /\ pc = [t \in Thread |-> "run"]
    /\ mq = [head |-> NoSlot, tail |-> NoSlot, free |-> max_msgs, entry |-> 0,
             fault |-> FALSE]
    /\ next = [s \in Slot |-> s - 1]
    /\ data = [s \in Slot |-> NoMessage]
    /\ msg = [t \in Thread |-> NoMessage]
    /\ due = [t \in Thread |-> NoMessage]
    /\ held = [t \in Thread |-> NoSlot]
    /\ msgs = <<>>
    /\ met = FALSE

InWindow(t, labels) == ~Blocked(t) /\ pc[t] \in labels

\* Thread t writes what a receive in its window at one of labels works on.
Meets(t, labels) == met' = (\E u \in Thread \ {t} : InWindow(u, labels))

Hold(t, s) == held' = [held EXCEPT ![t] = s]


\* The receiver at the head of the list, if any, is resumed.
WakeReceiver ==
    IF queue[Receivers] # <<>> THEN Wake(Receivers) ELSE UNCHANGED <<queue, timed>>

-----------------------------------------------------------------------------
(* sk_msg_queue_send_wait; sk_msg_queue_send is the case time = 0 *)

\* SK_EFULL
SendRefused(t, time) ==
    /\ At(t, "run")
    /\ mq.free = NoSlot
    /\ time = 0
    /\ UNCHANGED vars

SendFaults(t, time) ==
    /\ At(t, "run")
    /\ mq.free = NoSlot
    /\ time # 0
    /\ mq' = [mq EXCEPT !.fault = TRUE]
    /\ UNCHANGED <<queue, timed, pc, slotVars, held, msg, msgs, due, met>>

SendTakes(t, v) ==
    /\ At(t, "run")
    /\ mq.free # NoSlot
    /\ Hold(t, mq.free)
    /\ mq' = [mq EXCEPT !.free = next[@]]
    /\ msg' = [msg EXCEPT ![t] = v]
    /\ Goto(t, "fill")
    /\ UNCHANGED <<queue, timed, slotVars, msgs, due, met>>

\* The slot is t's alone: interrupts are enabled.
Fill(t) ==
    /\ At(t, "fill")
    /\ next' = [next EXCEPT ![held[t]] = NoSlot]
    /\ data' = [data EXCEPT ![held[t]] = msg[t]]
    /\ Goto(t, "link")
    /\ UNCHANGED <<queue, timed, mq, held, msg, msgs, due, met>>

\* A receive that has not read msg_queue_head yet finds the queue as it is.
Link(t) ==
    /\ At(t, "link")
    /\ next' = [s \in Slot |-> IF s = mq.tail THEN held[t] ELSE next[s]]
    /\ mq' = [mq EXCEPT !.tail = held[t],
                        !.head = IF @ = NoSlot THEN held[t] ELSE @,
                        !.entry = @ + 1]
    /\ Hold(t, NoSlot)
    /\ msgs' = Append(msgs, msg[t])
    /\ Goto(t, "run")
    /\ WakeReceiver
    /\ msg' = [msg EXCEPT ![t] = NoMessage]
    /\ Meets(t, Window \ {"head"})
    /\ UNCHANGED <<data, due>>

-----------------------------------------------------------------------------
(* sk_msg_queue_recv *)

\* SK_ETIMEOUT
RecvRefused(t, time) ==
    /\ At(t, "run")
    /\ mq.entry = 0
    /\ time = 0
    /\ UNCHANGED vars

RecvBlocks(t, time) ==
    /\ At(t, "run")
    /\ mq.entry = 0
    /\ time # 0
    /\ Block(t, Receivers, time, FLAG)
    /\ Goto(t, "empty")
    /\ UNCHANGED mqVars

\* The message t receives leaves the queue here.
Received(t) ==
    /\ due' = [due EXCEPT ![t] = IF msgs = <<>> THEN @ ELSE Head(msgs)]
    /\ msgs' = SubSeq(msgs, 2, Len(msgs))

\* Mutant: the tail keeps pointing to the slot that has left the queue.
RecvKeepsTail(t) ==
    /\ At(t, "run")
    /\ mq.entry > 0
    /\ mq.head # NoSlot
    /\ Hold(t, mq.head)
    /\ mq' = [mq EXCEPT !.head = next[@], !.entry = @ - 1]
    /\ Received(t)
    /\ Goto(t, "copy")
    /\ Meets(t, Window)
    /\ UNCHANGED <<queue, timed, slotVars, msg>>

RecvUnlinks(t) ==
    /\ At(t, "run")
    /\ mq.entry > 0
    /\ mq.head # NoSlot
    /\ Hold(t, mq.head)
    /\ mq' = [mq EXCEPT !.head = next[@],
                        !.tail = IF @ = mq.head THEN NoSlot ELSE @,
                        !.entry = @ - 1]
    /\ Received(t)
    /\ Goto(t, "copy")
    /\ Meets(t, Window)
    /\ UNCHANGED <<queue, timed, slotVars, msg>>

\* One statement of a window: t goes on at to, and mq becomes q.
Statement(t, from, to, q) ==
    /\ At(t, from)
    /\ Goto(t, to)
    /\ mq' = q
    /\ UNCHANGED <<queue, timed, slotVars, msg>>

\* The same after a wait.  SK_ETIMEOUT, also for a wait without a timeout, when
\* the message that woke the thread has gone to another.
FinishWait(t) ==
    \/ /\ Statement(t, "empty", IF mq.entry = 0 THEN "run" ELSE "head", mq)
       /\ UNCHANGED <<held, msgs, due, met>>
    \/ /\ Statement(t, "head", "next", mq)
       /\ Hold(t, mq.head)
       /\ UNCHANGED <<msgs, due, met>>
    \/ /\ \/ /\ held[t] # NoSlot
             /\ Statement(t, "next", "tail", [mq EXCEPT !.head = next[held[t]]])
          \/ Statement(t, "tail", "less",
                       [mq EXCEPT !.tail = IF @ = held[t] THEN NoSlot ELSE @])
       /\ Meets(t, Window)
       /\ UNCHANGED <<held, msgs, due>>
    \/ /\ Statement(t, "less", "copy", [mq EXCEPT !.entry = Max({@ - 1, 0})])
       /\ Received(t)
       /\ Meets(t, Window)
       /\ UNCHANGED held

\* The slot unlinked is NULL: entry still counts a message that another receive
\* has unlinked in its window.
RecvFaults(t) ==
    /\ \/ At(t, "run") /\ mq.entry > 0 /\ mq.head = NoSlot
       \/ At(t, "next") /\ held[t] = NoSlot
    /\ mq' = [mq EXCEPT !.fault = TRUE]
    /\ Meets(t, Window)
    /\ UNCHANGED <<queue, timed, pc, slotVars, held, msg, msgs, due>>

\* The copy to the caller's buffer: interrupts are enabled.
Copy(t) ==
    /\ At(t, "copy")
    /\ Goto(t, "free")
    /\ due' = [due EXCEPT ![t] = NoMessage]
    /\ UNCHANGED <<queue, timed, mq, slotVars, held, msg, msgs, met>>

\* The slot goes back to the free list, and another receiver is resumed.
Release(t) ==
    /\ At(t, "free")
    /\ next' = [next EXCEPT ![held[t]] = mq.free]
    /\ mq' = [mq EXCEPT !.free = held[t]]
    /\ Hold(t, NoSlot)
    /\ Goto(t, "run")
    /\ WakeReceiver
    /\ UNCHANGED <<data, msg, msgs, due, met>>

-----------------------------------------------------------------------------

Call(t) ==
    \/ \E v \in Message : SendTakes(t, v)
    \/ RecvUnlinks(t)
    \/ RecvFaults(t)
    \/ \E time \in Timeouts :
          \/ SendRefused(t, time) \/ SendFaults(t, time)
          \/ RecvRefused(t, time) \/ RecvBlocks(t, time)

Proceed(t) ==
    Fill(t) \/ Link(t) \/ FinishWait(t) \/ Copy(t) \/ Release(t)

Timeout(t) ==
    /\ Expire(t)
    /\ UNCHANGED <<pc, mqVars>>

Next == ~mq.fault /\ ~met /\ \E t \in Thread : Call(t) \/ Proceed(t) \/ Timeout(t)

Spec == Init /\ [][Next]_vars

-----------------------------------------------------------------------------
(* Properties *)

\* The first n slots of the list that starts at p.
Chain(p, n) ==
    LET at[i \in 1 .. n] ==
          IF i = 1 THEN p ELSE IF at[i - 1] = NoSlot THEN NoSlot ELSE next[at[i - 1]]
    IN  at

FreeSlots == Range(Chain(mq.free, max_msgs)) \ {NoSlot}
Queued == Range(Chain(mq.head, mq.entry))
Held == Range(held) \ {NoSlot}

Quiet == \A t \in Thread : ~InWindow(t, Window)

\* Until two calls meet, and whatever is being filled, copied or freed: outside
\* the window of a receive every slot is in exactly one place: the free list,
\* the queue, or the hands of one thread; the queue ends at msg_queue_tail; and
\* the NULL slot is used by nobody but a send to a full queue.
SlotsConserved ==
    ~met /\ Quiet =>
       /\ FreeSlots \cup Queued \cup Held = Slot
       /\ FreeSlots \cap (Queued \cup Held) = {} /\ Queued \cap Held = {}
       /\ IsInjective(Chain(mq.head, mq.entry))
       /\ \A t, u \in Thread : held[t] = held[u] => t = u \/ held[t] = NoSlot
       /\ mq.fault => mq.free = NoSlot
       /\ mq.tail = IF mq.entry = 0 THEN NoSlot ELSE Chain(mq.head, mq.entry)[mq.entry]

\* Until two calls meet: messages are received in the order in which they were
\* linked, and a slot that is being copied with interrupts enabled still has its
\* message.
MessagesInOrder ==
    ~met =>
       /\ Quiet => msgs = [i \in 1 .. mq.entry |-> data[Chain(mq.head, mq.entry)[i]]]
       /\ \A t \in Thread : At(t, "copy") => data[held[t]] = due[t]

\* No wake-up is lost: while receivers wait, there are no more messages than
\* receivers already resumed to fetch them.
NoIdleMessage ==
    queue[Receivers] # <<>> =>
       mq.entry <= Cardinality({t \in Thread : InWindow(t, Window \cup {"empty"})})

=============================================================================
