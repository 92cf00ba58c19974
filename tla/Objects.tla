------------------------------- MODULE Objects -------------------------------
(***************************************************************************)
(* The three IPC objects that carry data, in one system: an event, a       *)
(* mailbox and a message queue are set up, and the threads of the          *)
(* application use one of them.                                            *)
(***************************************************************************)
EXTENDS Wait

CONSTANTS
    Value,               \* flags, mails and messages
    NoValue,             \* stands for one nobody reads
    Ev, MbRecv, MbSend, MqRecv,      \* the suspend lists
    FLAG, size, max_msgs             \* see Mailbox and MsgQueue

ASSUME ObjectsAssumption ==
    /\ WaitList = {Ev, MbRecv, MbSend, MqRecv}
    /\ NoValue \notin Value
    /\ size \in Nat \ {0}
    /\ max_msgs \in Nat \ {0}

VARIABLES
    set, event_set, event_info, granted, given,           \* of Event
    mb, mail, mails,                                      \* of Mailbox
    mq, next, data, held, msg, msgs, due,                 \* of MsgQueue
    met,                                                  \* of these two
    used                                                  \* the object in use

E == INSTANCE Event WITH Flags <- Value
B == INSTANCE Mailbox WITH Mail <- Value, NoMail <- NoValue,
                           Receivers <- MbRecv, Senders <- MbSend
Q == INSTANCE MsgQueue WITH Message <- Value, NoMessage <- NoValue, Receivers <- MqRecv

eventVars == <<set, event_set, event_info, granted, given>>
mailboxVars == <<mb, mail, mails>>
msgQueueVars == <<mq, next, data, held, msg, msgs, due>>
vars == <<queue, timed, pc, eventVars, mailboxVars, msgQueueVars, met, used>>

TypeOK ==
    /\ used = "event" => E!TypeOK
    /\ used = "mailbox" => B!TypeOK
    /\ used = "msg_queue" => Q!TypeOK

Init ==
    /\ E!Init /\ B!Init /\ Q!Init
    /\ used \in {"event", "mailbox", "msg_queue"}

UseEvent == used = "event" /\ E!Next /\ UNCHANGED <<mailboxVars, msgQueueVars, met, used>>
UseMailbox == used = "mailbox" /\ B!Next /\ UNCHANGED <<eventVars, msgQueueVars, used>>
UseMsgQueue == used = "msg_queue" /\ Q!Next /\ UNCHANGED <<eventVars, mailboxVars, used>>

Next == UseEvent \/ UseMailbox \/ UseMsgQueue

Spec == Init /\ [][Next]_vars

-----------------------------------------------------------------------------
(* The properties of the three, stated and explained where they are defined *)

\* A wait ended by sk_event_send reports flags that were set then (event.c:104).
ReportsWhatWasSet == used = "event" => E!ReportsWhatWasSet

\* A send resumes the threads suspended on the event whose flags have come
\* (event.c:98, :122): none of them stays suspended.
NobodyOverdue == used = "event" => E!NobodyOverdue

\* A flag leaves event->set only with a receive that asked to clear it and
\* reports it (event.c:182).
FlagsGoToReceivers == E!FlagsGoToReceivers

\* Outside a receive's window, and until two calls meet in one, every slot is
\* free, queued or in the hands of one thread (msg_queue.c:172, :289).
SlotsConserved == used = "msg_queue" => Q!SlotsConserved

\* Until two calls meet in a window: mails are received in the order sent,
\* whichever calls waited (mailbox.c:136, :239); messages in the order linked,
\* and none is changed while it is copied with interrupts enabled
\* (msg_queue.c:350); and everything keeps its type.
ReceivedInOrder ==
    /\ ~met => TypeOK
    /\ used = "mailbox" => B!MailsInOrder
    /\ used = "msg_queue" => Q!MessagesInOrder


=============================================================================
