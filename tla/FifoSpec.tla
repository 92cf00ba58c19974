------------------------------- MODULE FifoSpec -------------------------------
(* What the ring buffer promises its callers: a bounded first-in first-out   *)
(* queue.                                                                    *)
EXTENDS Integers, Sequences

CONSTANTS
    Item,
    Capacity

VARIABLES
    queue,    \* what has been put and not yet got
    answer    \* what the last call returned: a count, and the items got

fifoVars == <<queue, answer>>

Room == Capacity - Len(queue)

\* The lengths a caller may ask for.
Lengths == 0 .. Capacity + 1

Lesser(a, b) == IF a < b THEN a ELSE b

Init ==
    /\ queue = <<>>
    /\ answer = [count |-> 0, items |-> <<>>]

\* As many of the items as there is room for.
Put(s) ==
    LET n == Lesser(Room, Len(s))
    IN  /\ queue' = queue \o SubSeq(s, 1, n)
        /\ answer' = [count |-> n, items |-> <<>>]

\* As many of the oldest items as there are, up to n.
Get(n) ==
    LET k == Lesser(Len(queue), n)
    IN  /\ queue' = SubSeq(queue, k + 1, Len(queue))
        /\ answer' = [count |-> k, items |-> SubSeq(queue, 1, k)]

\* The item, at the price of the oldest when there is no room.
Force(x) ==
    /\ queue' = Append(IF Room = 0 THEN Tail(queue) ELSE queue, x)
    /\ answer' = [count |-> 1, items |-> <<>>]

Next ==
    \/ \E n \in Lengths : Get(n) \/ \E s \in [1 .. n -> Item] : Put(s)
    \/ \E x \in Item : Force(x)

Spec == Init /\ [][Next]_fifoVars

=============================================================================
