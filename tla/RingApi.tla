------------------------------- MODULE RingApi -------------------------------
(***************************************************************************)
(* One ring buffer used through the calls of ring_buffer.h, one call at a  *)
(* time.                                                                   *)
(***************************************************************************)
EXTENDS RingBuffer

VARIABLES
    ring,
    answer    \* the return value of the last call and the bytes it copied out

vars == <<ring, answer>>

Init ==
    /\ \E buf \in [Index -> Byte] : ring = sk_ring_buffer_init(buf)
    /\ answer = [count |-> 0, items |-> <<>>]

\* Blocks of up to one byte more than the ring holds.
Lengths == 0 .. buffer_size + 1

Returned(n, s) == answer' = [count |-> n, items |-> s]

Put ==
    \E len \in Lengths : \E s \in [1 .. len -> Byte] :
       /\ ring' = sk_ring_buffer_put(ring, s)
       /\ Returned(PutLen(ring, Len(s)), <<>>)

Get ==
    \E len \in Lengths :
       /\ ring' = sk_ring_buffer_get(ring, len)
       /\ Returned(GetLen(ring, len), Stored(ring, GetLen(ring, len)))

Putchar ==
    \E data \in Byte :
       /\ ring' = sk_ring_buffer_putchar(ring, data)
       /\ Returned(PutLen(ring, 1), <<>>)

Getchar ==
    /\ ring' = sk_ring_buffer_getchar(ring)
    /\ Returned(GetLen(ring, 1), Stored(ring, GetLen(ring, 1)))

PutcharForce ==
    \E data \in Byte :
       /\ ring' = sk_ring_buffer_putchar_force(ring, data)
       /\ Returned(1, <<>>)

Next == Put \/ Get \/ Putchar \/ Getchar \/ PutcharForce

Spec == Init /\ [][Next]_vars

-----------------------------------------------------------------------------

Fifo == INSTANCE FifoSpec WITH
    Item <- Byte, Capacity <- buffer_size,
    queue <- Stored(ring, sk_ring_buffer_data_len(ring))

\* Through any sequence of calls, across every wrap of the two indices and at
\* full and empty, the ring is a bounded queue: the counts returned and the
\* bytes copied out are those of the queue.
IsFifo == Fifo!Spec

=============================================================================
