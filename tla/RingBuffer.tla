------------------------------ MODULE RingBuffer ------------------------------
(***************************************************************************)
(* common/ring_buffer.c, as functions on the ring.  A ring r is a record:  *)
(*   buffer                     the bytes, indexed from 0                  *)
(*   read_index, write_index    the next byte to get and to put            *)
(*   read_mirror, write_mirror  one bit each, flipped when the index wraps *)
(* Equal indices with equal mirrors mean empty, with different mirrors     *)
(* full.                                                                   *)
(***************************************************************************)
EXTENDS Integers, Sequences

CONSTANTS
    buffer_size,
    Byte

ASSUME RingBufferAssumption == buffer_size \in Nat \ {0} /\ buffer_size < 32768

Index == 0 .. buffer_size - 1
Bit == {0, 1}

RingState ==
    [buffer : [Index -> Byte],
     read_index : Index, write_index : Index,
     read_mirror : Bit, write_mirror : Bit]

\* ~ of a field of one bit
Flip(m) == 1 - m

\* An index that has run past the end continues at the start.
Wrapped(i) == IF i < buffer_size THEN i ELSE i - buffer_size

sk_get_ring_buffer_status(r) ==
    IF r.read_index # r.write_index THEN "halffull"
    ELSE IF r.read_mirror = r.write_mirror THEN "empty" ELSE "full"

sk_ring_buffer_data_len(r) ==
    CASE sk_get_ring_buffer_status(r) = "empty" -> 0
      [] sk_get_ring_buffer_status(r) = "full" -> buffer_size
      [] OTHER -> IF r.write_index > r.read_index
                  THEN r.write_index - r.read_index
                  ELSE buffer_size - (r.read_index - r.write_index)

sk_ring_buffer_space_len(r) == buffer_size - sk_ring_buffer_data_len(r)

\* The n bytes from the read index on.
Stored(r, n) == [i \in 1 .. n |-> r.buffer[Wrapped(r.read_index + i - 1)]]

\* The two memcpy calls that put the first n bytes of s at the write index.
Filled(r, s, n) ==
    [i \in Index |->
       LET at == Wrapped(i + buffer_size - r.write_index)
       IN  IF at < n THEN s[at + 1] ELSE r.buffer[i]]

sk_ring_buffer_init(buf) ==
    [buffer |-> buf, read_index |-> 0, write_index |-> 0,
     read_mirror |-> 0, write_mirror |-> 0]

AdvanceWrite(r, n) ==
    LET side_len == buffer_size - r.write_index
    IN  IF side_len > n
        THEN [r EXCEPT !.write_index = @ + n]
        ELSE [r EXCEPT !.write_index = n - side_len, !.write_mirror = Flip(@)]

AdvanceRead(r, n) ==
    LET side_len == buffer_size - r.read_index
    IN  IF side_len > n
        THEN [r EXCEPT !.read_index = @ + n]
        ELSE [r EXCEPT !.read_index = n - side_len, !.read_mirror = Flip(@)]

\* How many of len bytes are put and got.
PutLen(r, len) ==
    IF sk_ring_buffer_space_len(r) < len THEN sk_ring_buffer_space_len(r) ELSE len

GetLen(r, len) ==
    IF sk_ring_buffer_data_len(r) < len THEN sk_ring_buffer_data_len(r) ELSE len

sk_ring_buffer_put(r, s) ==
    LET n == PutLen(r, Len(s))
    IN  IF sk_ring_buffer_space_len(r) = 0 THEN r
        ELSE [AdvanceWrite(r, n) EXCEPT !.buffer = Filled(r, s, n)]

sk_ring_buffer_get(r, len) ==
    IF sk_ring_buffer_data_len(r) = 0 THEN r
    ELSE AdvanceRead(r, GetLen(r, len))

\* Mutant: the write index wraps and the mirror stays.
putchar_keeps_mirror(r, data) ==
    IF sk_ring_buffer_space_len(r) = 0 THEN r
    ELSE [r EXCEPT !.buffer[r.write_index] = data,
                   !.write_index = IF @ + 1 = buffer_size THEN 0 ELSE @ + 1]

sk_ring_buffer_putchar(r, data) ==
    LET wraps == r.write_index + 1 = buffer_size
    IN  IF sk_ring_buffer_space_len(r) = 0 THEN r
        ELSE [r EXCEPT !.buffer[r.write_index] = data,
                       !.write_index = IF wraps THEN 0 ELSE @ + 1,
                       !.write_mirror = IF wraps THEN Flip(@) ELSE @]

sk_ring_buffer_getchar(r) ==
    LET wraps == r.read_index + 1 = buffer_size
    IN  IF sk_ring_buffer_data_len(r) = 0 THEN r
        ELSE [r EXCEPT !.read_index = IF wraps THEN 0 ELSE @ + 1,
                       !.read_mirror = IF wraps THEN Flip(@) ELSE @]

\* A full ring loses its oldest byte.  When the write index wraps then, the
\* write mirror is flipped twice instead of both mirrors once.
sk_ring_buffer_putchar_force(r, data) ==
    LET full == sk_get_ring_buffer_status(r) = "full"
        wraps == r.write_index + 1 = buffer_size
        next == IF wraps THEN 0 ELSE r.write_index + 1
    IN  [r EXCEPT !.buffer[r.write_index] = data,
                  !.write_index = next,
                  !.write_mirror = IF wraps /\ ~full THEN Flip(@) ELSE @,
                  !.read_index = IF full THEN next ELSE @]

=============================================================================
