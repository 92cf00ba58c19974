----------------------------- MODULE RingProofs -----------------------------
(***************************************************************************)
(* The ring buffer implements the bounded queue, for every size of the     *)
(* buffer and every set of bytes.                                          *)
(***************************************************************************)
EXTENDS RingApi, SequenceTheorems, TLAPS

\* Ring r holds d bytes: the write index is d bytes, at most one round, ahead
\* of the read index, and the mirrors tell whether the end lies in between.
Holds(r, d) ==
    /\ r \in RingState
    /\ d \in 0 .. buffer_size
    /\ r.write_index = Wrapped(r.read_index + d)
    /\ r.read_mirror = r.write_mirror <=> r.read_index + d < buffer_size

\* What the callers of the ring see of its state between two calls.
RingInv == \E d \in 0 .. buffer_size : Holds(ring, d)

LEMMA Size == buffer_size \in Nat /\ buffer_size > 0
BY RingBufferAssumption

\* The fields of a ring.
LEMMA Fields ==
    ASSUME NEW r \in RingState
    PROVE  /\ r.buffer \in [Index -> Byte]
           /\ r.read_index \in 0 .. buffer_size - 1 /\ r.write_index \in 0 .. buffer_size - 1
           /\ r.read_mirror \in {0, 1} /\ r.write_mirror \in {0, 1}
BY DEF RingState, Index, Bit

\* The length that the indices and the mirrors stand for.
LEMMA Lens ==
    ASSUME NEW r, NEW d, Holds(r, d)
    PROVE  /\ sk_ring_buffer_data_len(r) = d
           /\ sk_ring_buffer_space_len(r) = buffer_size - d
           /\ sk_get_ring_buffer_status(r) = "full" <=> d = buffer_size
<1>. DEFINE st == sk_get_ring_buffer_status(r)
<1>1. /\ r.read_index \in 0 .. buffer_size - 1 /\ r.write_index \in 0 .. buffer_size - 1
      /\ d \in 0 .. buffer_size
      /\ r.write_index = IF r.read_index + d < buffer_size THEN r.read_index + d
                         ELSE (r.read_index + d) - buffer_size
      /\ r.read_mirror = r.write_mirror <=> r.read_index + d < buffer_size
    BY Zenon, Fields DEF Holds, Wrapped
<1>2. CASE d = 0
    <2>1. st = "empty"
        BY <1>1, <1>2, Size DEF sk_get_ring_buffer_status
    <2>2. sk_ring_buffer_data_len(r) = 0
        BY Zenon, <2>1 DEF sk_ring_buffer_data_len
    <2>. QED BY <1>2, <2>1, <2>2, Size DEF sk_ring_buffer_space_len
<1>3. CASE d = buffer_size
    <2>1. st = "full"
        BY <1>1, <1>3, Size DEF sk_get_ring_buffer_status
    <2>2. sk_ring_buffer_data_len(r) = buffer_size
        BY Zenon, <2>1 DEF sk_ring_buffer_data_len
    <2>. QED BY <1>3, <2>1, <2>2, Size DEF sk_ring_buffer_space_len
<1>4. CASE d \in 1 .. buffer_size - 1
    <2>1. st = "halffull"
        BY <1>1, <1>4, Size DEF sk_get_ring_buffer_status
    <2>2. sk_ring_buffer_data_len(r) = IF r.write_index > r.read_index
                                       THEN r.write_index - r.read_index
                                       ELSE buffer_size - (r.read_index - r.write_index)
        BY Zenon, <2>1 DEF sk_ring_buffer_data_len
    <2>3. sk_ring_buffer_data_len(r) = d
        BY <1>1, <1>4, <2>2, Size
    <2>. QED BY <1>4, <2>1, <2>3, Size DEF sk_ring_buffer_space_len
<1>. QED BY <1>1, <1>2, <1>3, <1>4, Size

LEMMA WrappedIndex ==
    ASSUME NEW i \in 0 .. 2 * buffer_size - 1
    PROVE  Wrapped(i) \in Index
BY Size DEF Wrapped, Index

\* Stored is a sequence of bytes.
LEMMA StoredSeq ==
    ASSUME NEW r \in RingState, NEW n \in 0 .. buffer_size
    PROVE  /\ Stored(r, n) \in Seq(Byte)
           /\ Len(Stored(r, n)) = n
           /\ \A i \in 1 .. n : Stored(r, n)[i] = r.buffer[Wrapped(r.read_index + i - 1)]
<1>1. ASSUME NEW i \in 1 .. n PROVE r.buffer[Wrapped(r.read_index + i - 1)] \in Byte
    <2>1. r.read_index + i - 1 \in 0 .. 2 * buffer_size - 1
        BY Fields, Size
    <2>. QED BY <2>1, WrappedIndex, Fields
<1>2. Stored(r, n) \in [1 .. n -> Byte]
    BY <1>1 DEF Stored
<1>3. Stored(r, n) \in Seq(Byte) /\ Len(Stored(r, n)) = n
    BY <1>2
<1>. QED BY <1>3 DEF Stored

-----------------------------------------------------------------------------
(* Arithmetic on the indices *)

\* Where the write index goes when n of the d + n bytes are new.
LEMMA AdvanceArith ==
    ASSUME NEW ri \in 0 .. buffer_size - 1, NEW d \in 0 .. buffer_size,
           NEW n \in 0 .. buffer_size - d, NEW wi, wi = Wrapped(ri + d)
    PROVE  /\ wi \in 0 .. buffer_size - 1
           /\ buffer_size - wi > n =>
                 /\ wi + n \in 0 .. buffer_size - 1
                 /\ wi + n = Wrapped(ri + (d + n))
                 /\ ri + (d + n) < buffer_size <=> ri + d < buffer_size
           /\ ~(buffer_size - wi > n) =>
                 /\ n - (buffer_size - wi) \in 0 .. buffer_size - 1
                 /\ n - (buffer_size - wi) = Wrapped(ri + (d + n))
                 /\ ri + (d + n) < buffer_size <=> ~(ri + d < buffer_size)
<1>1. CASE ri + d < buffer_size
    <2>1. wi = ri + d
        BY <1>1 DEF Wrapped
    <2>. QED BY <1>1, <2>1, Size DEF Wrapped
<1>2. CASE ~(ri + d < buffer_size)
    <2>1. wi = (ri + d) - buffer_size
        BY <1>2 DEF Wrapped
    <2>. QED BY <1>2, <2>1, Size DEF Wrapped
<1>. QED BY <1>1, <1>2

\* The bytes that are in the ring lie outside the n that are written,
LEMMA KeptArith ==
    ASSUME NEW ri \in 0 .. buffer_size - 1, NEW d \in 0 .. buffer_size,
           NEW n \in 0 .. buffer_size - d, NEW wi, wi = Wrapped(ri + d),
           NEW i \in 1 .. d, NEW j, j = Wrapped(ri + i - 1)
    PROVE  j \in 0 .. buffer_size - 1 /\ ~(Wrapped(j + buffer_size - wi) < n)
<1>1. CASE ri + d < buffer_size
    <2>1. wi = ri + d /\ j = ri + i - 1
        BY <1>1, Size DEF Wrapped
    <2>. QED BY <1>1, <2>1, Size DEF Wrapped
<1>2. CASE ~(ri + d < buffer_size)
    <2>1. wi = (ri + d) - buffer_size
        BY <1>2 DEF Wrapped
    <2>2. CASE ri + i - 1 < buffer_size
        <3>1. j = ri + i - 1
            BY <2>2 DEF Wrapped
        <3>. QED BY <1>2, <2>1, <2>2, <3>1, Size DEF Wrapped
    <2>3. CASE ~(ri + i - 1 < buffer_size)
        <3>1. j = (ri + i - 1) - buffer_size
            BY <2>3 DEF Wrapped
        <3>. QED BY <1>2, <2>1, <2>3, <3>1, Size DEF Wrapped
    <2>. QED BY <2>2, <2>3
<1>. QED BY <1>1, <1>2

\* and those n follow them in order.
LEMMA NewArith ==
    ASSUME NEW ri \in 0 .. buffer_size - 1, NEW d \in 0 .. buffer_size,
           NEW n \in 0 .. buffer_size - d, NEW i \in 1 .. n
    PROVE  \A wi, j : wi = Wrapped(ri + d) /\ j = Wrapped(ri + (d + i) - 1) =>
              j \in 0 .. buffer_size - 1 /\ Wrapped(j + buffer_size - wi) = i - 1
<1>. SUFFICES ASSUME NEW wi, NEW j, wi = Wrapped(ri + d), j = Wrapped(ri + (d + i) - 1)
              PROVE  j \in 0 .. buffer_size - 1 /\ Wrapped(j + buffer_size - wi) = i - 1
    BY Zenon
<1>1. CASE ri + d < buffer_size
    <2>1. wi = ri + d
        BY <1>1 DEF Wrapped
    <2>2. CASE ri + (d + i) - 1 < buffer_size
        <3>1. j = ri + (d + i) - 1
            BY <2>2 DEF Wrapped
        <3>. QED BY <1>1, <2>1, <2>2, <3>1, Size DEF Wrapped
    <2>3. CASE ~(ri + (d + i) - 1 < buffer_size)
        <3>1. j = (ri + (d + i) - 1) - buffer_size
            BY <2>3 DEF Wrapped
        <3>. QED BY <1>1, <2>1, <2>3, <3>1, Size DEF Wrapped
    <2>. QED BY <2>2, <2>3
<1>2. CASE ~(ri + d < buffer_size)
    <2>1. wi = (ri + d) - buffer_size
        BY <1>2 DEF Wrapped
    <2>2. j = (ri + (d + i) - 1) - buffer_size
        BY <1>2, Size DEF Wrapped
    <2>. QED BY <1>2, <2>1, <2>2, Size DEF Wrapped
<1>. QED BY <1>1, <1>2

\* Where the read index goes when k of the d bytes leave, and who comes first.
LEMMA LeaveArith ==
    ASSUME NEW ri \in 0 .. buffer_size - 1, NEW d \in 0 .. buffer_size, NEW k \in 0 .. d
    PROVE  /\ buffer_size - ri > k =>
                 /\ ri + k \in 0 .. buffer_size - 1
                 /\ ri + k < buffer_size
                 /\ \A i \in 0 .. d - k : Wrapped((ri + k) + i) = Wrapped(ri + (k + i))
                 /\ (ri + k) + (d - k) < buffer_size <=> ri + d < buffer_size
           /\ ~(buffer_size - ri > k) =>
                 /\ k - (buffer_size - ri) \in 0 .. buffer_size - 1
                 /\ \A i \in 0 .. d - k :
                       Wrapped((k - (buffer_size - ri)) + i) = Wrapped(ri + (k + i))
                 /\ (k - (buffer_size - ri)) + (d - k) < buffer_size
                 /\ ~(ri + d < buffer_size)
<1>1. CASE buffer_size - ri > k
    BY <1>1, Size DEF Wrapped
<1>2. CASE ~(buffer_size - ri > k)
    BY <1>2, Size DEF Wrapped
<1>. QED BY <1>1, <1>2

-----------------------------------------------------------------------------
(* The operations *)

\* The write index moves on by n.
Advanced(r, d, n) ==
    \A f \in [Index -> Byte] : \A a, q :
       a = AdvanceWrite(r, n) /\ q = [a EXCEPT !.buffer = f] =>
          Holds(q, d + n) /\ q.buffer = f /\ q.read_index = r.read_index

LEMMA AdvanceFacts ==
    ASSUME NEW r, NEW d, Holds(r, d), NEW n \in 0 .. buffer_size - d
    PROVE  Advanced(r, d, n)
<1>. SUFFICES ASSUME NEW f \in [Index -> Byte], NEW a, NEW q, a = AdvanceWrite(r, n),
                     q = [a EXCEPT !.buffer = f]
              PROVE  Holds(q, d + n) /\ q.buffer = f /\ q.read_index = r.read_index
    BY ZenonT(60) DEF Advanced
<1>. DEFINE ri == r.read_index
            wi == r.write_index
            rm == r.read_mirror
            wm == r.write_mirror
<1>1. /\ r \in RingState /\ d \in 0 .. buffer_size /\ ri \in 0 .. buffer_size - 1
      /\ wi = Wrapped(ri + d) /\ (rm = wm <=> ri + d < buffer_size)
      /\ rm \in {0, 1} /\ wm \in {0, 1}
    BY Zenon, Fields DEF Holds
<1>2. d + n \in 0 .. buffer_size
    BY <1>1, Size
<1>3. CASE buffer_size - wi > n
    <2>1. a = [r EXCEPT !.write_index = wi + n]
        BY Zenon, <1>3 DEF AdvanceWrite
    <2>2. /\ wi + n \in 0 .. buffer_size - 1 /\ wi + n = Wrapped(ri + (d + n))
          /\ ri + (d + n) < buffer_size <=> ri + d < buffer_size
        BY Zenon, <1>1, <1>3, AdvanceArith
    <2>3. /\ q \in RingState /\ q.buffer = f /\ q.read_index = ri /\ q.read_mirror = rm
          /\ q.write_index = wi + n /\ q.write_mirror = wm
        BY Zenon, <1>1, <2>1, <2>2 DEF RingState, Index
    <2>. QED BY Zenon, <1>1, <1>2, <2>2, <2>3 DEF Holds
<1>4. CASE ~(buffer_size - wi > n)
    <2>1. a = [r EXCEPT !.write_index = n - (buffer_size - wi), !.write_mirror = 1 - wm]
        BY Zenon, <1>4 DEF AdvanceWrite, Flip
    <2>2. /\ n - (buffer_size - wi) \in 0 .. buffer_size - 1
          /\ n - (buffer_size - wi) = Wrapped(ri + (d + n))
          /\ ri + (d + n) < buffer_size <=> ~(ri + d < buffer_size)
        BY Zenon, <1>1, <1>4, AdvanceArith
    <2>3. 1 - wm \in {0, 1} /\ (rm = 1 - wm <=> rm # wm)
        BY <1>1
    <2>4. /\ q \in RingState /\ q.buffer = f /\ q.read_index = ri /\ q.read_mirror = rm
          /\ q.write_index = n - (buffer_size - wi) /\ q.write_mirror = 1 - wm
        BY Zenon, <1>1, <2>1, <2>2, <2>3 DEF RingState, Index, Bit
    <2>. QED BY Zenon, <1>1, <1>2, <2>2, <2>3, <2>4 DEF Holds
<1>. QED BY Zenon, <1>3, <1>4

\* What the two memcpy calls write.
LEMMA FilledFacts ==
    ASSUME NEW r \in RingState, NEW s \in Seq(Byte), NEW n \in 0 .. Len(s)
    PROVE  /\ Filled(r, s, n) \in [Index -> Byte]
           /\ \A j \in Index :
                 LET at == Wrapped(j + buffer_size - r.write_index)
                 IN  Filled(r, s, n)[j] = IF at < n THEN s[at + 1] ELSE r.buffer[j]
<1>. DEFINE at(j) == Wrapped(j + buffer_size - r.write_index)
<1>1. Filled(r, s, n) = [j \in Index |-> IF at(j) < n THEN s[at(j) + 1] ELSE r.buffer[j]]
    BY DEF Filled
<1>2. ASSUME NEW j \in Index PROVE at(j) \in Nat
    <2>1. /\ j \in 0 .. buffer_size - 1 /\ r.write_index \in 0 .. buffer_size - 1
        BY Fields DEF Index
    <2>. QED BY <2>1, Size DEF Wrapped
<1>. HIDE DEF at
<1>3. ASSUME NEW j \in Index
      PROVE  (IF at(j) < n THEN s[at(j) + 1] ELSE r.buffer[j]) \in Byte
    <2>1. r.buffer[j] \in Byte
        BY Fields
    <2>2. CASE at(j) < n
        <3>1. at(j) + 1 \in 1 .. Len(s)
            BY <1>2, <2>2
        <3>2. s[at(j) + 1] \in Byte
            BY <3>1, ElementOfSeq
        <3>. QED BY Zenon, <2>2, <3>2
    <2>. QED BY Zenon, <2>1, <2>2
<1>. QED BY Zenon, <1>1, <1>3 DEF at

LEMMA IsSubSeq ==
    ASSUME NEW S, NEW x \in Seq(S), NEW n \in Nat, n <= Len(x), NEW m \in 0 .. n,
           NEW z \in Seq(S), Len(z) = n - m, \A i \in 1 .. n - m : z[i] = x[m + i]
    PROVE  z = SubSeq(x, m + 1, n)
<1>. DEFINE y == SubSeq(x, m + 1, n)
<1>1. \A i \in m + 1 .. n : x[i] \in S
    BY ElementOfSeq
<1>2. /\ y \in Seq(S) /\ Len(y) = (IF m + 1 <= n THEN n - (m + 1) + 1 ELSE 0)
      /\ \A i \in 1 .. n - (m + 1) + 1 : y[i] = x[(m + 1) + i - 1]
    BY <1>1, SubSeqProperties
<1>. HIDE DEF y
<1>3. Len(y) = n - m /\ \A i \in 1 .. n - m : y[i] = x[m + i]
    BY <1>2
<1>. QED BY Zenon, <1>2, <1>3, SeqEqual DEF y

\* The n bytes written follow those that were in the ring.
Follow(r, d, s, n) ==
    \A f, q : /\ f = Filled(r, s, n)
              /\ Holds(q, d + n) /\ q.buffer = f /\ q.read_index = r.read_index
              => Stored(q, d + n) = Stored(r, d) \o SubSeq(s, 1, n)

LEMMA PutFits ==
    ASSUME NEW r, NEW d, Holds(r, d), NEW s \in Seq(Byte), NEW n \in 0 .. buffer_size - d,
           n <= Len(s)
    PROVE  Follow(r, d, s, n)
<1>. SUFFICES ASSUME NEW f, f = Filled(r, s, n),
                     NEW q, Holds(q, d + n), q.buffer = f, q.read_index = r.read_index
              PROVE  Stored(q, d + n) = Stored(r, d) \o SubSeq(s, 1, n)
    BY Zenon DEF Follow
<1>. DEFINE ri == r.read_index
            wi == r.write_index
            at(j) == Wrapped(j + buffer_size - wi)
            x == Stored(r, d)
            y == SubSeq(s, 1, n)
            z == Stored(q, d + n)
<1>0. wi = Wrapped(ri + d)
    BY Zenon DEF Holds
<1>1. r \in RingState /\ d \in 0 .. buffer_size /\ ri \in 0 .. buffer_size - 1
    BY Zenon, Fields DEF Holds
<1>2. n \in 0 .. Len(s) /\ d + n \in 0 .. buffer_size /\ d \in Nat
    BY <1>1, Size
<1>3. /\ f \in [Index -> Byte]
      /\ \A j \in Index : f[j] = IF at(j) < n THEN s[at(j) + 1] ELSE r.buffer[j]
    BY ZenonT(60), <1>1, <1>2, FilledFacts
<1>4. q \in RingState
    BY Zenon DEF Holds
<1>5. /\ x \in Seq(Byte) /\ Len(x) = d /\ z \in Seq(Byte) /\ Len(z) = d + n
      /\ \A i \in 1 .. d : x[i] = r.buffer[Wrapped(ri + i - 1)]
      /\ \A i \in 1 .. d + n : z[i] = f[Wrapped(ri + i - 1)]
    <2>1. /\ x \in Seq(Byte) /\ Len(x) = d
          /\ \A i \in 1 .. d : x[i] = r.buffer[Wrapped(ri + i - 1)]
        BY Zenon, <1>1, StoredSeq
    <2>2. /\ z \in Seq(Byte) /\ Len(z) = d + n
          /\ \A i \in 1 .. d + n : z[i] = q.buffer[Wrapped(q.read_index + i - 1)]
        BY Zenon, <1>2, <1>4, StoredSeq
    <2>. QED BY Zenon, <1>4, <2>1, <2>2
<1>6. /\ y \in Seq(Byte) /\ Len(y) = n /\ \A i \in 1 .. n : y[i] = s[i]
    <2>1. \A i \in 1 .. n : s[i] \in Byte
        BY <1>2
    <2>2. /\ y \in Seq(Byte) /\ Len(y) = (IF 1 <= n THEN n - 1 + 1 ELSE 0)
          /\ \A i \in 1 .. n - 1 + 1 : y[i] = s[1 + i - 1]
        BY <1>2, <2>1, SubSeqProperties
    <2>. HIDE DEF y
    <2>. QED BY <1>2, <2>2
<1>. HIDE DEF x, y, z
<1>7. ASSUME NEW i \in 1 .. d PROVE z[i] = x[i]
    <2>. PICK j : j = Wrapped(ri + i - 1)
        OBVIOUS
    <2>1. j \in Index /\ ~(at(j) < n)
        BY Zenon, <1>0, <1>1, KeptArith DEF Index
    <2>2. i \in 1 .. d + n
        BY <1>2
    <2>. QED BY Zenon, <1>3, <1>5, <2>1, <2>2
<1>8. ASSUME NEW i \in 1 .. n PROVE z[d + i] = s[i]
    <2>. PICK j : j = Wrapped(ri + (d + i) - 1)
        OBVIOUS
    <2>1. j \in 0 .. buffer_size - 1 /\ Wrapped(j + buffer_size - wi) = i - 1
        <3>1. \A v, m : v = Wrapped(ri + d) /\ m = Wrapped(ri + (d + i) - 1) =>
                 m \in 0 .. buffer_size - 1 /\ Wrapped(m + buffer_size - v) = i - 1
            BY Zenon, <1>1, NewArith
        <3>. QED BY Zenon, <1>0, <3>1
    <2>2. d + i \in 1 .. d + n /\ i - 1 < n /\ (i - 1) + 1 = i
        BY <1>2
    <2>. QED BY ZenonT(60), <1>3, <1>5, <2>1, <2>2 DEF Index
<1>9. /\ x \o y \in Seq(Byte) /\ Len(x \o y) = d + n
      /\ \A i \in 1 .. d + n : (x \o y)[i] = IF i <= d THEN x[i] ELSE y[i - d]
    <2>1. /\ x \o y \in Seq(Byte) /\ Len(x \o y) = Len(x) + Len(y)
          /\ \A i \in 1 .. Len(x) + Len(y) :
                (x \o y)[i] = IF i <= Len(x) THEN x[i] ELSE y[i - Len(x)]
        BY ZenonT(60), <1>5, <1>6, ConcatProperties
    <2>. QED BY Zenon, <1>5, <1>6, <2>1
<1>10. ASSUME NEW i \in 1 .. d + n PROVE z[i] = (x \o y)[i]
    <2>1. CASE i <= d
        <3>1. i \in 1 .. d
            BY <1>2, <2>1
        <3>. QED BY Zenon, <1>7, <1>9, <2>1, <3>1
    <2>2. CASE ~(i <= d)
        <3>1. i - d \in 1 .. n /\ d + (i - d) = i
            BY <1>2, <2>2
        <3>2. z[d + (i - d)] = s[i - d]
            BY Zenon, <1>8, <3>1
        <3>. QED BY Zenon, <1>6, <1>9, <2>2, <3>1, <3>2
    <2>. QED BY Zenon, <2>1, <2>2
<1>11. z = x \o y
    BY Zenon, <1>5, <1>9, <1>10, SeqEqual
<1>. QED BY Zenon, <1>11 DEF x, y, z

\* The two calls that read: k of the d bytes leave at the front.
LEMMA Leaves ==
    ASSUME NEW r, NEW d, Holds(r, d), NEW k \in 0 .. d,
           NEW q, q = AdvanceRead(r, k)
    PROVE  /\ Holds(q, d - k)
           /\ Stored(q, d - k) = SubSeq(Stored(r, d), k + 1, d)
           /\ Stored(r, k) = SubSeq(Stored(r, d), 1, k)
<1>. DEFINE ri == r.read_index
            wi == r.write_index
            rm == r.read_mirror
            wm == r.write_mirror
            x == Stored(r, d)
            z == Stored(q, d - k)
<1>1. /\ r \in RingState /\ d \in 0 .. buffer_size /\ ri \in 0 .. buffer_size - 1
      /\ wi = Wrapped(ri + d) /\ (rm = wm <=> ri + d < buffer_size)
      /\ rm \in {0, 1} /\ wm \in {0, 1}
    BY Zenon, Fields DEF Holds
<1>2. /\ d \in Nat /\ k \in 0 .. buffer_size /\ d - k \in 0 .. buffer_size
      /\ d - k \in 0 .. d - k /\ k + (d - k) = d
    BY <1>1, Size
<1>3. /\ Holds(q, d - k) /\ q \in RingState /\ q.buffer = r.buffer
      /\ \A i \in 0 .. d - k : Wrapped(q.read_index + i) = Wrapped(ri + (k + i))
    <2>1. CASE buffer_size - ri > k
        <3>1. q = [r EXCEPT !.read_index = ri + k]
            BY Zenon, <2>1 DEF AdvanceRead
        <3>2. /\ ri + k \in 0 .. buffer_size - 1
              /\ \A i \in 0 .. d - k : Wrapped((ri + k) + i) = Wrapped(ri + (k + i))
              /\ (ri + k) + (d - k) < buffer_size <=> ri + d < buffer_size
            BY Zenon, <1>1, <2>1, LeaveArith
        <3>3. /\ q \in RingState /\ q.buffer = r.buffer /\ q.read_index = ri + k
              /\ q.write_index = wi /\ q.read_mirror = rm /\ q.write_mirror = wm
            BY <1>1, <3>1, <3>2 DEF RingState, Index
        <3>4. Wrapped(q.read_index + (d - k)) = wi
            BY Zenon, <1>1, <1>2, <3>2, <3>3
        <3>. QED BY Zenon, <1>1, <1>2, <3>2, <3>3, <3>4 DEF Holds
    <2>2. CASE ~(buffer_size - ri > k)
        <3>1. q = [r EXCEPT !.read_index = k - (buffer_size - ri), !.read_mirror = 1 - rm]
            BY Zenon, <2>2 DEF AdvanceRead, Flip
        <3>2. /\ k - (buffer_size - ri) \in 0 .. buffer_size - 1
              /\ \A i \in 0 .. d - k :
                    Wrapped((k - (buffer_size - ri)) + i) = Wrapped(ri + (k + i))
              /\ (k - (buffer_size - ri)) + (d - k) < buffer_size
              /\ ~(ri + d < buffer_size)
            BY Zenon, <1>1, <2>2, LeaveArith
        <3>3. 1 - rm \in {0, 1} /\ (1 - rm = wm <=> rm # wm)
            BY <1>1
        <3>4. /\ q \in RingState /\ q.buffer = r.buffer
              /\ q.read_index = k - (buffer_size - ri)
              /\ q.write_index = wi /\ q.read_mirror = 1 - rm /\ q.write_mirror = wm
            BY Zenon, <1>1, <3>1, <3>2, <3>3 DEF RingState, Index, Bit
        <3>5. Wrapped(q.read_index + (d - k)) = wi
            BY Zenon, <1>1, <1>2, <3>2, <3>4
        <3>. QED BY Zenon, <1>1, <1>2, <3>2, <3>3, <3>4, <3>5 DEF Holds
    <2>. QED BY Zenon, <2>1, <2>2
<1>4. /\ x \in Seq(Byte) /\ Len(x) = d /\ z \in Seq(Byte) /\ Len(z) = d - k
      /\ Stored(r, k) \in Seq(Byte) /\ Len(Stored(r, k)) = k
      /\ \A i \in 1 .. d : x[i] = r.buffer[Wrapped(ri + i - 1)]
      /\ \A i \in 1 .. d - k : z[i] = r.buffer[Wrapped(q.read_index + i - 1)]
      /\ \A i \in 1 .. k : Stored(r, k)[i] = r.buffer[Wrapped(ri + i - 1)]
    BY ZenonT(60), <1>1, <1>2, <1>3, StoredSeq
<1>. HIDE DEF x, z
<1>5. z = SubSeq(x, k + 1, d)
    <2>1. ASSUME NEW i \in 1 .. d - k PROVE z[i] = x[k + i]
        <3>1. i - 1 \in 0 .. d - k /\ k + i \in 1 .. d
            BY <1>1, <1>2
        <3>2. Wrapped(q.read_index + (i - 1)) = Wrapped(ri + (k + (i - 1)))
            BY Zenon, <1>3, <3>1
        <3>3. k + (i - 1) = (k + i) - 1
            BY <1>2
        <3>4. x[k + i] = r.buffer[Wrapped(ri + ((k + i) - 1))]
            BY Zenon, <1>4, <3>1
        <3>5. z[i] = r.buffer[Wrapped(q.read_index + (i - 1))]
            BY Zenon, <1>4
        <3>. QED BY Zenon, <3>2, <3>3, <3>4, <3>5
    <2>2. d \in Nat /\ d <= Len(x) /\ k \in 0 .. d
        BY <1>1, <1>2, <1>4, Size
    <2>. QED BY ZenonT(60), <1>4, <2>1, <2>2, IsSubSeq
<1>6. Stored(r, k) = SubSeq(x, 1, k)
    <2>1. ASSUME NEW i \in 1 .. k PROVE Stored(r, k)[i] = x[i]
        <3>1. i \in 1 .. d
            BY <1>2
        <3>. QED BY Zenon, <1>4, <3>1
    <2>. QED BY <1>2, <1>4, <2>1
<1>. QED BY Zenon, <1>3, <1>5, <1>6 DEF x, z

\* sk_ring_buffer_put appends as many bytes as there is room for.
LEMMA PutOp ==
    ASSUME NEW r, NEW d, Holds(r, d), NEW s \in Seq(Byte)
    PROVE  \A n, q : n = PutLen(r, Len(s)) /\ q = sk_ring_buffer_put(r, s) =>
              /\ n = (IF buffer_size - d < Len(s) THEN buffer_size - d ELSE Len(s))
              /\ d + n \in 0 .. buffer_size
              /\ Holds(q, d + n)
              /\ Stored(q, d + n) = Stored(r, d) \o SubSeq(s, 1, n)
<1>1. r \in RingState /\ d \in 0 .. buffer_size
    BY Zenon DEF Holds
<1>2. ASSUME NEW n, n = PutLen(r, Len(s))
      PROVE  n = (IF buffer_size - d < Len(s) THEN buffer_size - d ELSE Len(s))
    <2>1. sk_ring_buffer_space_len(r) = buffer_size - d
        BY Zenon, Lens
    <2>. QED BY <1>2, <2>1 DEF PutLen
<1>3. ASSUME NEW n, n = PutLen(r, Len(s))
      PROVE  n \in 0 .. buffer_size - d /\ n <= Len(s) /\ d + n \in 0 .. buffer_size
    BY <1>1, <1>2, <1>3, Size
<1>4. ASSUME NEW n, NEW q, n = PutLen(r, Len(s)), q = sk_ring_buffer_put(r, s),
             buffer_size - d = 0
      PROVE  Holds(q, d + n) /\ Stored(q, d + n) = Stored(r, d) \o SubSeq(s, 1, n)
    <2>1. q = r
        BY Zenon, <1>4, Lens DEF sk_ring_buffer_put
    <2>2. n = 0 /\ d + n = d
        BY <1>1, <1>3, <1>4, Size
    <2>3. Stored(r, d) \in Seq(Byte)
        BY Zenon, <1>1, StoredSeq
    <2>4. SubSeq(s, 1, 0) = <<>>
        BY SubSeqEmpty
    <2>5. Stored(r, d) \o <<>> = Stored(r, d)
        BY <2>3, ConcatEmptySeq
    <2>. QED BY Zenon, <2>1, <2>2, <2>4, <2>5
<1>5. ASSUME NEW n, NEW q, n = PutLen(r, Len(s)), q = sk_ring_buffer_put(r, s),
             buffer_size - d # 0
      PROVE  Holds(q, d + n) /\ Stored(q, d + n) = Stored(r, d) \o SubSeq(s, 1, n)
    <2>1. n \in 0 .. buffer_size - d /\ n <= Len(s) /\ n \in 0 .. Len(s)
        BY <1>3, <1>5
    <2>2. q = [AdvanceWrite(r, n) EXCEPT !.buffer = Filled(r, s, n)]
        BY Zenon, <1>5, Lens DEF sk_ring_buffer_put
    <2>3. Advanced(r, d, n) /\ Follow(r, d, s, n)
        BY Zenon, <2>1, AdvanceFacts, PutFits
    <2>4. Filled(r, s, n) \in [Index -> Byte]
        BY Zenon, <1>1, <2>1, FilledFacts
    <2>5. Holds(q, d + n) /\ q.buffer = Filled(r, s, n) /\ q.read_index = r.read_index
        BY Zenon, <2>2, <2>3, <2>4 DEF Advanced
    <2>. QED BY Zenon, <2>3, <2>5 DEF Follow
<1>. QED BY Zenon, <1>2, <1>3, <1>4, <1>5

\* What sk_ring_buffer_get does to a ring of d bytes.
Gets(r, d, len) ==
    \A k, q : k = GetLen(r, len) /\ q = sk_ring_buffer_get(r, len) =>
       /\ k = (IF d < len THEN d ELSE len)
       /\ d - k \in 0 .. buffer_size
       /\ Holds(q, d - k)
       /\ Stored(q, d - k) = SubSeq(Stored(r, d), k + 1, d)
       /\ Stored(r, k) = SubSeq(Stored(r, d), 1, k)

\* sk_ring_buffer_get takes as many of the oldest bytes as there are.
LEMMA GetOp ==
    ASSUME NEW r, NEW d, Holds(r, d), NEW len \in Nat
    PROVE  Gets(r, d, len)
<1>. SUFFICES ASSUME NEW k, k = GetLen(r, len), NEW q, q = sk_ring_buffer_get(r, len)
              PROVE  /\ k = (IF d < len THEN d ELSE len)
                     /\ d - k \in 0 .. buffer_size
                     /\ Holds(q, d - k)
                     /\ Stored(q, d - k) = SubSeq(Stored(r, d), k + 1, d)
                     /\ Stored(r, k) = SubSeq(Stored(r, d), 1, k)
    BY Zenon DEF Gets
<1>1. r \in RingState /\ d \in 0 .. buffer_size
    BY Zenon DEF Holds
<1>2. k = (IF d < len THEN d ELSE len)
    <2>1. sk_ring_buffer_data_len(r) = d
        BY Zenon, Lens
    <2>. QED BY <2>1 DEF GetLen
<1>3. k \in 0 .. d /\ d - k \in 0 .. buffer_size
    BY <1>1, <1>2, Size
<1>4. q = AdvanceRead(r, k)
    <2>1. CASE d = 0
        <3>1. q = r /\ k = 0
            BY <1>3, <2>1, Lens DEF sk_ring_buffer_get
        <3>2. r.read_index \in 0 .. buffer_size - 1
            BY Zenon, <1>1, Fields
        <3>3. buffer_size - r.read_index > 0 /\ r.read_index + 0 = r.read_index
            BY <3>2, Size
        <3>4. AdvanceRead(r, 0) = [r EXCEPT !.read_index = r.read_index]
            BY Zenon, <3>3 DEF AdvanceRead
        <3>5. [r EXCEPT !.read_index = r.read_index] = r
            BY <1>1 DEF RingState
        <3>. QED BY Zenon, <3>1, <3>4, <3>5
    <2>2. CASE d # 0
        BY Zenon, <2>2, Lens DEF sk_ring_buffer_get
    <2>. QED BY Zenon, <2>1, <2>2
<1>5. /\ Holds(q, d - k)
      /\ Stored(q, d - k) = SubSeq(Stored(r, d), k + 1, d)
      /\ Stored(r, k) = SubSeq(Stored(r, d), 1, k)
    BY <1>3, <1>4, Leaves
<1>. QED BY Zenon, <1>2, <1>3, <1>5

\* sk_ring_buffer_getchar is a sk_ring_buffer_get of one byte.
LEMMA GetcharIsGet ==
    ASSUME NEW r, NEW d, Holds(r, d)
    PROVE  sk_ring_buffer_getchar(r) = sk_ring_buffer_get(r, 1)
<1>. DEFINE ri == r.read_index
<1>1. r \in RingState /\ d \in 0 .. buffer_size /\ ri \in 0 .. buffer_size - 1
    BY Zenon, Fields DEF Holds
<1>2. CASE d = 0
    BY Zenon, <1>2, Lens DEF sk_ring_buffer_getchar, sk_ring_buffer_get
<1>3. CASE d # 0
    <2>1. GetLen(r, 1) = 1
        <3>1. ~(d < 1)
            BY <1>1, <1>3, Size
        <3>2. sk_ring_buffer_data_len(r) = d
            BY Zenon, Lens
        <3>. QED BY <3>1, <3>2 DEF GetLen
    <2>2. sk_ring_buffer_get(r, 1) = AdvanceRead(r, 1)
        BY Zenon, <1>3, <2>1, Lens DEF sk_ring_buffer_get
    <2>3. CASE ri + 1 = buffer_size
        <3>1. ~(buffer_size - ri > 1) /\ 1 - (buffer_size - ri) = 0
            BY <1>1, <2>3, Size
        <3>2. AdvanceRead(r, 1) = [r EXCEPT !.read_index = 0, !.read_mirror = Flip(@)]
            BY Zenon, <3>1 DEF AdvanceRead
        <3>3. sk_ring_buffer_getchar(r) = [r EXCEPT !.read_index = 0, !.read_mirror = Flip(@)]
            BY Zenon, <1>3, <2>3, Lens DEF sk_ring_buffer_getchar
        <3>. QED BY Zenon, <2>2, <3>2, <3>3
    <2>4. CASE ri + 1 # buffer_size
        <3>1. buffer_size - ri > 1
            BY <1>1, <2>4, Size
        <3>2. AdvanceRead(r, 1) = [r EXCEPT !.read_index = ri + 1]
            BY Zenon, <3>1 DEF AdvanceRead
        <3>3. sk_ring_buffer_getchar(r) = [r EXCEPT !.read_index = ri + 1,
                                                    !.read_mirror = r.read_mirror]
            BY Zenon, <1>3, <2>4, Lens DEF sk_ring_buffer_getchar
        <3>4. [r EXCEPT !.read_index = ri + 1, !.read_mirror = r.read_mirror]
                 = [r EXCEPT !.read_index = ri + 1]
            BY Zenon, <1>1 DEF RingState
        <3>. QED BY Zenon, <2>2, <3>2, <3>3, <3>4
    <2>. QED BY Zenon, <2>3, <2>4
<1>. QED BY Zenon, <1>2, <1>3

\* sk_ring_buffer_putchar is a sk_ring_buffer_put of one byte.
LEMMA PutcharIsPut ==
    ASSUME NEW r, NEW d, Holds(r, d), NEW data \in Byte
    PROVE  sk_ring_buffer_putchar(r, data) = sk_ring_buffer_put(r, <<data>>)
<1>. DEFINE wi == r.write_index
            f == [r.buffer EXCEPT ![wi] = data]
<1>1. r \in RingState /\ d \in 0 .. buffer_size /\ wi \in 0 .. buffer_size - 1
    BY Zenon, Fields DEF Holds
<1>2. CASE d = buffer_size
    <2>1. buffer_size - d = 0
        BY <1>1, <1>2, Size
    <2>. QED BY Zenon, <2>1, Lens DEF sk_ring_buffer_putchar, sk_ring_buffer_put
<1>3. CASE d # buffer_size
    <2>1. sk_ring_buffer_space_len(r) # 0 /\ PutLen(r, Len(<<data>>)) = 1
        <3>1. buffer_size - d # 0 /\ ~(buffer_size - d < 1) /\ Len(<<data>>) = 1
            BY <1>1, <1>3, Size
        <3>2. sk_ring_buffer_space_len(r) = buffer_size - d
            BY Zenon, Lens
        <3>. QED BY <3>1, <3>2 DEF PutLen
    <2>2. Filled(r, <<data>>, 1) = f
        <3>1. ASSUME NEW i \in Index
              PROVE  (IF Wrapped(i + buffer_size - wi) < 1
                      THEN <<data>>[Wrapped(i + buffer_size - wi) + 1] ELSE r.buffer[i]) = f[i]
            <4>1. i \in 0 .. buffer_size - 1
                BY DEF Index
            <4>2. CASE i = wi
                <5>1. Wrapped(i + buffer_size - wi) = 0
                    BY <1>1, <4>2, Size DEF Wrapped
                <5>2. f[i] = data
                    BY <1>1, <4>2, Fields
                <5>. QED BY <5>1, <5>2
            <4>3. CASE i # wi
                <5>1. ~(Wrapped(i + buffer_size - wi) < 1)
                    BY <1>1, <4>1, <4>3, Size DEF Wrapped
                <5>2. f[i] = r.buffer[i]
                    BY <1>1, <4>3, Fields
                <5>. QED BY <5>1, <5>2
            <4>. QED BY <4>2, <4>3
        <3>2. f \in [Index -> Byte]
            BY <1>1, Fields DEF Index
        <3>. HIDE DEF f
        <3>. QED BY <3>1, <3>2 DEF Filled
    <2>3. sk_ring_buffer_put(r, <<data>>) = [AdvanceWrite(r, 1) EXCEPT !.buffer = f]
        BY Zenon, <2>1, <2>2 DEF sk_ring_buffer_put
    <2>. HIDE DEF f
    <2>4. CASE wi + 1 = buffer_size
        <3>1. ~(buffer_size - wi > 1) /\ 1 - (buffer_size - wi) = 0
            BY <1>1, <2>4, Size
        <3>2. AdvanceWrite(r, 1) = [r EXCEPT !.write_index = 0,
                                             !.write_mirror = Flip(r.write_mirror)]
            BY Zenon, <3>1 DEF AdvanceWrite
        <3>3. sk_ring_buffer_putchar(r, data) =
                 [r EXCEPT !.buffer = f, !.write_index = 0,
                           !.write_mirror = Flip(r.write_mirror)]
            BY Zenon, <2>1, <2>4 DEF sk_ring_buffer_putchar, f
        <3>4. [[r EXCEPT !.write_index = 0, !.write_mirror = Flip(r.write_mirror)]
                  EXCEPT !.buffer = f]
              = [r EXCEPT !.buffer = f, !.write_index = 0,
                          !.write_mirror = Flip(r.write_mirror)]
            BY Zenon, <1>1 DEF RingState
        <3>. QED BY Zenon, <2>3, <3>2, <3>3, <3>4
    <2>5. CASE wi + 1 # buffer_size
        <3>1. buffer_size - wi > 1
            BY <1>1, <2>5, Size
        <3>2. AdvanceWrite(r, 1) = [r EXCEPT !.write_index = wi + 1]
            BY Zenon, <3>1 DEF AdvanceWrite
        <3>3. sk_ring_buffer_putchar(r, data) =
                 [r EXCEPT !.buffer = f, !.write_index = wi + 1,
                           !.write_mirror = r.write_mirror]
            BY Zenon, <2>1, <2>5 DEF sk_ring_buffer_putchar, f
        <3>4. [[r EXCEPT !.write_index = wi + 1] EXCEPT !.buffer = f]
              = [r EXCEPT !.buffer = f, !.write_index = wi + 1,
                          !.write_mirror = r.write_mirror]
            BY Zenon, <1>1 DEF RingState
        <3>. QED BY Zenon, <2>3, <3>2, <3>3, <3>4
    <2>. QED BY Zenon, <2>4, <2>5
<1>. QED BY Zenon, <1>2, <1>3

\* sk_ring_buffer_putchar_force is sk_ring_buffer_putchar while there is room.
LEMMA ForceIsPutchar ==
    ASSUME NEW r, NEW d, Holds(r, d), NEW data \in Byte, d # buffer_size
    PROVE  sk_ring_buffer_putchar_force(r, data) = sk_ring_buffer_putchar(r, data)
<1>. DEFINE wi == r.write_index
            f == [r.buffer EXCEPT ![wi] = data]
            w == IF wi + 1 = buffer_size THEN 0 ELSE wi + 1
            m == IF wi + 1 = buffer_size THEN Flip(r.write_mirror) ELSE r.write_mirror
<1>1. r \in RingState /\ d \in 0 .. buffer_size
    BY Zenon DEF Holds
<1>2. sk_ring_buffer_space_len(r) # 0 /\ sk_get_ring_buffer_status(r) # "full"
    <2>1. buffer_size - d # 0
        BY <1>1, Size
    <2>. QED BY Zenon, <2>1, Lens
<1>3. sk_ring_buffer_putchar(r, data) =
         [r EXCEPT !.buffer = f, !.write_index = w, !.write_mirror = m]
    BY Zenon, <1>2 DEF sk_ring_buffer_putchar
<1>4. sk_ring_buffer_putchar_force(r, data) =
         [r EXCEPT !.buffer = f, !.write_index = w, !.write_mirror = m,
                   !.read_index = r.read_index]
    BY <1>2 DEF sk_ring_buffer_putchar_force
<1>. HIDE DEF f, w, m
<1>. QED BY Zenon, <1>1, <1>3, <1>4 DEF RingState

\* When the ring is full, both indices move on, and the mirrors stay different.
LEMMA ForceArith ==
    ASSUME NEW ri \in 0 .. buffer_size - 1
    PROVE  \A nx : nx = (IF ri + 1 = buffer_size THEN 0 ELSE ri + 1) =>
              /\ nx \in 0 .. buffer_size - 1
              /\ Wrapped(ri + buffer_size) = ri
              /\ Wrapped(nx + buffer_size) = nx
              /\ ~(nx + buffer_size < buffer_size)
              /\ Wrapped(nx + buffer_size - 1) = ri
              /\ \A i \in 1 .. buffer_size - 1 :
                    /\ Wrapped(nx + i - 1) = Wrapped(ri + (i + 1) - 1)
                    /\ Wrapped(nx + i - 1) \in 0 .. buffer_size - 1
                    /\ Wrapped(nx + i - 1) # ri
<1>1. CASE ri + 1 = buffer_size
    BY <1>1, Size DEF Wrapped
<1>2. CASE ri + 1 # buffer_size
    BY <1>2, Size DEF Wrapped
<1>. QED BY <1>1, <1>2

\* A full ring gives its oldest byte away for the new one.
LEMMA ForceFull ==
    ASSUME NEW r, NEW d, Holds(r, d), NEW data \in Byte, d = buffer_size
    PROVE  \A q : q = sk_ring_buffer_putchar_force(r, data) =>
              Holds(q, d) /\ Stored(q, d) = Append(Tail(Stored(r, d)), data)
<1>. DEFINE ri == r.read_index
            wi == r.write_index
            f == [r.buffer EXCEPT ![wi] = data]
            nx == IF ri + 1 = buffer_size THEN 0 ELSE ri + 1
            x == Stored(r, d)
<1>1. /\ r \in RingState /\ ri \in 0 .. buffer_size - 1 /\ wi = Wrapped(ri + buffer_size)
      /\ r.buffer \in [Index -> Byte]
      /\ r.read_mirror = r.write_mirror <=> ri + buffer_size < buffer_size
    BY Zenon, Fields DEF Holds
<1>2. /\ nx \in 0 .. buffer_size - 1 /\ wi = ri
      /\ nx = Wrapped(nx + buffer_size)
      /\ ~(nx + buffer_size < buffer_size)
      /\ Wrapped(nx + buffer_size - 1) = ri
      /\ \A i \in 1 .. buffer_size - 1 :
            /\ Wrapped(nx + i - 1) = Wrapped(ri + (i + 1) - 1)
            /\ Wrapped(nx + i - 1) \in 0 .. buffer_size - 1
            /\ Wrapped(nx + i - 1) # ri
    <2>. PICK n : n = nx
        OBVIOUS
    <2>1. /\ n \in 0 .. buffer_size - 1
          /\ Wrapped(ri + buffer_size) = ri
          /\ Wrapped(n + buffer_size) = n
          /\ ~(n + buffer_size < buffer_size)
          /\ Wrapped(n + buffer_size - 1) = ri
          /\ \A i \in 1 .. buffer_size - 1 :
                /\ Wrapped(n + i - 1) = Wrapped(ri + (i + 1) - 1)
                /\ Wrapped(n + i - 1) \in 0 .. buffer_size - 1
                /\ Wrapped(n + i - 1) # ri
        <3>. PICK k \in 0 .. buffer_size - 1 : k = ri
            BY <1>1
        <3>1. n = IF k + 1 = buffer_size THEN 0 ELSE k + 1
            BY Zenon
        <3>. HIDE DEF nx
        <3>. QED BY ZenonT(60), <3>1, ForceArith
    <2>. HIDE DEF nx
    <2>. QED BY Zenon, <1>1, <2>1
<1>3. r.read_mirror # r.write_mirror
    BY <1>1, Size
<1>4. f \in [Index -> Byte] /\ f[ri] = data /\ \A j \in Index : j # ri => f[j] = r.buffer[j]
    BY Zenon, <1>1, <1>2 DEF Index
<1>. HIDE DEF f, nx
<1>5. ASSUME NEW q, q = sk_ring_buffer_putchar_force(r, data)
      PROVE  Holds(q, d) /\ Stored(q, d) = Append(Tail(x), data)
    <2>1. sk_get_ring_buffer_status(r) = "full"
        BY Zenon, Lens
    <2>2. q = [r EXCEPT !.buffer = f, !.write_index = nx, !.write_mirror = r.write_mirror,
                        !.read_index = nx]
        BY <1>2, <1>5, <2>1 DEF sk_ring_buffer_putchar_force, f, nx
    <2>3. /\ q \in RingState /\ q.buffer = f /\ q.read_index = nx /\ q.write_index = nx
          /\ q.read_mirror = r.read_mirror /\ q.write_mirror = r.write_mirror
        BY Zenon, <1>1, <1>2, <1>4, <2>2 DEF RingState, Index
    <2>4. Holds(q, d)
        <3>1. d \in 0 .. buffer_size
            BY Size
        <3>. QED BY Zenon, <1>2, <1>3, <2>3, <3>1 DEF Holds
    <2>. DEFINE z == Stored(q, d)
                y == Append(Tail(x), data)
    <2>5. /\ x \in Seq(Byte) /\ Len(x) = d
          /\ \A i \in 1 .. d : x[i] = r.buffer[Wrapped(ri + i - 1)]
        <3>1. d \in 0 .. buffer_size
            BY Size
        <3>. QED BY Zenon, <1>1, <3>1, StoredSeq
    <2>6. /\ z \in Seq(Byte) /\ Len(z) = d
          /\ \A i \in 1 .. d : z[i] = f[Wrapped(nx + i - 1)]
        <3>1. d \in 0 .. buffer_size
            BY Size
        <3>2. /\ z \in Seq(Byte) /\ Len(z) = d
              /\ \A i \in 1 .. d : z[i] = q.buffer[Wrapped(q.read_index + i - 1)]
            BY Zenon, <2>3, <3>1, StoredSeq
        <3>. QED BY Zenon, <2>3, <3>2
    <2>. HIDE DEF x, z
    <2>7. /\ Tail(x) \in Seq(Byte) /\ Len(Tail(x)) = d - 1
          /\ \A i \in 1 .. d - 1 : Tail(x)[i] = x[i + 1]
        <3>1. x # <<>>
            BY <2>5, Size
        <3>. QED BY <2>5, <3>1, HeadTailProperties
    <2>8. /\ y \in Seq(Byte) /\ Len(y) = d /\ y[d] = data
          /\ \A i \in 1 .. d - 1 : y[i] = x[i + 1]
        <3>. PICK tl : tl = Tail(x)
            BY Zenon
        <3>0. tl \in Seq(Byte) /\ Len(tl) = d - 1 /\ data \in Byte
            BY Zenon, <2>7
        <3>3. /\ Append(tl, data) \in Seq(Byte) /\ Len(Append(tl, data)) = Len(tl) + 1
              /\ \A i \in 1 .. Len(tl) : Append(tl, data)[i] = tl[i]
              /\ Append(tl, data)[Len(tl) + 1] = data
            BY <3>0, AppendProperties
        <3>1. /\ Append(tl, data) \in Seq(Byte) /\ Len(Append(tl, data)) = (d - 1) + 1
              /\ \A i \in 1 .. d - 1 : Append(tl, data)[i] = tl[i]
              /\ Append(tl, data)[(d - 1) + 1] = data
            BY Zenon, <3>0, <3>3
        <3>2. (d - 1) + 1 = d
            BY Size
        <3>. QED BY Zenon, <2>7, <3>1, <3>2
    <2>. HIDE DEF y
    <2>9. ASSUME NEW i \in 1 .. d PROVE z[i] = y[i]
        <3>1. CASE i = d
            BY Zenon, <1>2, <1>4, <2>6, <2>8, <3>1
        <3>2. CASE i # d
            <4>1. i \in 1 .. d - 1 /\ i + 1 \in 1 .. d /\ i \in 1 .. buffer_size - 1
                BY <3>2, Size
            <4>2. f[Wrapped(nx + i - 1)] = r.buffer[Wrapped(nx + i - 1)]
                BY Zenon, <1>2, <1>4, <4>1 DEF Index
            <4>3. x[i + 1] = r.buffer[Wrapped(ri + (i + 1) - 1)]
                BY Zenon, <2>5, <4>1
            <4>4. Wrapped(nx + i - 1) = Wrapped(ri + (i + 1) - 1)
                BY Zenon, <1>2, <4>1
            <4>. QED BY Zenon, <2>6, <2>8, <4>1, <4>2, <4>3, <4>4
        <3>. QED BY Zenon, <3>1, <3>2
    <2>10. z = y
        BY Zenon, <2>6, <2>8, <2>9, SeqEqual
    <2>. QED BY Zenon, <2>4, <2>10 DEF y, z
<1>. QED BY Zenon, <1>5 DEF x

-----------------------------------------------------------------------------

\* The queue that a ring of d bytes stands for.
LEMMA QueueOf ==
    ASSUME NEW r, NEW d, Holds(r, d)
    PROVE  /\ Stored(r, sk_ring_buffer_data_len(r)) = Stored(r, d)
           /\ Stored(r, d) \in Seq(Byte) /\ Len(Stored(r, d)) = d
<1>1. r \in RingState /\ d \in 0 .. buffer_size /\ r.read_index \in 0 .. buffer_size - 1
      /\ r.buffer \in [Index -> Byte]
    BY Zenon, Fields DEF Holds
<1>. QED BY Zenon, <1>1, Lens, StoredSeq

\* sk_ring_buffer_put does what the queue's Put does.
LEMMA PutStep ==
    ASSUME RingInv, NEW s \in Seq(Byte), ring' = sk_ring_buffer_put(ring, s),
           Returned(PutLen(ring, Len(s)), <<>>)
    PROVE  RingInv' /\ Fifo!Put(s)
<1>1. PICK d \in 0 .. buffer_size : Holds(ring, d)
    BY Zenon DEF RingInv
<1>2. PICK n : n = PutLen(ring, Len(s))
    OBVIOUS
<1>3. /\ n = (IF buffer_size - d < Len(s) THEN buffer_size - d ELSE Len(s))
      /\ d + n \in 0 .. buffer_size
      /\ Holds(ring', d + n)
      /\ Stored(ring', d + n) = Stored(ring, d) \o SubSeq(s, 1, n)
    BY Zenon, <1>1, <1>2, PutOp
<1>4. /\ Stored(ring, sk_ring_buffer_data_len(ring)) = Stored(ring, d)
      /\ Len(Stored(ring, d)) = d
      /\ Stored(ring', sk_ring_buffer_data_len(ring')) = Stored(ring', d + n)
    BY Zenon, <1>1, <1>3, QueueOf
<1>5. answer' = [count |-> n, items |-> <<>>]
    BY Zenon, <1>2 DEF Returned
<1>6. RingInv'
    BY Zenon, <1>3 DEF RingInv
<1>. QED BY Zenon, <1>3, <1>4, <1>5, <1>6 DEF Fifo!Put, Fifo!Room, Fifo!Lesser

\* sk_ring_buffer_get does what the queue's Get does.
LEMMA GetStep ==
    ASSUME RingInv, NEW len \in Nat, ring' = sk_ring_buffer_get(ring, len),
           Returned(GetLen(ring, len), Stored(ring, GetLen(ring, len)))
    PROVE  RingInv' /\ Fifo!Get(len)
<1>1. PICK d \in 0 .. buffer_size : Holds(ring, d)
    BY Zenon DEF RingInv
<1>2. PICK k : k = GetLen(ring, len)
    OBVIOUS
<1>3. /\ k = (IF d < len THEN d ELSE len)
      /\ d - k \in 0 .. buffer_size
      /\ Holds(ring', d - k)
      /\ Stored(ring', d - k) = SubSeq(Stored(ring, d), k + 1, d)
      /\ Stored(ring, k) = SubSeq(Stored(ring, d), 1, k)
    <2>1. Gets(ring, d, len)
        BY Zenon, <1>1, GetOp
    <2>. QED BY Zenon, <1>2, <2>1 DEF Gets
<1>4. /\ Stored(ring, sk_ring_buffer_data_len(ring)) = Stored(ring, d)
      /\ Len(Stored(ring, d)) = d
      /\ Stored(ring', sk_ring_buffer_data_len(ring')) = Stored(ring', d - k)
    BY Zenon, <1>1, <1>3, QueueOf
<1>5. answer' = [count |-> k, items |-> Stored(ring, k)]
    BY Zenon, <1>2 DEF Returned
<1>6. RingInv'
    BY Zenon, <1>3 DEF RingInv
<1>. QED BY Zenon, <1>3, <1>4, <1>5, <1>6 DEF Fifo!Get, Fifo!Lesser

\* sk_ring_buffer_putchar_force does what the queue's Force does.
LEMMA ForceStep ==
    ASSUME RingInv, NEW data \in Byte, ring' = sk_ring_buffer_putchar_force(ring, data),
           Returned(1, <<>>)
    PROVE  RingInv' /\ Fifo!Force(data)
<1>1. PICK d \in 0 .. buffer_size : Holds(ring, d)
    BY Zenon DEF RingInv
<1>2. /\ Stored(ring, sk_ring_buffer_data_len(ring)) = Stored(ring, d)
      /\ Stored(ring, d) \in Seq(Byte) /\ Len(Stored(ring, d)) = d
    BY Zenon, <1>1, QueueOf
<1>3. answer' = [count |-> 1, items |-> <<>>]
    BY Zenon DEF Returned
<1>4. CASE d = buffer_size
    <2>1. Holds(ring', d) /\ Stored(ring', d) = Append(Tail(Stored(ring, d)), data)
        BY Zenon, <1>1, <1>4, ForceFull
    <2>2. Stored(ring', sk_ring_buffer_data_len(ring')) = Stored(ring', d)
        BY Zenon, <2>1, QueueOf
    <2>3. buffer_size - d = 0
        BY <1>4, Size
    <2>. QED BY Zenon, <1>1, <1>2, <1>3, <2>1, <2>2, <2>3 DEF RingInv, Fifo!Force, Fifo!Room
<1>5. CASE d # buffer_size
    <2>0. PICK s : s = <<data>>
        BY Zenon
    <2>1. s \in Seq(Byte) /\ Len(s) = 1
        BY <2>0
    <2>2. ring' = sk_ring_buffer_put(ring, s)
        BY Zenon, <1>1, <1>5, <2>0, ForceIsPutchar, PutcharIsPut
    <2>3. PICK n : n = PutLen(ring, Len(s))
        OBVIOUS
    <2>4. /\ n = (IF buffer_size - d < Len(s) THEN buffer_size - d ELSE Len(s))
          /\ d + n \in 0 .. buffer_size
          /\ Holds(ring', d + n)
          /\ Stored(ring', d + n) = Stored(ring, d) \o SubSeq(s, 1, n)
        <3>1. \A j, q : j = PutLen(ring, Len(s)) /\ q = sk_ring_buffer_put(ring, s) =>
                 /\ j = (IF buffer_size - d < Len(s) THEN buffer_size - d ELSE Len(s))
                 /\ d + j \in 0 .. buffer_size
                 /\ Holds(q, d + j)
                 /\ Stored(q, d + j) = Stored(ring, d) \o SubSeq(s, 1, j)
            BY Zenon, <1>1, <2>1, PutOp
        <3>. QED BY Zenon, <2>2, <2>3, <3>1
    <2>5. n = 1 /\ buffer_size - d # 0
        BY <1>1, <1>5, <2>1, <2>4, Size
    <2>6. Stored(ring', sk_ring_buffer_data_len(ring')) = Stored(ring', d + n)
        BY Zenon, <2>4, QueueOf
    <2>7. Stored(ring, d) \o SubSeq(s, 1, 1) = Append(Stored(ring, d), data)
        <3>1. SubSeq(s, 1, 1) = s
            BY <2>1, SubSeqFull
        <3>2. \A x \in Seq(Byte) : x \o <<data>> = Append(x, data)
            BY AppendIsConcat
        <3>. QED BY Zenon, <1>2, <2>0, <3>1, <3>2
    <2>. QED BY Zenon, <1>2, <1>3, <2>4, <2>5, <2>6, <2>7
             DEF RingInv, Fifo!Force, Fifo!Room
<1>. QED BY Zenon, <1>4, <1>5

\* sk_ring_buffer_init leaves a ring that holds nothing.
LEMMA InitStep ==
    ASSUME Init
    PROVE  RingInv /\ Fifo!Init
<1>1. PICK buf \in [Index -> Byte] : ring = sk_ring_buffer_init(buf)
    BY Zenon DEF Init
<1>2. Holds(ring, 0)
    BY <1>1, Size DEF Holds, RingState, Index, Bit, Wrapped, sk_ring_buffer_init
<1>3. 0 \in 0 .. buffer_size
    BY Size
<1>4. Stored(ring, sk_ring_buffer_data_len(ring)) = <<>>
    <2>1. /\ Stored(ring, sk_ring_buffer_data_len(ring)) = Stored(ring, 0)
          /\ Stored(ring, 0) \in Seq(Byte) /\ Len(Stored(ring, 0)) = 0
        BY Zenon, <1>2, QueueOf
    <2>2. \A x \in Seq(Byte) : Len(x) = 0 => x = <<>>
        BY EmptySeq
    <2>. QED BY Zenon, <2>1, <2>2
<1>. QED BY Zenon, <1>2, <1>3, <1>4 DEF Init, RingInv, Fifo!Init

\* Every call is a call of the queue.
LEMMA NextStep ==
    ASSUME RingInv, [Next]_vars
    PROVE  RingInv' /\ [Fifo!Next]_(Fifo!fifoVars)
<1>1. CASE Put
    <2>0. PICK len \in Lengths : \E s \in [1 .. len -> Byte] :
             ring' = sk_ring_buffer_put(ring, s) /\ Returned(PutLen(ring, Len(s)), <<>>)
        BY Zenon, <1>1 DEF Put
    <2>1. PICK s \in [1 .. len -> Byte] :
             ring' = sk_ring_buffer_put(ring, s) /\ Returned(PutLen(ring, Len(s)), <<>>)
        BY Zenon, <2>0
    <2>2. s \in Seq(Byte)
        BY Size DEF Lengths
    <2>3. RingInv' /\ Fifo!Put(s)
        BY Zenon, <2>1, <2>2, PutStep
    <2>. QED BY Zenon, <2>3 DEF Lengths, Fifo!Next, Fifo!Lengths
<1>2. CASE Get
    <2>1. PICK len \in Lengths :
             /\ ring' = sk_ring_buffer_get(ring, len)
             /\ Returned(GetLen(ring, len), Stored(ring, GetLen(ring, len)))
        BY Zenon, <1>2 DEF Get
    <2>2. len \in Nat
        BY Size DEF Lengths
    <2>3. RingInv' /\ Fifo!Get(len)
        BY Zenon, <2>1, <2>2, GetStep
    <2>. QED BY Zenon, <2>3 DEF Lengths, Fifo!Next, Fifo!Lengths
<1>3. CASE Putchar
    <2>1. PICK data \in Byte :
             ring' = sk_ring_buffer_putchar(ring, data) /\ Returned(PutLen(ring, 1), <<>>)
        BY Zenon, <1>3 DEF Putchar
    <2>2. PICK s : s = <<data>>
        BY Zenon
    <2>3. s \in Seq(Byte) /\ Len(s) = 1 /\ s \in [1 .. 1 -> Byte] /\ 1 \in 0 .. buffer_size + 1
        BY <2>2, Size
    <2>4. ring' = sk_ring_buffer_put(ring, s)
        BY Zenon, <2>1, <2>2, PutcharIsPut DEF RingInv
    <2>5. RingInv' /\ Fifo!Put(s)
        BY Zenon, <2>1, <2>3, <2>4, PutStep
    <2>. QED BY Zenon, <2>3, <2>5 DEF Fifo!Next, Fifo!Lengths
<1>4. CASE Getchar
    <2>1. ring' = sk_ring_buffer_get(ring, 1)
        BY Zenon, <1>4, GetcharIsGet DEF RingInv, Getchar
    <2>2. 1 \in Nat /\ 1 \in 0 .. buffer_size + 1
        BY Size
    <2>3. RingInv' /\ Fifo!Get(1)
        BY Zenon, <1>4, <2>1, <2>2, GetStep DEF Getchar
    <2>. QED BY Zenon, <2>2, <2>3 DEF Fifo!Next, Fifo!Lengths
<1>5. CASE PutcharForce
    <2>1. PICK data \in Byte :
             ring' = sk_ring_buffer_putchar_force(ring, data) /\ Returned(1, <<>>)
        BY Zenon, <1>5 DEF PutcharForce
    <2>2. RingInv' /\ Fifo!Force(data)
        BY Zenon, <2>1, ForceStep
    <2>. QED BY Zenon, <2>2 DEF Fifo!Next
<1>6. CASE UNCHANGED vars
    BY Zenon, <1>6 DEF vars, RingInv, Fifo!fifoVars
<1>. QED BY Zenon, <1>1, <1>2, <1>3, <1>4, <1>5, <1>6 DEF Next

\* Whatever the size of the buffer, any sequence of the calls of ring_buffer.h
\* gives its callers the counts and the bytes of a bounded first-in first-out
\* queue: the two indices and the mirror bits that sk_ring_buffer_put,
\* sk_ring_buffer_get and their one-byte forms keep never mistake full for
\* empty, and a wrap loses no byte.
THEOREM RingIsFifo == Spec => IsFifo
<1>1. Init => RingInv /\ Fifo!Init
    BY Zenon, InitStep
<1>2. RingInv /\ [Next]_vars => RingInv' /\ [Fifo!Next]_(Fifo!fifoVars)
    BY Zenon, NextStep
<1>. QED BY <1>1, <1>2, PTL DEF Spec, IsFifo, Fifo!Spec

=============================================================================
