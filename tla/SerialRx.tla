------------------------------- MODULE SerialRx -------------------------------
(***************************************************************************)
(* The receive half of driver/serial/serial.c: the UART interrupt puts     *)
(* characters into the ring of serial_rx while a thread gets them with     *)
(* sk_serial_read.  Neither disables interrupts, so the interrupt can come *)
(* between any two accesses of sk_ring_buffer_get to the ring.  The build  *)
(* compiles the kernel without optimisation: every access in the source is *)
(* one in the program.                                                     *)
(*                                                                         *)
(* The interrupt is level triggered (interrupt.c:170) and nothing but      *)
(* uart_getc takes it back: while the UART holds a character, no thread    *)
(* runs.                                                                   *)
(*                                                                         *)
(* Characters are numbered in the order they arrive.                       *)
(***************************************************************************)
EXTENDS RingBuffer, SequencesExt

CONSTANTS
    MaxChars,   \* bound: the characters that arrive in a behaviour
    Burst,      \* bound: the characters one interrupt finds in the UART
    Reads       \* the sizes the application gives to sk_device_read

UINT16 == 65536

VARIABLES
    ring,      \* rx_fifo->rb
    arrived,   \* the number of the last character to arrive
    waiting,   \* how many of them are still in the UART
    pc,        \* where the reading thread is in sk_ring_buffer_get
    len,       \* its argument
    size,      \* its local variable
    got,       \* history: the characters the thread has read
    kept,      \* history: the characters the interrupt has put into the ring
    torn       \* history: it has come between the two stores of a wrap, and
               \* put a character into a ring that was full after both

vars == <<ring, arrived, waiting, pc, len, size, got, kept, torn>>

TypeOK ==
    /\ ring.buffer \in [Index -> 0 .. MaxChars]
    /\ ring.read_index \in Index /\ ring.write_index \in Index
    /\ arrived \in 0 .. MaxChars
    /\ waiting \in 0 .. arrived
    /\ pc \in {"call", "mirror", "compare", "ahead", "behind", "copy",
               "advance", "flip", "index"}
    /\ len \in Reads
    /\ size \in 0 .. UINT16 - 1
    /\ got \in Seq(1 .. MaxChars)
    /\ kept \in Seq(1 .. MaxChars)
    /\ torn \in BOOLEAN

\* sk_serial_rx_enable; 0 stands for a byte of the memory allocated.
Init ==
    /\ ring = sk_ring_buffer_init([i \in Index |-> 0])
    /\ arrived = 0
    /\ waiting = 0
    /\ pc = "call"
    /\ len \in Reads
    /\ size = 0
    /\ got = <<>>
    /\ kept = <<>>
    /\ torn = FALSE

-----------------------------------------------------------------------------
(* sk_hw_serial_isr *)

get_len == Min({size, len})

\* The ring as the second store of a wrap will leave it.
Settled(r) ==
    [r EXCEPT !.read_index = get_len - (buffer_size - r.read_index)]

\* Character c is offered to the ring of q, which says what the interrupt has
\* done so far.
Offer(q, c) ==
    LET put == sk_ring_buffer_space_len(q.ring) > 0
    IN  [ring |-> sk_ring_buffer_putchar(q.ring, c),
         kept |-> IF put THEN Append(q.kept, c) ELSE q.kept,
         torn |-> \/ q.torn
                  \/ /\ put
                     /\ pc = "index"
                     /\ sk_get_ring_buffer_status(Settled(q.ring)) = "full"]

\* n characters have come since the last interrupt.  What uart_getc yields is
\* put into the ring; what does not fit is dropped.  When the ring is full to
\* begin with, the UART is left as it is, and the interrupt comes again at once.
Isr(n) ==
    /\ arrived + n <= MaxChars
    /\ waiting + n > 0
    /\ arrived' = arrived + n
    /\ IF sk_ring_buffer_data_len(ring) = buffer_size
       THEN waiting' = waiting + n /\ UNCHANGED <<ring, kept, torn>>
       ELSE LET q == FoldLeft(Offer, [ring |-> ring, kept |-> kept, torn |-> torn],
                              [i \in 1 .. waiting + n |-> arrived - waiting + i])
            IN  waiting' = 0 /\ ring' = q.ring /\ kept' = q.kept /\ torn' = q.torn
    /\ UNCHANGED <<pc, len, size, got>>

-----------------------------------------------------------------------------
(* sk_serial_read, which is sk_ring_buffer_get, access by access *)

\* The thread runs, and is at label.
At(label) == pc = label /\ waiting = 0
Goto(label) == pc' = label

\* What sk_ring_buffer_get does with the length it has been told.
Told(n) ==
    /\ size' = n % UINT16
    /\ Goto(IF size' = 0 THEN "call" ELSE "copy")
    /\ UNCHANGED <<ring, arrived, waiting, len, got, kept, torn>>

ReadCall(l) ==
    /\ At("call")
    /\ len' = l
    /\ Goto(IF ring.read_index = ring.write_index THEN "mirror" ELSE "compare")
    /\ UNCHANGED <<ring, arrived, waiting, size, got, kept, torn>>

Mirror ==
    /\ At("mirror")
    /\ Told(IF ring.read_mirror = ring.write_mirror THEN 0 ELSE buffer_size)

Compare ==
    /\ At("compare")
    /\ Goto(IF ring.write_index > ring.read_index THEN "ahead" ELSE "behind")
    /\ UNCHANGED <<ring, arrived, waiting, len, size, got, kept, torn>>

Ahead ==
    /\ At("ahead")
    /\ Told(ring.write_index - ring.read_index)

Behind ==
    /\ At("behind")
    /\ Told(buffer_size - (ring.read_index - ring.write_index))

side_len == buffer_size - ring.read_index

Copy ==
    /\ At("copy")
    /\ got' = got \o Stored(ring, get_len)
    /\ Goto(IF side_len > get_len THEN "advance" ELSE "flip")
    /\ UNCHANGED <<ring, arrived, waiting, len, size, kept, torn>>

Advance ==
    /\ At("advance")
    /\ ring' = [ring EXCEPT !.read_index = @ + get_len]
    /\ Goto("call")
    /\ UNCHANGED <<arrived, waiting, len, size, got, kept, torn>>

\* Mutant: the mirror is not flipped.
FlipForgotten ==
    /\ At("flip")
    /\ Goto("index")
    /\ UNCHANGED <<ring, arrived, waiting, len, size, got, kept, torn>>

FlipMirror ==
    /\ At("flip")
    /\ ring' = [ring EXCEPT !.read_mirror = Flip(@)]
    /\ Goto("index")
    /\ UNCHANGED <<arrived, waiting, len, size, got, kept, torn>>

SetIndex ==
    /\ At("index")
    /\ ring' = Settled(ring)
    /\ Goto("call")
    /\ UNCHANGED <<arrived, waiting, len, size, got, kept, torn>>

Reader ==
    \/ \E l \in Reads : ReadCall(l)
    \/ Mirror \/ Compare \/ Ahead \/ Behind
    \/ Copy \/ Advance \/ FlipMirror \/ SetIndex

Next == Reader \/ \E n \in 0 .. Burst : Isr(n)

Spec == Init /\ [][Next]_vars

-----------------------------------------------------------------------------
(* Properties *)

\* Wherever else the interrupt hits a read of one character, and however often
\* the ring fills up: nothing put into the ring is lost, read twice or read out
\* of order, and the indices stay inside the ring.
Lossless ==
    /\ TypeOK
    /\ ~torn /\ pc = "call" =>
          got \o Stored(ring, sk_ring_buffer_data_len(ring)) = kept

\* The polling thread is never told "no data" for ever: when the characters stop
\* coming, it reads all that has been put into the ring, unless the interrupt
\* finds the ring full.  Then the interrupt leaves its characters in the UART
\* (serial.c:294), comes again at once, and no thread runs any more.
EveryCharRead == <>[](got = kept \/ torn \/ waiting > 0)

=============================================================================
