------------------------------- MODULE Console -------------------------------
(***************************************************************************)
(* The way of a character from the UART to a command, in one system whose  *)
(* behaviours are about one part each: the ring buffer and its calls, the  *)
(* receive interrupt and the read it interrupts, the device layer, and the *)
(* shell.                                                                  *)
(***************************************************************************)
EXTENDS Devices, RingBuffer, Functions

CONSTANTS
    MaxChars, Burst, Reads,                         \* see SerialRx
    SHELL_CMD_SIZE, SHELL_CMD_HISTORY_LINE, Typed   \* see Shell

VARIABLES
    ring, answer,                                                  \* of RingApi
    rb, arrived, waiting, pc, len, size, got, kept, torn,          \* of SerialRx
    stat, line, line_position, line_curpos, cmd_history,           \* of Shell
    history_count, current_history, screen, column, overrun, moved,
    entered,
    part                                                           \* the part in use

A == INSTANCE RingApi
R == INSTANCE SerialRx WITH ring <- rb, Byte <- 0 .. MaxChars
S == INSTANCE Shell

ASSUME ConsoleAssumption ==
    /\ MaxChars \in Nat
    /\ Burst \in Nat
    /\ Reads \subseteq 1 .. buffer_size
    /\ SHELL_CMD_SIZE \in Nat \ {0}
    /\ SHELL_CMD_HISTORY_LINE \in Nat \ {0}
    /\ Typed \cap (S!Control \cup {"0", " "}) = {}

deviceVars == <<name, port, console, shell, opens, call>>
ringVars == <<ring, answer>>
serialVars == <<rb, arrived, waiting, pc, len, size, got, kept, torn>>
shellVars == <<stat, line, line_position, line_curpos, cmd_history, history_count,
               current_history, screen, column, overrun, moved, entered>>
consoleVars == <<deviceVars, ringVars, serialVars, shellVars, part>>

ConsoleInit ==
    /\ Init /\ A!Init /\ R!Init /\ S!Init
    /\ part \in {"ring", "serial", "device", "shell"}
    /\ part # "ring" => Range(ring.buffer) = {CHOOSE b \in Byte : TRUE}

UseRing == part = "ring" /\ A!Next /\ UNCHANGED <<deviceVars, serialVars, shellVars, part>>
UseSerial == part = "serial" /\ R!Next /\ UNCHANGED <<deviceVars, ringVars, shellVars, part>>
UseDevice == part = "device" /\ Next /\ UNCHANGED <<ringVars, serialVars, shellVars, part>>
UseShell == part = "shell" /\ S!Next /\ UNCHANGED <<deviceVars, ringVars, serialVars, part>>

ConsoleNext == UseRing \/ UseSerial \/ UseDevice \/ UseShell

\* The shell's thread polls the serial device for ever, and gets to run when no
\* interrupt is pending and no more urgent thread keeps the CPU.
Polls == part = "serial" /\ R!Reader /\ UNCHANGED <<deviceVars, ringVars, shellVars, part>>

ConsoleSpec == ConsoleInit /\ [][ConsoleNext]_consoleVars
FairConsoleSpec == ConsoleSpec /\ WF_consoleVars(Polls)

-----------------------------------------------------------------------------
(* The properties of the parts, stated and explained where they are defined; *)
(* those of the device layer are there under their own names                 *)

\* The ring buffer is a bounded queue through any calls (ring_buffer.c:31-236).
IsFifo == A!IsFifo

\* Nothing put into the ring is lost, read twice or out of order, wherever the
\* interrupt hits the read (serial.c:289, ring_buffer.c:104).
Lossless == part = "serial" => R!Lossless

\* What is put into the ring is read, unless the interrupt finds it full
\* (serial.c:294).
EveryCharRead == R!EveryCharRead

\* The line and its length agree (shell.c:281-307).
LineEnds == part = "shell" => S!LineEnds

\* The terminal shows the line, unless it was edited inside (shell.c:281-307).
ScreenShowsLine == part = "shell" => S!ScreenShowsLine

\* The history is the commands entered, newest last (shell.c:115-143).
HistoryInOrder == part = "shell" => S!HistoryInOrder

=============================================================================
