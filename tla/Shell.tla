-------------------------------- MODULE Shell --------------------------------
(***************************************************************************)
(* common/shell.c: the shell's thread takes one key after another, edits a *)
(* line, keeps a history and executes what is entered.  Keys come in any   *)
(* order, the three bytes of an arrow key one by one.                      *)
(*                                                                         *)
(* screen and column are what a terminal shows of the line, and where its  *)
(* cursor is, after all that the shell has printed.                        *)
(*                                                                         *)
(* Nothing in the code stops a line from growing into line_position, which *)
(* lies behind it.  A line of SHELL_CMD_SIZE characters is the longest     *)
(* that still ends in a 0; the model ends with the next one (overrun).     *)
(***************************************************************************)
EXTENDS Integers, Sequences, SequencesExt, FiniteSets

CONSTANTS
    SHELL_CMD_SIZE,
    SHELL_CMD_HISTORY_LINE,
    Typed       \* the characters typed outside of arrow keys

\* The bytes of the arrow keys, and the other keys the code tells apart.
Bracket == "["
Arrow == {"A", "B", "C", "D"}
Control == {"ESC", "NUL", "TAB", "BS", "CR", "ETX"}

VARIABLES
    stat,
    line, line_position, line_curpos,
    cmd_history, history_count, current_history,
    screen, column,
    overrun,   \* a character was put where the line must end
    moved,     \* history: the line was edited with the cursor inside it, and has
               \* not been printed anew since
    entered    \* history: the last line entered that was not empty

history == <<cmd_history, history_count, current_history, entered>>
edit == <<line, line_position, line_curpos, screen, column, moved>>
vars == <<stat, history, edit, overrun>>

Char == Typed \cup Arrow \cup {Bracket}
Zeros(n) == [i \in 1 .. n |-> "0"]
Row == [1 .. SHELL_CMD_SIZE -> Char \cup {"0"}]

sk_strlen(s) == SelectInSeq(s, LAMBDA c : c = "0") - 1
Text(s) == SubSeq(s, 1, sk_strlen(s))

TypeOK ==
    /\ stat \in {"WAIT_NORMAL", "WAIT_SPEC_KEY", "WAIT_FUNC_KEY"}
    /\ line \in [1 .. SHELL_CMD_SIZE + 1 -> Char \cup {"0"}]
    /\ line_position \in 0 .. SHELL_CMD_SIZE
    /\ line_curpos \in 0 .. SHELL_CMD_SIZE
    /\ cmd_history \in [1 .. SHELL_CMD_HISTORY_LINE -> Row]
    /\ history_count \in 0 .. SHELL_CMD_HISTORY_LINE
    /\ current_history \in 0 .. SHELL_CMD_HISTORY_LINE
    /\ moved \in BOOLEAN
    /\ overrun \in BOOLEAN

\* shell_system_init clears the structure.
Init ==
    /\ stat = "WAIT_NORMAL"
    /\ line = Zeros(SHELL_CMD_SIZE + 1)
    /\ line_position = 0
    /\ line_curpos = 0
    /\ cmd_history = [i \in 1 .. SHELL_CMD_HISTORY_LINE |-> Zeros(SHELL_CMD_SIZE)]
    /\ history_count = 0
    /\ current_history = 0
    /\ screen = <<>>
    /\ column = 0
    /\ moved = FALSE
    /\ overrun = FALSE
    /\ entered = <<>>

-----------------------------------------------------------------------------
(* What is printed, as the terminal shows it *)

\* Character c at column k of s; blanks at the end do not show.
Shown(s, k, c) ==
    LET new == IF k < Len(s) THEN [s EXCEPT ![k + 1] = c] ELSE Append(s, c)
        ink == {i \in 1 .. Len(new) : new[i] # " "}
    IN  SubSeq(new, 1, IF ink = {} THEN 0 ELSE Max(ink))

\* The prompt and the line on a cleared or a new row of the terminal.
Reprinted(s) ==
    /\ screen' = Text(s)
    /\ column' = sk_strlen(s)
    /\ moved' = FALSE

-----------------------------------------------------------------------------
(* shell_thread_entry, key by key *)

Escape ==
    /\ stat' = "WAIT_SPEC_KEY"
    /\ UNCHANGED <<history, edit, overrun>>

BracketKey ==
    /\ stat = "WAIT_SPEC_KEY"
    /\ stat' = "WAIT_FUNC_KEY"
    /\ UNCHANGED <<history, edit, overrun>>

\* The row of the history becomes the line.
Recall(i) ==
    /\ current_history' = i
    /\ line' = [k \in 1 .. SHELL_CMD_SIZE + 1 |->
                  IF k <= SHELL_CMD_SIZE THEN cmd_history[i + 1][k] ELSE line[k]]
    /\ line_position' = sk_strlen(line')
    /\ line_curpos' = line_position'
    /\ Reprinted(line')
    /\ UNCHANGED <<cmd_history, history_count, entered>>

Up ==
    IF current_history > 0 THEN Recall(current_history - 1)
    ELSE UNCHANGED <<history, edit>>

Down ==
    CASE current_history < history_count - 1 -> Recall(current_history + 1)
      [] current_history >= history_count - 1 /\ history_count # 0 -> Recall(history_count - 1)
      [] OTHER -> UNCHANGED <<history, edit>>

\* Mutant: the cursor moves on the terminal only.
LeftShows ==
    /\ column' = IF line_curpos > 0 THEN Max({column - 1, 0}) ELSE column
    /\ UNCHANGED <<line, line_position, line_curpos, screen, moved, history>>

Left ==
    /\ line_curpos' = Max({line_curpos - 1, 0})
    /\ column' = IF line_curpos > 0 THEN Max({column - 1, 0}) ELSE column
    /\ UNCHANGED <<line, line_position, screen, moved, history>>

Right ==
    IF line_curpos < line_position
    THEN /\ line_curpos' = line_curpos + 1
         /\ screen' = Shown(screen, column, line[line_curpos + 1])
         /\ column' = column + 1
         /\ UNCHANGED <<line, line_position, moved, history>>
    ELSE UNCHANGED <<history, edit>>

ArrowKey(key) ==
    /\ stat = "WAIT_FUNC_KEY"
    /\ stat' = "WAIT_NORMAL"
    /\ CASE key = "A" -> Up [] key = "B" -> Down [] key = "C" -> Right [] key = "D" -> Left
    /\ UNCHANGED overrun

\* The commands that start with the line are printed, then the line again.
shell_auto_complete == Reprinted(line)

Tab ==
    /\ line_position' = sk_strlen(line)
    /\ line_curpos' = line_position'
    /\ shell_auto_complete
    /\ UNCHANGED <<line, history>>

\* Mutant: the character deleted stays in the line.
BackspaceKeepsChar ==
    IF line_curpos = 0 THEN UNCHANGED <<history, edit>>
    ELSE /\ line_position' = line_position - 1
         /\ line_curpos' = line_curpos - 1
         /\ screen' = Shown(screen, Max({column - 1, 0}), " ")
         /\ column' = Max({column - 1, 0})
         /\ UNCHANGED <<line, moved, history>>

\* The last character goes, wherever the cursor is.
Backspace ==
    IF line_curpos = 0 THEN UNCHANGED <<history, edit>>
    ELSE /\ line_position' = line_position - 1
         /\ line_curpos' = line_curpos - 1
         /\ line' = [line EXCEPT ![line_position] = "0"]
         /\ screen' = Shown(screen, Max({column - 1, 0}), " ")
         /\ column' = Max({column - 1, 0})
         /\ moved' = (moved \/ line_curpos # line_position)
         /\ UNCHANGED history

\* The first line_position characters of the line, as a row of the history.
LineRow == [k \in 1 .. SHELL_CMD_SIZE |-> IF k <= line_position THEN line[k] ELSE "0"]
SameAs(row) == row = SubSeq(line, 1, SHELL_CMD_SIZE)

\* Mutant: the oldest row is overwritten, the others stay where they are.
push_over_oldest ==
    cmd_history' = [cmd_history EXCEPT ![IF history_count < SHELL_CMD_HISTORY_LINE
                                         THEN history_count + 1 ELSE 1] = LineRow]

\* The line becomes the last row, if need be at the price of the first.
push_row ==
    cmd_history' =
       IF history_count < SHELL_CMD_HISTORY_LINE
       THEN [cmd_history EXCEPT ![history_count + 1] = LineRow]
       ELSE Append(Tail(cmd_history), LineRow)

\* A command that repeats the last one is not kept twice.
shell_push_history ==
    /\ IF line_position = 0 \/ (history_count > 0 /\ SameAs(cmd_history[history_count]))
       THEN UNCHANGED <<cmd_history, history_count>>
       ELSE /\ push_row
            /\ history_count' = Min({history_count + 1, SHELL_CMD_HISTORY_LINE})
    /\ current_history' = history_count'
    /\ entered' = IF line_position = 0 THEN entered ELSE SubSeq(line, 1, line_position)

\* The command is executed (not after 0x03), and the line is cleared.
Enter ==
    /\ shell_push_history
    /\ line' = Zeros(SHELL_CMD_SIZE + 1)
    /\ line_position' = 0
    /\ line_curpos' = 0
    /\ Reprinted(line')

\* The character goes to the end of the line, wherever the cursor is.
Character(key) ==
    IF line_position = SHELL_CMD_SIZE
    THEN overrun' = TRUE /\ UNCHANGED <<history, edit>>
    ELSE /\ line' = [line EXCEPT ![line_position + 1] = key]
         /\ line_position' = line_position + 1
         /\ line_curpos' = line_curpos + 1
         /\ screen' = Shown(screen, column, key)
         /\ column' = column + 1
         /\ moved' = (moved \/ line_curpos # line_position)
         /\ UNCHANGED <<history, overrun>>

\* A key that belongs to no arrow key ends the wait for one.
Plain(key) ==
    /\ stat = "WAIT_SPEC_KEY" => key # Bracket
    /\ stat = "WAIT_FUNC_KEY" => key \notin Arrow
    /\ stat' = "WAIT_NORMAL"
    /\ CASE key = "NUL" -> UNCHANGED <<history, edit, overrun>>
         [] key = "TAB" -> Tab /\ UNCHANGED overrun
         [] key = "BS" -> Backspace /\ UNCHANGED overrun
         [] key \in {"CR", "ETX"} -> Enter /\ UNCHANGED overrun
         [] OTHER -> Character(key)

Next ==
    /\ ~overrun
    /\ \/ Escape
       \/ BracketKey
       \/ \E key \in Arrow : ArrowKey(key)
       \/ \E key \in Typed \cup (Control \ {"ESC"}) : Plain(key)

Spec == Init /\ [][Next]_vars

-----------------------------------------------------------------------------
(* Properties *)

\* Through any keys the line and its length agree: it ends at line_position and
\* nothing is left behind its end, so that what is executed and what goes into
\* the history is one text (shell.c:293, :296).  Everything keeps its type.
LineEnds ==
    /\ TypeOK
    /\ line_position = sk_strlen(line)
    /\ line_curpos <= line_position
    /\ \A k \in line_position + 1 .. SHELL_CMD_SIZE + 1 : line[k] = "0"

\* The user sees what will be executed, and where the cursor is, as long as the
\* line has not been edited with the cursor inside it: there the code changes the
\* end of the line and prints at the cursor (shell.c:281-289, :304-307).
ScreenShowsLine == ~moved => screen = Text(line) /\ column = line_curpos

\* The history ends with the last command entered, holds no command twice in a
\* row and no empty one, and the row up and down show is one of it
\* (shell.c:115-143, :215-247).
HistoryInOrder ==
    /\ history_count > 0 => LET row == cmd_history[history_count]
                            IN  SubSeq(row, 1, Len(entered)) = entered
    /\ \A i \in 1 .. history_count : cmd_history[i][1] # "0"
    /\ \A i \in 1 .. history_count - 1 : cmd_history[i] # cmd_history[i + 1]
    /\ current_history <= history_count

=============================================================================
