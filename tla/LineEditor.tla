------------------------------- MODULE LineEditor ------------------------------
(***************************************************************************)
(* rorthox_terminal_readline (programs/stdlib/src/rorthox.c): a line is      *)
(* edited in a buffer of the program and on the screen.  What happens        *)
(* between two system calls is the program's own; one step is a key with the *)
(* edit it makes, or one system call on the terminal.  The program knows     *)
(* nothing of the screen but how far it moves: that the cells it writes are  *)
(* those of the line, wherever it wraps and the screen scrolls, is what      *)
(* LineShown says.  No other program writes to the terminal meanwhile.       *)
(***************************************************************************)
EXTENDS Terminal

CONSTANTS
  RORTHOX_READLINE_ECHO_LIMIT,
  LineSizes  \* the sizes of the buffers lines are read to

\* With a row less than the screen for the line, the line stays on the screen.
ASSUME LineAssumption ==
  /\ RORTHOX_READLINE_ECHO_LIMIT \in Nat
  /\ RORTHOX_READLINE_ECHO_LIMIT <= (VGA_HEIGHT - 1) * VGA_WIDTH
  /\ LineSizes \subseteq Nat \ {0}

VARIABLES
  tty,   \* the terminal
  line,  \* of the call: the buffer out, length and position, capacity, whether it echoes
  edit,  \* where the call is, what it echoes next, how far it moves then
  past   \* history: the screen when the call began, where the line began on it, the
         \* rows it has scrolled since, and the longest the line has been

lineVars == <<tty, line, edit, past>>

NUL == "NUL"

start == past.start - VGA_WIDTH * past.scrolled

-------------------------------------------------------------------------------
(* The terminal's part of a step *)

\* The rows that a character written at the end of the screen scrolls.
rows(t) == IF cell(t) = last_cell THEN 1 ELSE 0

rorthox_putchar(c) ==
  /\ tty' = terminal_writechar(tty, c)
  /\ past' = [past EXCEPT !.scrolled = @ + rows(tty)]

rorthox_terminal_move_cursor(delta) ==
  /\ tty' = terminal_move_cursor(tty, delta)
  /\ UNCHANGED past

Goto(at) == edit' = [edit EXCEPT !.at = at]

\* while (length < capacity)
Loop(length) == IF length < line.capacity THEN "key" ELSE "end"

-------------------------------------------------------------------------------
(* The call and its keys *)

Smaller(a, b) == IF a <= b THEN a ELSE b

rorthox_terminal_readline(max, output_while_typing) ==
  /\ edit.at \in {"idle", "return"}
  /\ LET capacity == IF output_while_typing THEN Smaller(max - 1, RORTHOX_READLINE_ECHO_LIMIT) ELSE max - 1
     IN  /\ line' = [out |-> [i \in 0 .. max - 1 |-> NUL], length |-> 0, position |-> 0,
                     capacity |-> capacity, echo |-> output_while_typing]
         /\ edit' = [at |-> IF capacity > 0 THEN "key" ELSE "end", i |-> 0, delta |-> 0, blank |-> FALSE]
  /\ past' = [tty |-> tty, start |-> cell(tty), scrolled |-> 0, longest |-> 0]
  /\ UNCHANGED tty

next_position(key) ==
  CASE key = "left"  -> IF line.position > 0 THEN line.position - 1 ELSE line.position
    [] key = "right" -> IF line.position < line.length THEN line.position + 1 ELSE line.position
    [] key = "home"  -> 0
    [] key = "end"   -> line.length

\* left, right, home and end
MoveKey ==
  /\ edit.at = "key"
  /\ \E key \in {"left", "right", "home", "end"} :
       /\ line' = [line EXCEPT !.position = next_position(key)]
       /\ edit' = IF line.echo /\ next_position(key) # line.position
                  THEN [edit EXCEPT !.at = "move", !.delta = next_position(key) - line.position]
                  ELSE edit
  /\ UNCHANGED <<tty, past>>


\* The line without the character there, the terminator moved with the rest.
Erased(at) ==
  [line EXCEPT !.out = [i \in DOMAIN line.out |->
                          IF i >= at /\ i < line.length THEN line.out[i + 1] ELSE line.out[i]],
               !.length = @ - 1, !.position = at]

\* Backspace moves back first; the rest of the line is echoed with a blank after it, and
\* the cursor moves back over both.
EraseKey ==
  /\ edit.at = "key"
  /\ \E key \in {Backspace, "delete"} :
       LET at == IF key = Backspace THEN line.position - 1 ELSE line.position
       IN  /\ at >= 0 /\ at < line.length
           /\ line' = Erased(at)
           /\ edit' = IF ~ line.echo THEN edit
                      ELSE [at |-> IF key = Backspace THEN "left" ELSE "echo", i |-> at,
                            delta |-> at - (line.length - 1) - 1, blank |-> TRUE]
  /\ UNCHANGED <<tty, past>>

\* Mutant: a character in the middle takes the place of the one there.
Inserted_Over(key) ==
  [line EXCEPT !.out = [i \in DOMAIN line.out |->
                          IF i = line.position THEN key
                          ELSE IF i = line.length + 1 THEN NUL ELSE line.out[i]],
               !.length = @ + 1, !.position = @ + 1]

\* The line with a character more, and a terminator after it.
Inserted(key) ==
  [line EXCEPT !.out = [i \in DOMAIN line.out |->
                          IF i = line.position THEN key
                          ELSE IF i > line.position /\ i <= line.length THEN line.out[i - 1]
                          ELSE IF i = line.length + 1 THEN NUL
                          ELSE line.out[i]],
               !.length = @ + 1, !.position = @ + 1]

\* The character and the rest of the line are echoed, and the cursor moves back over the rest.
TextKey ==
  /\ edit.at = "key"
  /\ \E key \in Characters \ {NUL} :
       /\ line' = Inserted(key)
       /\ edit' = IF line.echo
                  THEN [at |-> "echo", i |-> line.position,
                        delta |-> (line.position + 1) - (line.length + 1), blank |-> FALSE]
                  ELSE [edit EXCEPT !.at = Loop(line.length + 1)]
       /\ past' = [past EXCEPT !.longest = IF line.length + 1 > @ THEN line.length + 1 ELSE @]
  /\ UNCHANGED tty

EnterKey ==
  /\ edit.at = "key"
  /\ Goto("end")
  /\ UNCHANGED <<tty, line, past>>

-------------------------------------------------------------------------------
(* Its system calls *)

\* The cell a backspace erases.
Left ==
  /\ edit.at = "left"
  /\ rorthox_terminal_move_cursor(-1)
  /\ Goto("echo")
  /\ UNCHANGED line

Echo ==
  /\ edit.at = "echo" /\ edit.i < line.length
  /\ rorthox_putchar(line.out[edit.i])
  /\ edit' = [edit EXCEPT !.i = @ + 1]
  /\ UNCHANGED line

\* Mutant: the cell after a shorter line is left as it was.
EchoDone_NoBlank ==
  /\ edit.at = "echo" /\ edit.i >= line.length
  /\ UNCHANGED <<tty, past>>
  /\ IF edit.blank THEN edit' = [edit EXCEPT !.at = "move", !.delta = @ + 1]
     ELSE Goto(IF edit.delta # 0 THEN "move" ELSE Loop(line.length))
  /\ UNCHANGED line

\* A blank after the line that has become shorter; after an insertion at the end there is
\* nowhere to move.
EchoDone ==
  /\ edit.at = "echo" /\ edit.i >= line.length
  /\ IF edit.blank THEN rorthox_putchar(" ") /\ Goto("move")
     ELSE /\ Goto(IF edit.delta # 0 THEN "move" ELSE Loop(line.length))
          /\ UNCHANGED <<tty, past>>
  /\ UNCHANGED line

Move ==
  /\ edit.at = "move"
  /\ rorthox_terminal_move_cursor(edit.delta)
  /\ Goto(Loop(line.length))
  /\ UNCHANGED line

\* The cursor is left at the end of the line.
End ==
  /\ edit.at = "end"
  /\ IF line.echo /\ line.position < line.length
     THEN rorthox_terminal_move_cursor(line.length - line.position) ELSE UNCHANGED <<tty, past>>
  /\ Goto("return")
  /\ UNCHANGED line

ReadLine == MoveKey \/ EraseKey \/ TextKey \/ EnterKey \/ Left \/ Echo \/ EchoDone \/ Move \/ End

-------------------------------------------------------------------------------
LineNext ==
  \/ \E max \in LineSizes, output_while_typing \in BOOLEAN :
       rorthox_terminal_readline(max, output_while_typing)
  \/ ReadLine

\* The terminal may be in any state in which the cursor is on the screen and shown.
LineInit ==
  /\ tty \in [video_mem : [Cells -> Characters], terminal_row : 0 .. VGA_HEIGHT - 1,
              terminal_col : 0 .. VGA_WIDTH - 1, cursor : Cells]
  /\ tty.cursor = cell(tty)
  /\ line = [out |-> [i \in {0} |-> NUL], length |-> 0, position |-> 0, capacity |-> 0, echo |-> FALSE]
  /\ edit = [at |-> "idle", i |-> 0, delta |-> 0, blank |-> FALSE]
  /\ past = [tty |-> tty, start |-> cell(tty), scrolled |-> 0, longest |-> 0]

LineSpec == LineInit /\ [][LineNext]_lineVars

-------------------------------------------------------------------------------
(* Properties *)

\* What was in a cell when the call began, or the blank that has scrolled in.
Before(c) ==
  LET d == c + VGA_WIDTH * past.scrolled
  IN  IF d \in Cells THEN past.tty.video_mem[d] ELSE " "

\* Whenever an echoing call waits for a key, and when it returns, the screen shows the line
\* from where it began, blanks where it has been longer, and everything else as it was; the
\* cursor is where the next key will edit, and at the end of the line when the call returns.
\* A call that does not echo leaves the terminal alone.
LineShown ==
  edit.at \in {"key", "end", "return"} =>
    IF line.echo
    THEN /\ start >= 0
         /\ \A c \in Cells :
              tty.video_mem[c] = IF c < start \/ c >= start + past.longest THEN Before(c)
                                 ELSE IF c < start + line.length THEN line.out[c - start] ELSE " "
         /\ cell(tty) = start + (IF edit.at = "return" THEN line.length ELSE line.position)
         /\ tty.cursor = cell(tty)
    ELSE tty = past.tty

\* The line fits its buffer with its terminator.
LineTerminated ==
  /\ line.position \in 0 .. line.length /\ line.length <= line.capacity
  /\ line.out[line.length] = NUL
  /\ \A i \in 0 .. line.length - 1 : line.out[i] # NUL


\* The line in the buffer, as a text that is over once no key is waited for any more.
Text == INSTANCE LineText
          WITH Texts <- Characters \ {NUL},
               text <- [i \in 1 .. line.length |-> line.out[i - 1]],
               place <- line.position,
               size <- line.capacity,
               over <- edit.at \in {"idle", "end", "return"} \/ line.length = line.capacity

\* Every key edits the text as it should, however the loops over the buffer do it.
ImplementsLineText == Text!TextSpec
================================================================================
