-------------------------------- MODULE Terminal -------------------------------
(***************************************************************************)
(* The text screen (arch/i686/tty.c).  A terminal is a record: the cells of   *)
(* the screen, the row and the column of the next character, and the cell    *)
(* the hardware cursor is on.  The functions of tty.c are operators from a   *)
(* terminal to a terminal: system calls run with interrupts off, so each of  *)
(* them is one step.  Colours are left out.                                  *)
(***************************************************************************)
EXTENDS Integers

CONSTANTS
  VGA_WIDTH,
  VGA_HEIGHT,
  Characters  \* that take a cell: all but the newline and the backspace

Newline == "LF"
Backspace == "BS"

ASSUME TerminalAssumption ==
  /\ VGA_WIDTH \in Nat \ {0} /\ VGA_HEIGHT \in Nat \ {0, 1}
  /\ " " \in Characters /\ Newline \notin Characters /\ Backspace \notin Characters

last_cell == VGA_WIDTH * VGA_HEIGHT - 1
Cells == 0 .. last_cell

cell(t) == t.terminal_row * VGA_WIDTH + t.terminal_col

update_cursor(t) == [t EXCEPT !.cursor = cell(t)]

\* A character at the terminal's place; nothing off the screen.
terminal_putchar(t, c) ==
  IF t.terminal_col < VGA_WIDTH /\ t.terminal_row < VGA_HEIGHT
  THEN [t EXCEPT !.video_mem = [@ EXCEPT ![cell(t)] = c], !.cursor = cell(t)]
  ELSE t

terminal_scroll(t) ==
  [t EXCEPT !.video_mem = [i \in Cells |-> IF i < (VGA_HEIGHT - 1) * VGA_WIDTH
                                           THEN t.video_mem[i + VGA_WIDTH] ELSE " "],
            !.terminal_row = VGA_HEIGHT - 1]

wrapped(t) ==
  IF t.terminal_col >= VGA_WIDTH THEN [t EXCEPT !.terminal_col = 0, !.terminal_row = @ + 1] ELSE t

checkIndent(t) ==
  IF wrapped(t).terminal_row >= VGA_HEIGHT THEN terminal_scroll(wrapped(t)) ELSE wrapped(t)

terminal_backspace(t) ==
  IF cell(t) = 0 THEN t
  ELSE LET back == IF t.terminal_col = 0
                   THEN [t EXCEPT !.terminal_row = @ - 1, !.terminal_col = VGA_WIDTH - 1]
                   ELSE [t EXCEPT !.terminal_col = @ - 1]
       IN  update_cursor(terminal_putchar(back, " "))

\* A move off the screen is refused.
terminal_move_cursor(t, delta) ==
  IF delta < - cell(t) \/ delta > last_cell - cell(t) THEN t
  ELSE update_cursor([t EXCEPT !.terminal_row = (cell(t) + delta) \div VGA_WIDTH,
                               !.terminal_col = (cell(t) + delta) % VGA_WIDTH])

written(t, c) ==
  update_cursor(checkIndent([terminal_putchar(t, c) EXCEPT !.terminal_col = @ + 1]))

terminal_writechar(t, c) ==
  IF c = Newline
  THEN update_cursor(checkIndent([t EXCEPT !.terminal_row = @ + 1, !.terminal_col = 0]))
  ELSE IF c = Backspace THEN terminal_backspace(t)
  ELSE written(t, c)
================================================================================
