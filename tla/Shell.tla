---------------------------------- MODULE Shell ---------------------------------
(***************************************************************************)
(* The way of a command, from the keys to the arguments of a program: the    *)
(* shell's loop (programs/shell/src/shell.c), its reading of a line          *)
(* (LineEditor), its splitting into words with strtok and an allocation for  *)
(* each (rorthox_parse_command), and the kernel's copy of the list of words  *)
(* (isr80h/process.c).  Before the shell the kernel prints on the same       *)
(* terminal with printf.  How a program is loaded is ProcessMemory's.        *)
(***************************************************************************)
EXTENDS LineEditor, SequencesExt

CONSTANTS
  Formats,        \* the kernel's messages: sequences of characters and of strings for a %
  Banner,         \* the strings the shell prints first
  LineSize,       \* sizeof(buf)
  ArgumentSize,   \* RORTHOX_COMMAND_ARGUMENT_SIZE
  MaxArguments,   \* RORTHOX_MAX_COMMAND_ARGUMENTS
  MaxAllocations, \* RORTHOX_MAX_PROGRAM_ALLOCATIONS
  NameSize,       \* RORTHOX_MAX_PATH, without the "0:/" and the terminator
  MaxCommands     \* bound: commands of a behaviour

ASSUME ShellAssumption ==
  /\ LineSize \in LineSizes /\ ArgumentSize \in Nat \ {0}
  /\ MaxArguments \in Nat \ {0} /\ MaxAllocations \in Nat

VARIABLES
  shell,        \* where the shell is, strtok's pointer and buffer, and the list of words
  allocations,  \* how many of the shell's allocations are used
  started,      \* the arguments of the program started by the last command, if one was
  commands      \* bound: commands read so far

shellVars == <<tty, line, edit, past, shell, allocations, started, commands>>

Null == -1
None == <<>>

-------------------------------------------------------------------------------
(* Printing *)

print(t, str) == FoldLeft(terminal_writechar, t, str)

\* A character of a format: like a written one, but a backspace is a glyph, and the
\* hardware cursor is not moved on.
format_char(t, c) ==
  checkIndent(IF c = Newline THEN [t EXCEPT !.terminal_row = @ + 1, !.terminal_col = 0]
              ELSE [terminal_putchar(t, c) EXCEPT !.terminal_col = @ + 1])

\* A conversion prints the string for its argument.
vprintf(t, format) ==
  FoldLeft(LAMBDA u, item : IF item.kind = "char" THEN format_char(u, item.char)
                            ELSE print(u, item.string),
           t, format)

\* The copyright in the first row, and the cursor at the second.
terminal_initialize(t) ==
  [video_mem |-> [i \in Cells |-> IF i < VGA_WIDTH - 1 THEN "c" ELSE NUL],
   terminal_row |-> 1, terminal_col |-> 0, cursor |-> t.cursor]

Only(at) == shell' = [shell EXCEPT !.at = at]

KernelPrints ==
  /\ shell.at = "boot"
  /\ \E format \in Formats : tty' = vprintf(tty, format)
  /\ Only("banner")
  /\ UNCHANGED <<line, edit, past, allocations, started, commands>>

PrintBanner ==
  /\ shell.at = "banner"
  /\ tty' = FoldLeft(print, tty, Banner)
  /\ Only("prompt")
  /\ UNCHANGED <<line, edit, past, allocations, started, commands>>

-------------------------------------------------------------------------------
(* The shell's loop *)

Prompt ==
  /\ shell.at = "prompt" /\ commands < MaxCommands
  /\ tty' = print(tty, <<">", " ">>)
  /\ Only("call")
  /\ commands' = commands + 1
  /\ UNCHANGED <<line, edit, past, allocations, started>>

CallReadLine ==
  /\ shell.at = "call"
  /\ rorthox_terminal_readline(LineSize, TRUE)
  /\ Only("read")
  /\ started' = None
  /\ UNCHANGED <<allocations, commands>>

Reads ==
  /\ shell.at = "read" /\ edit.at # "return"
  /\ ReadLine
  /\ UNCHANGED <<shell, allocations, started, commands>>

\* The line is over; it is copied to strtok's buffer.
LineRead ==
  /\ shell.at = "read" /\ edit.at = "return"
  /\ tty' = print(tty, <<Newline>>)
  /\ shell' = [at |-> "root", sp |-> 0, scommand |-> line.out, words |-> <<>>]
  /\ edit' = [edit EXCEPT !.at = "idle"]
  /\ UNCHANGED <<line, past, allocations, started, commands>>

-------------------------------------------------------------------------------
(* rorthox_parse_command *)

\* The first place from p on where there is one of those characters, or none of them.
FirstOf(b, p, set) == Min({q \in DOMAIN b : q >= p /\ b[q] \in set})
FirstNot(b, p, c) == Min({q \in DOMAIN b : q >= p /\ b[q] # c})

\* Mutant: the pointer stays at the end of the word it has cut.
strtok_Stays(b, sp) ==
  IF sp = Null THEN [token |-> Null, sp |-> Null, b |-> b]
  ELSE LET p_start == FirstNot(b, sp, " ")
           e == FirstOf(b, p_start, {" ", NUL})
       IN  IF b[p_start] = NUL THEN [token |-> Null, sp |-> Null, b |-> b]
           ELSE [token |-> p_start, sp |-> e, b |-> [b EXCEPT ![e] = NUL]]

\* strtok(.., " "): where the next word begins, the pointer and the buffer after it.
strtok(b, sp) ==
  IF sp = Null THEN [token |-> Null, sp |-> Null, b |-> b]
  ELSE LET p_start == FirstNot(b, sp, " ")
           e == FirstOf(b, p_start, {" ", NUL})
       IN  IF b[p_start] = NUL THEN [token |-> Null, sp |-> Null, b |-> b]
           ELSE [token |-> p_start, sp |-> IF b[e] = NUL THEN e ELSE e + 1, b |-> [b EXCEPT ![e] = NUL]]

\* strncpy of a word: cut if it is too long.
argument(b, p) ==
  LET e == FirstOf(b, p, {NUL})
      n == Smaller(e - p, ArgumentSize - 1)
  IN  [k \in 1 .. n |-> b[p + k - 1]]

\* A word, and an allocation for it; an allocation that fails ends the list.  The list of
\* an earlier command is never freed.
NextWord ==
  /\ shell.at \in {"root", "words"}
  /\ LET next == strtok(shell.scommand, shell.sp)
         over == IF shell.words = <<>> THEN "prompt" ELSE "system"
     IN  \/ /\ next.token = Null
            /\ shell' = [shell EXCEPT !.at = over, !.sp = next.sp]
            /\ UNCHANGED allocations
         \/ /\ next.token # Null
            /\ shell' = [shell EXCEPT !.at = over, !.sp = next.sp, !.scommand = next.b]
            /\ UNCHANGED allocations
         \/ /\ next.token # Null /\ allocations < MaxAllocations
            /\ shell' = [at |-> "words", sp |-> next.sp, scommand |-> next.b,
                         words |-> Append(shell.words, argument(next.b, next.token))]
            /\ allocations' = allocations + 1
  /\ UNCHANGED <<tty, line, edit, past, started, commands>>

-------------------------------------------------------------------------------
(* isr80h_command7_invoke_system_command *)

\* The kernel's copy of a list that is not too long and whose first word may be a name.
Accepted(words) == IF Len(words) <= MaxArguments /\ Len(words[1]) <= NameSize THEN words ELSE None

\* A program is started with the copy, unless there is no memory or no such program.
System ==
  /\ shell.at = "system"
  /\ started' \in {Accepted(shell.words), None}
  /\ Only("prompt")
  /\ UNCHANGED <<tty, line, edit, past, allocations, commands>>

-------------------------------------------------------------------------------
ShellNext ==
  \/ KernelPrints \/ PrintBanner \/ Prompt \/ CallReadLine \/ Reads \/ LineRead
  \/ NextWord \/ System

ShellInit ==
  /\ tty = terminal_initialize([cursor |-> 0])
  /\ line = [out |-> [i \in {0} |-> NUL], length |-> 0, position |-> 0, capacity |-> 0, echo |-> FALSE]
  /\ edit = [at |-> "idle", i |-> 0, delta |-> 0, blank |-> FALSE]
  /\ past = [tty |-> tty, start |-> cell(tty), scrolled |-> 0, longest |-> 0]
  /\ shell = [at |-> "boot", sp |-> Null, scommand |-> <<>>, words |-> <<>>]
  /\ allocations = 0 /\ started = None /\ commands = 0

ShellSpec == ShellInit /\ [][ShellNext]_shellVars

-------------------------------------------------------------------------------
(* Properties *)

\* Where words begin in the line, and the words, each to its end or as long as an argument.
Starts == {i \in 0 .. line.length - 1 : line.out[i] # " " /\ (i = 0 \/ line.out[i - 1] = " ")}

Word(i) ==
  LET last == CHOOSE j \in i .. line.length - 1 :
                /\ \A k \in i .. j : line.out[k] # " "
                /\ j = line.length - 1 \/ line.out[j + 1] = " "
  IN  [k \in 1 .. Smaller(last - i + 1, ArgumentSize - 1) |-> line.out[i + k - 1]]

Words == [k \in 1 .. Cardinality(Starts) |->
            Word(CHOOSE i \in Starts : Cardinality({j \in Starts : j < i}) = k - 1)]

\* A program gets the words that were typed, in their order and each cut to the size of an
\* argument: all of them, or the first ones when the shell has no memory for the others.
RunsWhatWasTyped ==
  started # None =>
    /\ Len(started) <= Len(Words)
    /\ \A k \in 1 .. Len(started) : started[k] = Words[k]
    /\ Len(started) <= MaxArguments
    /\ Len(started) < Len(Words) => shell.sp # Null
================================================================================
