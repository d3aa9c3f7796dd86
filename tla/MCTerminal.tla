------------------------------- MODULE MCTerminal -------------------------------
(***************************************************************************)
(* The line editor at every place of a screen of three rows of three cells,  *)
(* one call in a behaviour, and the shell from the start of the kernel on.   *)
(* The line may be up to six characters long, two thirds of the screen, the  *)
(* most that LineAssumption allows; the shell's up to five, enough for three *)
(* words, of which two are the most a program may have.                      *)
(***************************************************************************)
EXTENDS Shell

VARIABLE which

MCFormats == {<<[kind |-> "char", char |-> "a"], [kind |-> "string", string |-> <<"a", Backspace, "a">>]>>,
              <<[kind |-> "char", char |-> Newline], [kind |-> "char", char |-> "a"]>>}

MCBanner == <<<<"a", Newline>>>>

\* Each cell holds something else, so that a cell that moves is seen to.
AnyPlace ==
  \E c \in Cells :
    tty = [video_mem |-> [d \in Cells |-> d], terminal_row |-> c \div VGA_WIDTH,
           terminal_col |-> c % VGA_WIDTH, cursor |-> c]

EditorInit ==
  /\ AnyPlace
  /\ line = [out |-> [i \in {0} |-> NUL], length |-> 0, position |-> 0, capacity |-> 0, echo |-> FALSE]
  /\ edit = [at |-> "idle", i |-> 0, delta |-> 0, blank |-> FALSE]
  /\ past = [tty |-> tty, start |-> cell(tty), scrolled |-> 0, longest |-> 0]
  /\ shell = <<>> /\ allocations = 0 /\ started = None /\ commands = 0

\* The editor's own step; the commands are the calls.
EditorNext ==
  \/ /\ commands = 0 /\ commands' = 1
     /\ \E max \in LineSizes, output_while_typing \in BOOLEAN :
          rorthox_terminal_readline(max, output_while_typing)
     /\ UNCHANGED <<shell, allocations, started>>
  \/ commands = 1 /\ ReadLine /\ UNCHANGED <<shell, allocations, started, commands>>

MCInit == \/ which = "editor" /\ EditorInit
          \/ which = "shell" /\ ShellInit

MCNext == /\ \/ which = "editor" /\ EditorNext
             \/ which = "shell" /\ ShellNext
          /\ UNCHANGED which

MCSpec == MCInit /\ [][MCNext]_<<shellVars, which>>
================================================================================
