------------------------------- MODULE FileTable -------------------------------
(***************************************************************************)
(* What the file system calls promise to programs (include/rorthox/file.h): *)
(* each process has handles of its own, an open either gives a handle and   *)
(* does to the file what its mode says, or leaves everything as it was.     *)
(* Only a disk that fails may leave the file of the call changed, and from  *)
(* then on nothing more is written.                                         *)
(***************************************************************************)
EXTENDS Integers

CONSTANTS
  Processes,    \* process slots
  Handles,      \* the handles of a process
  Directories,  \* the names that are directories
  ReadOnly      \* those with the read-only attribute

Modes == {"READ", "WRITE", "APPEND"}

VARIABLES
  contents,  \* of each name: "absent", "empty" or "data"
  held,      \* of each process and handle: the name and mode it was opened with
  broken     \* the disk has failed

vars == <<contents, held, broken>>

Names == DOMAIN contents

Free == [name |-> "none", mode |-> "none"]

\* May the file be opened so?
Permitted(n, mode) ==
  /\ n \notin Directories
  /\ IF mode = "READ" THEN contents[n] # "absent" ELSE n \notin ReadOnly /\ ~ broken

\* What the open does to the file.
Opened(n, mode) ==
  IF mode = "WRITE" \/ (mode = "APPEND" /\ contents[n] = "absent")
  THEN [contents EXCEPT ![n] = "empty"] ELSE contents

Open(p, h, n, mode) ==
  /\ held[p][h] = Free
  /\ Permitted(n, mode)
  /\ contents' = Opened(n, mode)
  /\ held' = [held EXCEPT ![p][h] = [name |-> n, mode |-> mode]]
  /\ UNCHANGED broken

\* The disk fails in an open that was permitted, or in a write.
Fail(n) ==
  /\ ~ broken
  /\ n \notin Directories \cup ReadOnly
  /\ broken' = TRUE
  /\ \/ UNCHANGED contents
     \/ \E now \in {"empty", "data"} : contents' = [contents EXCEPT ![n] = now]
  /\ UNCHANGED held

Write(p, h) ==
  /\ held[p][h].mode \in {"WRITE", "APPEND"}
  /\ ~ broken
  /\ contents' = [contents EXCEPT ![held[p][h].name] = "data"]
  /\ UNCHANGED <<held, broken>>

Close(p, h) ==
  /\ held[p][h] # Free
  /\ held' = [held EXCEPT ![p][h] = Free]
  /\ UNCHANGED <<contents, broken>>

\* The end of a process closes all its handles.
End(p) ==
  /\ held' = [held EXCEPT ![p] = [h \in Handles |-> Free]]
  /\ UNCHANGED <<contents, broken>>

Init ==
  /\ \A n \in Names : contents[n] \in {"absent", "data"}
  /\ held = [p \in Processes |-> [h \in Handles |-> Free]]
  /\ broken = FALSE

Next ==
  \/ \E p \in Processes :
       \/ End(p)
       \/ \E h \in Handles :
            \/ Write(p, h)
            \/ Close(p, h)
            \/ \E n \in Names, mode \in Modes : Open(p, h, n, mode)
  \/ \E n \in Names : Fail(n)

Spec == Init /\ [][Next]_vars
================================================================================
