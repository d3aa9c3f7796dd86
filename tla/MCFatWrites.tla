------------------------------- MODULE MCFatWrites ------------------------------
(***************************************************************************)
(* Two instances of Fat16 that TLC checks in one run; "which" says which of  *)
(* them a behaviour is of.  "overwrite": one file with two cells in a        *)
(* cluster and two values to write, so that writes overwrite, fill a cluster *)
(* up and grow the chain, with a crash.  "handles": two descriptors, of one  *)
(* file or of two.  A command may fail in both.                              *)
(***************************************************************************)
EXTENDS Fat16

VARIABLE which

Handles == INSTANCE Fat16
             WITH Files <- {1, 2}, MaxCluster <- 3, Cells <- 1, Values <- {7}, MaxSize <- 2,
                  Descriptors <- {1, 2}, MaxCrashes <- 0

MCInit ==
  \/ which = "overwrite" /\ Init
  \/ which = "handles" /\ Handles!Init

MCNext ==
  /\ \/ which = "overwrite" /\ Next
     \/ which = "handles" /\ Handles!Next
  /\ UNCHANGED which

MCSpec == MCInit /\ [][MCNext]_<<vars, which>>

\* Durable, of the file of the first instance.
WritesAreDurable == which = "overwrite" => Durable

\* Whatever two descriptors do to a file, one truncating or growing it under the other: no
\* cluster is shared, a read gives what the file holds, and the entries kept by descriptors
\* and by the root's copy agree with the disk.
HandlesConsistent ==
  which = "handles" => Handles!NoClusterShared /\ Handles!ReadersSeeFile /\ Handles!CopiesAgree
=================================================================================
