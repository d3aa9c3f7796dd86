------------------------------ MODULE SectorDisk -------------------------------
(***************************************************************************)
(* What the FAT16 driver relies on in the disk below it (disk/disk.h).  Of   *)
(* each sector there is a set of values that the next read may return: one   *)
(* after a read or a write that succeeded, two after a write that failed.    *)
(* A read settles it.  And there is the set of values the sector may have    *)
(* after a power failure, which a flush reduces to the former.               *)
(***************************************************************************)
CONSTANTS
  Lbas,    \* the sectors
  Values   \* what a sector may hold

VARIABLES
  possible,  \* of each sector: what a read may return
  since      \* of each sector: what a read may return after a power failure

vars == <<possible, since>>

\* A sector's data is on its way to the disk.
Send(s, v) ==
  /\ possible' = [possible EXCEPT ![s] = @ \cup {v}]
  /\ since' = [since EXCEPT ![s] = @ \cup {v}]

\* A read or a write of some sectors has succeeded.
Settle ==
  /\ possible' \in [Lbas -> SUBSET Values]
  /\ \A s \in Lbas : possible'[s] = possible[s] \/ \E v \in possible[s] : possible'[s] = {v}
  /\ UNCHANGED since

Flush == since' = possible /\ UNCHANGED possible

PowerFails == possible' = since /\ UNCHANGED since

Init == possible \in [Lbas -> {{v} : v \in Values}] /\ since = possible

Next ==
  \/ \E s \in Lbas, v \in Values : Send(s, v)
  \/ Settle
  \/ Flush
  \/ PowerFails

Spec == Init /\ [][Next]_vars
================================================================================
