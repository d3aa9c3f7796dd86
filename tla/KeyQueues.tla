------------------------------- MODULE KeyQueues -------------------------------
(***************************************************************************)
(* What the keyboard promises the programs: each process has a queue of    *)
(* keys.  A key goes to the process that owns the keyboard, and is dropped *)
(* if that queue is full; a process takes the oldest of its own keys, or   *)
(* learns that there is none.                                              *)
(***************************************************************************)
EXTENDS Integers, Sequences

CONSTANTS
  Processes,
  Keys,
  None,       \* the answer when there is no key
  Room        \* how many keys a queue holds

VARIABLES
  queue,
  live,       \* the processes there are
  owner,
  got         \* the last answer to a process

vars == <<queue, live, owner, got>>

Init ==
  /\ queue = [p \in Processes |-> <<>>]
  /\ \E p \in Processes : live = {p} /\ owner = p
  /\ got = None

Push(k) ==
  /\ Len(queue[owner]) < Room
  /\ queue' = [queue EXCEPT ![owner] = Append(@, k)]
  /\ UNCHANGED <<live, owner, got>>

Pop(p) ==
  /\ p \in live
  /\ IF queue[p] = <<>>
     THEN got' = None /\ UNCHANGED queue
     ELSE got' = Head(queue[p]) /\ queue' = [queue EXCEPT ![p] = Tail(@)]
  /\ UNCHANGED <<live, owner>>

\* A process starts, with an empty queue, and gets the keyboard.
Start(p) ==
  /\ p \notin live
  /\ live' = live \cup {p}
  /\ queue' = [queue EXCEPT ![p] = <<>>]
  /\ owner' = p
  /\ UNCHANGED got

\* A process ends; the keyboard stays with its owner, or goes to a live process.
End(p) ==
  /\ p \in live
  /\ live' = live \ {p}
  /\ owner' \in live'
  /\ owner # p => owner' = owner
  /\ UNCHANGED <<queue, got>>

Next ==
  \/ \E k \in Keys : Push(k)
  \/ \E p \in Processes : Pop(p) \/ Start(p) \/ End(p)

Spec == Init /\ [][Next]_vars
================================================================================
