-------------------------------- MODULE TaskRing --------------------------------
(***************************************************************************)
(* What the scheduler promises: a ring of tasks in the order in which they *)
(* were started, each awake or asleep, and at any time either one awake    *)
(* task that runs or nobody.  When the running task's turn is over, the    *)
(* first awake task after it is next.  Two things disturb the order: a     *)
(* task that was just started runs at once, at the end of the ring, and    *)
(* when a task ends, the one after it is passed over.                      *)
(***************************************************************************)
EXTENDS Integers, Sequences, SequencesExt

CONSTANT Tasks

VARIABLES ring, asleep, last, running

vars == <<ring, asleep, last, running>>

\* The tasks of r from the one after t round to t itself.
From(r, t) ==
  LET i == CHOOSE i \in 1 .. Len(r) : r[i] = t
  IN  SubSeq(r, i + 1, Len(r)) \o SubSeq(r, 1, i)

Awake(r, t, sleepers) == SelectSeq(From(r, t), LAMBDA u : u \notin sleepers)

\* Whoever is awake first after t gets the CPU; nobody if all sleep.
Turn(r, t, sleepers) ==
  LET awake == Awake(r, t, sleepers)
  IN  IF awake = <<>> THEN last' = t /\ running' = FALSE
                      ELSE last' = Head(awake) /\ running' = TRUE

Init ==
  /\ \E t \in Tasks : ring = <<t>> /\ last = t
  /\ asleep = {}
  /\ running = TRUE

Start(t) ==
  /\ running
  /\ t \notin Range(ring)
  /\ ring' = Append(ring, t)
  /\ last' = t
  /\ UNCHANGED <<asleep, running>>

End ==
  /\ running
  /\ ring' = Remove(ring, last)
  /\ UNCHANGED asleep
  /\ IF ring' = <<>> THEN running' = FALSE
                     ELSE Turn(ring', Head(From(ring, last)), asleep)

Sleep ==
  /\ running
  /\ asleep' = asleep \cup {last}
  /\ Turn(ring, last, asleep')
  /\ UNCHANGED ring

\* A tick: some sleepers wake.  The running task's turn is over; an idle CPU
\* looks round afterwards.
Tick ==
  /\ asleep' \in SUBSET asleep
  /\ IF running THEN Turn(ring, last, asleep') ELSE UNCHANGED <<last, running>>
  /\ UNCHANGED ring

Resume ==
  /\ ~ running
  /\ ring # <<>>
  /\ Turn(ring, last, asleep)
  /\ UNCHANGED <<ring, asleep>>

Next ==
  \/ \E t \in Tasks : Start(t)
  \/ End
  \/ Sleep
  \/ Tick
  \/ Resume

Spec == Init /\ [][Next]_vars
=================================================================================
