--------------------------------- MODULE MCClock --------------------------------
(* The scheduler's liveness: two tasks that may sleep, or four that do not. *)
EXTENDS Scheduler, FiniteSets

VARIABLE which

MCInit == Init /\ which \in {"sleepers", "turns"}

MCNext ==
  /\ Next
  /\ IF which = "sleepers" THEN Cardinality(processes') <= 2
     ELSE \A t \in Slots : state'[t] = RUNNABLE
  /\ UNCHANGED which

MCSpec == MCInit /\ [][MCNext]_<<vars, which>> /\ Fairness
=================================================================================
