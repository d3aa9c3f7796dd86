------------------------------ MODULE MCScheduler ------------------------------
(***************************************************************************)
(* The instances of the scheduler for its safety.  "which" says what the     *)
(* processes of a behaviour do.  "tasks": three slots fill and empty in      *)
(* every order, registers hold one value.  "sleep": two slots are used, the  *)
(* registers hold two values, sleeps of three lengths are asked for, of      *)
(* which one is refused, and the periods of the timer are counted.           *)
(***************************************************************************)
EXTENDS SchedulerRing

VARIABLE which

TwoContexts == {0, -EINVARG}

Tasks == INSTANCE Scheduler WITH Milliseconds <- {5}, Contexts <- {0}, MaxElapsed <- 0

MCInit == Init /\ which \in {"tasks", "sleep"}

MCNext ==
  /\ \/ which = "tasks" /\ Tasks!Next
     \/ which = "sleep" /\ Next /\ processes' # Slots
  /\ UNCHANGED which

MCSpec == MCInit /\ [][MCNext]_<<vars, which>>

\* The state without the deadlines of tasks that do not sleep.  Nothing reads them:
\* task_wake_sleepers looks at a deadline only while its task sleeps, and
\* isr80h_command_sleep sets it before.
WithoutPastDeadlines ==
  <<processes, list, state, [t \in Slots |-> IF state[t] = SLEEPING THEN wake_tick[t] ELSE 0],
    saved, current_task, current_process, jiffies, cr3, eax, pc, irr, isr, ctx, slept, which>>

\* A sleep of ms milliseconds takes at least that many: of the timer periods that
\* end during it all but the first are whole ones, and they add up (the two guard
\* ticks of PIT_MS_TO_TICKS).
SleepsLongEnough == [][which = "sleep" => WokenInTime]_<<vars, which>>
================================================================================
