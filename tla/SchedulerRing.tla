----------------------------- MODULE SchedulerRing -----------------------------
(***************************************************************************)
(* The linked list of task.c and its current_task implement the ring of    *)
(* tasks of TaskRing.                                                      *)
(***************************************************************************)
EXTENDS Scheduler, Sequences, FiniteSets

\* The tasks on the list from its head on.
TaskList == [i \in 1 .. Cardinality(processes) |-> Scan(list, NULL)[i - 1]]

Ring == INSTANCE TaskRing WITH
  Tasks   <- Slots,
  ring    <- TaskList,
  asleep  <- {t \in processes : state[t] = SLEEPING},
  last    <- current_task,
  running <- pc = "user"

\* Every path through the scheduler (publication, removal, sleep, ticks, NMIs, the
\* idle loop) hands the CPU on as the ring does: the pointer surgery of
\* task_publish and task_list_remove and the scan of task_get_next lose no task,
\* repeat none and keep the order.
ImplementsTaskRing == Ring!Spec
================================================================================
