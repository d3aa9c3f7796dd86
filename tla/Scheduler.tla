------------------------------- MODULE Scheduler -------------------------------
(***************************************************************************)
(* The scheduler: the task list, sleeping and the idle loop of             *)
(* kernel/task/task.c, the timer tick of arch/i686/pit.c, the interrupt    *)
(* and exception paths of idt/idt.c, and the parts of task/process.c and   *)
(* isr80h/process.c that start and end processes.                          *)
(*                                                                         *)
(* The kernel runs with interrupts off, so a system call, an interrupt     *)
(* handler and an exception handler are each one step.  The exception is   *)
(* the idle loop of task_next, which is modelled instruction by            *)
(* instruction (pc).  A process has one task, so a process slot names      *)
(* both.                                                                   *)
(***************************************************************************)
EXTENDS Integers

CONSTANTS
  MaxProcesses,  \* RORTHOX_MAX_PROCESSES
  TickWord,      \* 2^32: the tick counter wraps here
  Hz,            \* PIT_FREQUENCY_HZ
  MaxSleepMs,    \* INT32_MAX
  Milliseconds,  \* the arguments programs pass to sleep
  Contexts,      \* what a program can find in eax
  MaxElapsed     \* bound on the count of timer periods of a sleep

EINVARG == 2

PIT_SLEEP_GUARD_TICKS == 2

CeilTicks(ms) == (ms \div 1000) * Hz + ((ms % 1000) * Hz + 999) \div 1000

\* Mutant: one guard tick.
pit_ms_to_ticks_OneGuard(ms) == IF ms = 0 THEN 0 ELSE CeilTicks(ms) + 1

pit_ms_to_ticks(ms) == IF ms = 0 THEN 0 ELSE CeilTicks(ms) + PIT_SLEEP_GUARD_TICKS

\* The static assertion of pit.c: a deadline is less than half a wrap ahead.
ASSUME SchedulerAssumption ==
  /\ MaxProcesses \in Nat \ {0}
  /\ TickWord \in Nat \ {0}
  /\ TickWord % 2 = 0
  /\ Hz \in Nat \ {0}
  /\ MaxSleepMs \in Nat
  /\ Milliseconds \subseteq Nat
  /\ \A ms \in Milliseconds : ms <= MaxSleepMs => pit_ms_to_ticks(ms) < TickWord \div 2
  /\ Contexts \subseteq Int
  /\ 0 \in Contexts
  /\ (\E ms \in Milliseconds : ms > MaxSleepMs) => -EINVARG \in Contexts
  /\ MaxElapsed \in Nat

Slots  == 0 .. MaxProcesses - 1
NULL   == -1
KERNEL == -2            \* the kernel's page directory, in cr3

TIMER    == 0           \* interrupt requests, in the order of their priority
KEYBOARD == 1

RUNNABLE == "TASK_RUNNABLE"
SLEEPING == "TASK_SLEEPING"

VARIABLES
  processes,        \* the slots of processes[] in use
  list,             \* task_head, task_tail and the next and prev of every task
  state,            \* task->state
  wake_tick,        \* task->wake_tick
  saved,            \* task->registers, cut down to eax
  current_task,     \* the task that runs, or ran before the idle loop
  current_process,  \* the process that gets the keyboard
  jiffies,          \* the tick counter
  cr3,              \* the page directory in use: KERNEL or a task's
  eax,              \* the CPU register
  pc,               \* where the CPU is: see CpuStates
  irr,              \* interrupt requests waiting in the PIC
  isr,              \* interrupts in service: acknowledged only by an EOI
  ctx,              \* history: the eax each program must find when it runs again
  slept             \* history: per sleeping task, the time asked for and the
                    \* timer periods that have ended since

taskVars == <<processes, list, state, wake_tick, saved>>
cpuVars  == <<cr3, eax, pc>>
picVars  == <<irr, isr>>
history  == <<ctx, slept>>
vars     == <<processes, list, state, wake_tick, saved, current_task, current_process,
              jiffies, cr3, eax, pc, irr, isr, ctx, slept>>

\* user: ring 3, interrupts on.  The others are the idle loop: look (interrupts
\* off, about to call task_get_next), shadow (sti done, interrupts held off until
\* the next instruction has started), unshielded (an NMI ended that protection),
\* halted (in hlt), woken (after hlt, before cli).  panic: PANIC never returns.
CpuStates == {"user", "look", "shadow", "unshielded", "halted", "woken", "panic"}

InterruptsOn == pc \in {"user", "unshielded", "halted", "woken"}
Idle == pc \in {"look", "shadow", "unshielded", "halted", "woken"}

-------------------------------------------------------------------------------
(* The task list *)

List == [head : Slots \cup {NULL}, tail : Slots \cup {NULL},
         next : [Slots -> Slots \cup {NULL}], prev : [Slots -> Slots \cup {NULL}]]

Follow(l, t) == IF l.next[t] # NULL THEN l.next[t] ELSE l.head

\* Mutant: the new tail does not point back.
task_publish_NoPrev(l, t) ==
  IF l.head = NULL
  THEN [l EXCEPT !.head = t, !.tail = t]
  ELSE [l EXCEPT !.next[l.tail] = t, !.tail = t]

task_publish(l, t) ==
  IF l.head = NULL
  THEN [l EXCEPT !.head = t, !.tail = t]
  ELSE [l EXCEPT !.next[l.tail] = t, !.prev[t] = l.tail, !.tail = t]

\* The k-th task the scan of task_get_next looks at.
Scan(l, cur) ==
  LET start == IF cur # NULL /\ l.next[cur] # NULL THEN l.next[cur] ELSE l.head
      scan[k \in 0 .. MaxProcesses - 1] ==
        IF k = 0 THEN start ELSE Follow(l, scan[k - 1])
  IN  scan

\* Mutant: the scan always begins at the head.
task_get_next_FromHead(l, cur, st) ==
  IF l.head = NULL THEN NULL
  ELSE LET scan  == Scan(l, NULL)
           found == {k \in DOMAIN scan : st[scan[k]] = RUNNABLE}
       IN  IF found = {} THEN NULL
           ELSE scan[CHOOSE k \in found : \A j \in found : k <= j]

\* The first runnable task after the current one, the current one last.
task_get_next(l, cur, st) ==
  IF l.head = NULL THEN NULL
  ELSE LET scan  == Scan(l, cur)
           found == {k \in DOMAIN scan : st[scan[k]] = RUNNABLE}
       IN  IF found = {} THEN NULL
           ELSE scan[CHOOSE k \in found : \A j \in found : k <= j]

\* Mutant: the task before the removed one keeps pointing to it.
task_list_remove_Dangling(l, t) ==
  LET p == l.prev[t]
      n == l.next[t]
  IN  [head |-> IF t = l.head THEN n ELSE l.head,
       tail |-> IF t = l.tail THEN p ELSE l.tail,
       next |-> [u \in Slots |-> IF u = t THEN NULL ELSE l.next[u]],
       prev |-> [u \in Slots |-> IF u = t THEN NULL
                                 ELSE IF u = n THEN p ELSE l.prev[u]]]

task_list_remove(l, t) ==
  LET p == l.prev[t]
      n == l.next[t]
  IN  [head |-> IF t = l.head THEN n ELSE l.head,
       tail |-> IF t = l.tail THEN p ELSE l.tail,
       next |-> [u \in Slots |-> IF u = t THEN NULL
                                 ELSE IF u = p THEN n ELSE l.next[u]],
       prev |-> [u \in Slots |-> IF u = t THEN NULL
                                 ELSE IF u = n THEN p ELSE l.prev[u]]]

\* Mutant: the head takes the place of a freed current task.
CurrentAfterRemove_Head(l, t, cur) ==
  IF t # cur THEN cur ELSE task_list_remove(l, t).head

\* What task_list_remove(t) leaves in current_task.
CurrentAfterRemove(l, t, cur) ==
  IF t # cur THEN cur
  ELSE IF l.next[t] # NULL THEN l.next[t] ELSE task_list_remove(l, t).head

\* Mutant: the idle loop stays in the page directory of the last task.
task_next_KeepsDirectory(l, cur, st, sv) ==
  LET n == task_get_next(l, cur, st)
  IN  IF n # NULL
      THEN current_task' = n /\ cr3' = n /\ eax' = sv[n] /\ pc' = "user"
      ELSE current_task' = cur /\ pc' = "look" /\ UNCHANGED <<cr3, eax>>

\* task_next: run the next runnable task, or enter the idle loop under the
\* kernel's page directory.  The arguments are the list, the current task, the
\* states and the saved registers as the caller leaves them.
task_next(l, cur, st, sv) ==
  LET n == task_get_next(l, cur, st)
  IN  IF n # NULL
      THEN /\ current_task' = n
           /\ cr3' = n
           /\ eax' = sv[n]
           /\ pc' = "user"
      ELSE /\ current_task' = cur
           /\ cr3' = KERNEL
           /\ pc' = "look"
           /\ UNCHANGED eax

\* Mutant: a comparison that does not survive the wrap.
Due_NoWrap(now, deadline) == now >= deadline

\* Due when now is at or past the deadline, also across the wrap.
Due(now, deadline) == (now - deadline) % TickWord < TickWord \div 2

\* Mutant: a tick of the idle loop wakes nobody.
task_wake_sleepers_FromUser(now) ==
  [t \in Slots |-> IF pc = "user" /\ t \in processes /\ state[t] = SLEEPING /\ Due(now, wake_tick[t])
                   THEN RUNNABLE ELSE state[t]]

task_wake_sleepers(now) ==
  [t \in Slots |-> IF t \in processes /\ state[t] = SLEEPING /\ Due(now, wake_tick[t])
                   THEN RUNNABLE ELSE state[t]]

-------------------------------------------------------------------------------
(* Boot: kernel_main loads shell.elf into slot 0 and runs it. *)

EmptyList == [head |-> NULL, tail |-> NULL, next |-> [t \in Slots |-> NULL],
              prev |-> [t \in Slots |-> NULL]]

NoSleep == [ms |-> 0, elapsed |-> 0]

Init ==
  /\ processes = {0}
  /\ list = task_publish(EmptyList, 0)
  /\ state = [t \in Slots |-> RUNNABLE]
  /\ wake_tick = [t \in Slots |-> 0]
  /\ saved = [t \in Slots |-> 0]
  /\ current_task = 0
  /\ current_process = 0
  /\ jiffies = 0
  /\ cr3 = 0
  /\ eax = 0
  /\ pc = "user"
  /\ irr = {}
  /\ isr = {}
  /\ ctx = [t \in Slots |-> 0]
  /\ slept = [t \in Slots |-> NoSleep]

-------------------------------------------------------------------------------
(* Steps of the running program.  Every system call saves the task's       *)
(* registers on entry (isr80h_handler) and returns with the task's page    *)
(* directory and the result in eax.                                        *)

Return(res) ==
  /\ saved' = [saved EXCEPT ![current_task] = eax]
  /\ eax' = res
  /\ ctx' = [ctx EXCEPT ![current_task] = res]
  /\ cr3' = current_task
  /\ UNCHANGED <<processes, list, state, wake_tick, current_task, current_process,
                 jiffies, pc, irr, isr, slept>>

Compute ==
  /\ pc = "user"
  /\ \E v \in Contexts \ {eax} :
       /\ eax' = v
       /\ ctx' = [ctx EXCEPT ![current_task] = v]
  /\ UNCHANGED <<taskVars, current_task, current_process, jiffies, cr3, pc, irr, isr, slept>>

isr80h_command_sleep(ms) ==
  /\ pc = "user"
  /\ \/ /\ ms > MaxSleepMs
        /\ Return(-EINVARG)
     \/ /\ ms = 0
        /\ Return(0)
     \/ /\ ms \in 1 .. MaxSleepMs
        /\ wake_tick' = [wake_tick EXCEPT ![current_task] =
                           (jiffies + pit_ms_to_ticks(ms)) % TickWord]
        /\ state' = [state EXCEPT ![current_task] = SLEEPING]
        /\ saved' = [saved EXCEPT ![current_task] = 0]
        /\ task_next(list, current_task, state', saved')
        /\ ctx' = [ctx EXCEPT ![current_task] = 0]
        /\ slept' = [slept EXCEPT ![current_task] = [ms |-> ms, elapsed |-> 0]]
        /\ UNCHANGED <<processes, list, current_process, jiffies, irr, isr>>

\* System calls 6 and 7 once everything fallible has succeeded: the new process
\* takes the lowest free slot, is published, gets the keyboard and runs at once.
process_load(t) ==
  /\ pc = "user"
  /\ t \in Slots \ processes
  /\ \A u \in Slots \ processes : t <= u
  /\ processes' = processes \cup {t}
  /\ list' = task_publish(list, t)
  /\ state' = [state EXCEPT ![t] = RUNNABLE]
  /\ wake_tick' = [wake_tick EXCEPT ![t] = 0]
  /\ saved' = [saved EXCEPT ![current_task] = eax, ![t] = 0]
  /\ current_process' = t
  /\ current_task' = t
  /\ cr3' = t
  /\ eax' = 0
  /\ ctx' = [ctx EXCEPT ![t] = 0]
  /\ UNCHANGED <<jiffies, pc, irr, isr, slept>>

\* process_load with every slot taken, or a step of it that failed: nothing was
\* published.
process_load_fails ==
  /\ pc = "user"
  /\ \E err \in Contexts : Return(err)

\* Mutant: the keyboard stays with the process that ends.
process_switch_to_any_Nobody == UNCHANGED current_process

\* The live process in the lowest slot gets the keyboard.
process_switch_to_any ==
  /\ current_process' \in processes'
  /\ \A u \in processes' : current_process' <= u

\* process_terminate and task_next: exit (system call 9) and every fault in ring 3.
process_terminate ==
  /\ pc = "user"
  /\ LET t   == current_task
         l   == task_list_remove(list, t)
         cur == CurrentAfterRemove(list, t, current_task)
     IN  /\ list' = l
         /\ processes' = processes \ {t}
         /\ wake_tick' = [wake_tick EXCEPT ![t] = 0]   \* the task's memory is
         /\ saved' = [saved EXCEPT ![t] = 0]           \* freed: forget it
         /\ ctx' = [ctx EXCEPT ![t] = 0]
         /\ UNCHANGED <<state, jiffies, irr, isr, slept>>
         /\ \/ /\ current_process # t
               /\ UNCHANGED current_process
               /\ task_next(l, cur, state, saved)
            \/ /\ current_process = t
               /\ processes' # {}
               /\ process_switch_to_any
               /\ task_next(l, cur, state, saved)
            \/ /\ current_process = t
               /\ processes' = {}
               /\ pc' = "panic"
               /\ cr3' = KERNEL
               /\ current_task' = cur
               /\ UNCHANGED <<current_process, eax>>

-------------------------------------------------------------------------------
(* Interrupts *)

\* Mutant: the EOI is missing.
pic_send_eoi_None(s) == s

\* A non-specific EOI ends the interrupt in service with the highest priority.
pic_send_eoi(s) == {i \in s : \E j \in s : j < i}

Deliverable(irq) ==
  /\ irq \in irr
  /\ InterruptsOn
  /\ \A i \in isr : irq < i

\* The channel 0 output: a period of the timer has ended.  A request that is
\* still waiting swallows this one.
PitFires ==
  /\ pc # "panic"
  /\ irr' = irr \cup {TIMER}
  /\ slept' = [t \in Slots |->
                 IF t \in processes /\ state[t] = SLEEPING /\ slept[t].elapsed < MaxElapsed
                 THEN [slept[t] EXCEPT !.elapsed = @ + 1] ELSE slept[t]]
  /\ TIMER \in irr => slept' # slept
  /\ UNCHANGED <<taskVars, current_task, current_process, jiffies, cpuVars, isr, ctx>>

KeyPressed ==
  /\ pc # "panic"
  /\ KEYBOARD \notin irr
  /\ irr' = irr \cup {KEYBOARD}
  /\ UNCHANGED <<taskVars, current_task, current_process, jiffies, cpuVars, isr, history>>

\* The idle loop was interrupted: hlt is over, any other place is gone back to.
ResumeIdle == pc' = IF pc = "halted" THEN "woken" ELSE pc

NextTick == (jiffies + 1) % TickWord

\* interrupt_handler for the timer, with pit_tick.  From ring 3 pit_tick sends
\* the EOI itself, because task_next does not come back.
pit_tick ==
  /\ Deliverable(TIMER)
  /\ irr' = irr \ {TIMER}
  /\ isr' = pic_send_eoi(isr \cup {TIMER})
  /\ jiffies' = NextTick
  /\ state' = task_wake_sleepers(jiffies')
  /\ \/ /\ pc = "user"
        /\ saved' = [saved EXCEPT ![current_task] = eax]
        /\ task_next(list, current_task, state', saved')
     \/ /\ Idle
        /\ ResumeIdle
        /\ cr3' = KERNEL
        /\ UNCHANGED <<saved, current_task, eax>>
  /\ slept' = [t \in Slots |-> IF state'[t] = RUNNABLE THEN NoSleep ELSE slept[t]]
  /\ UNCHANGED <<processes, list, wake_tick, current_process, ctx>>

\* Mutant: the registers are saved also when the idle loop was interrupted.
keyboard_interrupt_SavesIdle ==
  /\ Deliverable(KEYBOARD)
  /\ irr' = irr \ {KEYBOARD}
  /\ isr' = pic_send_eoi(isr \cup {KEYBOARD})
  /\ saved' = [saved EXCEPT ![current_task] = eax]
  /\ \/ pc = "user" /\ cr3' = current_task /\ UNCHANGED pc
     \/ Idle /\ ResumeIdle /\ cr3' = KERNEL
  /\ UNCHANGED <<processes, list, state, wake_tick, current_task, current_process,
                 jiffies, eax, ctx, slept>>

\* interrupt_handler for the keyboard, whose callback touches no task.
keyboard_interrupt ==
  /\ Deliverable(KEYBOARD)
  /\ irr' = irr \ {KEYBOARD}
  /\ isr' = pic_send_eoi(isr \cup {KEYBOARD})
  /\ \/ /\ pc = "user"
        /\ saved' = [saved EXCEPT ![current_task] = eax]
        /\ cr3' = current_task
        /\ UNCHANGED pc
     \/ /\ Idle
        /\ ResumeIdle
        /\ cr3' = KERNEL
        /\ UNCHANGED saved
  /\ UNCHANGED <<processes, list, state, wake_tick, current_task, current_process,
                 jiffies, eax, ctx, slept>>

\* An NMI switches tasks in ring 3 and returns in ring 0, where it also ends the
\* protection that sti gives the next instruction.
nmi ==
  \/ /\ pc = "user"
     /\ saved' = [saved EXCEPT ![current_task] = eax]
     /\ task_next(list, current_task, state, saved')
     /\ UNCHANGED <<processes, list, state, wake_tick, current_process, jiffies,
                    irr, isr, history>>
  \/ /\ pc \in {"shadow", "halted"}
     /\ pc' = IF pc = "shadow" THEN "unshielded" ELSE "woken"
     /\ UNCHANGED <<taskVars, current_task, current_process, jiffies, cr3, eax,
                    irr, isr, history>>

-------------------------------------------------------------------------------
(* The idle loop of task_next and IRQ_ON_AND_PAUSE: sti; hlt; cli. *)

Look ==
  /\ pc = "look"
  /\ \/ /\ task_get_next(list, current_task, state) # NULL
        /\ task_next(list, current_task, state, saved)
     \/ /\ task_get_next(list, current_task, state) = NULL
        /\ pc' = "shadow"
        /\ UNCHANGED <<current_task, cr3, eax>>
  /\ UNCHANGED <<taskVars, current_process, jiffies, irr, isr, history>>

\* The next of the loop's instructions.
Step(from, to) ==
  /\ pc = from
  /\ pc' = to
  /\ UNCHANGED <<taskVars, current_task, current_process, jiffies, cr3, eax, irr, isr, history>>

IRQ_ON_AND_PAUSE ==
  \/ Step("shadow", "halted")
  \/ Step("unshielded", "halted")
  \/ Step("woken", "look")

\* PANIC: cli and hlt for good.
Stopped ==
  /\ pc = "panic"
  /\ UNCHANGED vars

-------------------------------------------------------------------------------
UserStep ==
  \/ Compute
  \/ \E ms \in Milliseconds : isr80h_command_sleep(ms)
  \/ \E t \in Slots : process_load(t)
  \/ process_load_fails
  \/ process_terminate

Next ==
  \/ UserStep
  \/ PitFires
  \/ KeyPressed
  \/ pit_tick
  \/ keyboard_interrupt
  \/ nmi
  \/ Look
  \/ IRQ_ON_AND_PAUSE
  \/ Stopped

Spec == Init /\ [][Next]_vars

\* The timer keeps running, a request that waits is taken once interrupts are on
\* often enough, and the CPU executes the instructions of the idle loop.  Nothing
\* is assumed of the programs, of the keyboard or of NMIs.
Fairness ==
  /\ WF_vars(PitFires)
  /\ SF_vars(pit_tick)
  /\ SF_vars(keyboard_interrupt)
  /\ WF_vars(Look)
  /\ WF_vars(IRQ_ON_AND_PAUSE)

FairSpec == Spec /\ Fairness

-------------------------------------------------------------------------------
(* Properties *)

\* Types of the scheduler's state (task.h, process.h, pit.c).
TypeOK ==
  /\ processes \subseteq Slots
  /\ list \in List
  /\ state \in [Slots -> {RUNNABLE, SLEEPING}]
  /\ wake_tick \in [Slots -> 0 .. TickWord - 1]
  /\ saved \in [Slots -> Contexts]
  /\ current_task \in Slots \cup {NULL}
  /\ current_process \in Slots
  /\ jiffies \in 0 .. TickWord - 1
  /\ cr3 \in Slots \cup {KERNEL}
  /\ eax \in Contexts
  /\ pc \in CpuStates
  /\ irr \subseteq {TIMER, KEYBOARD}
  /\ isr \subseteq {TIMER, KEYBOARD}
  /\ ctx \in [Slots -> Contexts]
  /\ slept \in [Slots -> [ms : Nat, elapsed : 0 .. MaxElapsed]]

\* The list l is doubly linked, from its head to its tail, over the tasks P.
Linked(l, P) ==
  /\ \A t \in P :
       /\ l.next[t] # NULL => l.next[t] \in P /\ l.prev[l.next[t]] = t
       /\ l.prev[t] # NULL => l.prev[t] \in P /\ l.next[l.prev[t]] = t
       /\ l.next[t] = NULL <=> l.tail = t
       /\ l.prev[t] = NULL <=> l.head = t
  /\ \A t \in Slots \ P : l.next[t] = NULL /\ l.prev[t] = NULL
  /\ IF P = {} THEN l.head = NULL /\ l.tail = NULL ELSE l.head \in P /\ l.tail \in P

\* task_publish and task_list_remove keep the task list linked over exactly the
\* tasks of the live processes, and the current task is one of them while there
\* is one: the successor steps in when it is freed.
WellLinked ==
  /\ Linked(list, processes)
  /\ IF processes = {} THEN current_task = NULL ELSE current_task \in processes

\* A program only ever runs as the current, runnable task, in its own page
\* directory; the idle loop stays in the kernel's; and no page directory is in
\* cr3 once process_terminate has freed it.
RightAddressSpace ==
  /\ pc = "user" => /\ current_task \in processes
                    /\ state[current_task] = RUNNABLE
                    /\ cr3 = current_task
  /\ pc # "user" => cr3 = KERNEL

\* process_current, which gets the keys, is a live process until the PANIC for
\* want of any: process_unlink passes the keyboard on when its owner ends.
KeyboardOwnerLives ==
  /\ pc # "panic" => current_process \in processes
  /\ pc = "panic" <=> processes = {}

\* A program finds its registers as it left them, whatever ran or slept between:
\* no interrupt of the idle loop is saved over the registers of the sleeping
\* current task, and a sleep gives 0.
RegistersSurvive ==
  \A t \in processes :
    IF pc = "user" /\ t = current_task THEN eax = ctx[t] ELSE saved[t] = ctx[t]

\* A sleeping task's deadline lies ahead, also across the wrap of the counter:
\* the tick that reaches it wakes the task (task_wake_sleepers).
SleepersAhead ==
  \A t \in processes : state[t] = SLEEPING => ~ Due(jiffies, wake_tick[t])

\* A task that is woken has slept for so many whole periods of the timer as its
\* milliseconds take.
WokenInTime ==
  \A t \in processes :
    state[t] = SLEEPING /\ state'[t] = RUNNABLE => slept[t].elapsed - 1 >= CeilTicks(slept[t].ms)

\* Every interrupt is acknowledged before the CPU leaves its handler, the tick's
\* from ring 3 included, which leaves through task_next.
NothingLeftInService == isr = {}

\* The clock never stops short of a PANIC: neither a missing EOI nor a halt that
\* nothing ends (the idle loop's sti; hlt; cli) keeps ticks from being counted.
ClockRuns == []<>(pc = "panic") \/ []<><<pit_tick>>_vars

\* Every sleeping task is woken, and the clock that wakes it runs on.
SleepersWake ==
  /\ ClockRuns
  /\ \A t \in Slots : (t \in processes /\ state[t] = SLEEPING) ~> (state[t] = RUNNABLE)

\* Unless processes keep ending, every runnable task gets the CPU again, whatever
\* the others do: sleep, spin, start programs or take NMIs.
RoundRobin ==
  <>[][~ process_terminate]_vars =>
    \A t \in Slots : []<>(t \in processes /\ state[t] = RUNNABLE => pc = "user" /\ current_task = t)

\* The round robin the README describes ("a round-robin task switch on every timer
\* tick", a task "waits for its turn"): every runnable task gets the CPU again,
\* also when processes keep ending.
EveryTaskGetsItsTurn ==
  \A t \in Slots :
    (t \in processes /\ state[t] = RUNNABLE) ~> (pc = "user" /\ current_task = t)
================================================================================
