---------------------------- MODULE SchedulerProofs ----------------------------
(***************************************************************************)
(* The scheduler's safety properties, for any number of process slots.     *)
(*                                                                         *)
(* Linked speaks of neighbours only, and a list that satisfies it could    *)
(* still hide a ring of tasks that neither end reaches; removing the last  *)
(* task of the rest would then leave a head that is NULL with processes    *)
(* alive.  The inductive invariant therefore adds that the links follow an *)
(* order: in the code that of task->id, which task_new counts up.          *)
(***************************************************************************)
EXTENDS Scheduler, Iteration

\* Some numbering of the tasks grows along the list.
Ordered(l, P) ==
  \E id \in [Slots -> Nat] : \A t \in P : l.next[t] # NULL => id[t] < id[l.next[t]]

-------------------------------------------------------------------------------
(* The list *)

\* NULL and the kernel's directory are no slots.
LEMMA SlotsAreInts == NULL \notin Slots /\ KERNEL \notin Slots /\ KERNEL # NULL
BY SchedulerAssumption DEF Slots, NULL, KERNEL

\* A task that is head and tail is alone on an ordered list.
LEMMA AloneOnList ==
  ASSUME NEW l \in List, NEW P \in SUBSET Slots, Linked(l, P), Ordered(l, P),
         NEW t \in P, l.next[t] = NULL, l.prev[t] = NULL
  PROVE  P = {t}
<1>1. PICK id \in [Slots -> Nat] : \A u \in P : l.next[u] # NULL => id[u] < id[l.next[u]]
  BY DEF Ordered
<1>2. SUFFICES ASSUME P \ {t} # {} PROVE FALSE
  OBVIOUS
<1> DEFINE Ids == {id[u] : u \in P \ {t}}
<1>3. PICK n \in Ids : \A m \in Ids : n <= m
  <2>1. Ids \in SUBSET Nat /\ Ids # {}
    BY <1>1, <1>2
  <2> HIDE DEF Ids
  <2> QED
    BY <2>1, LeastNatural
<1>4. PICK u \in P \ {t} : n = id[u]
  BY <1>3
<1>5. l.head = t
  BY DEF Linked
<1>6. l.prev[u] # NULL
  BY <1>4, <1>5 DEF Linked
<1> DEFINE v == l.prev[u]
<1>7. v \in P /\ l.next[v] = u
  BY <1>4, <1>6 DEF Linked
<1>8. v # t /\ u # NULL
  BY <1>4, <1>7, SlotsAreInts
<1>9. id[v] < id[u]
  BY <1>1, <1>7, <1>8
<1>10. id[v] \in Ids
  BY <1>7, <1>8
<1>11. id[u] \in Nat /\ id[v] \in Nat
  BY <1>1, <1>4, <1>7
<1> HIDE DEF Ids, v
<1>12. id[u] <= id[v]
  BY ONLY <1>3, <1>4, <1>10
<1> QED
  BY ONLY <1>9, <1>11, <1>12

\* task_publish keeps the list linked and ordered, with the new task as its tail.
LEMMA PublishKeepsList ==
  ASSUME NEW l \in List, NEW P \in SUBSET Slots, Linked(l, P), Ordered(l, P),
         P # {}, NEW t \in Slots \ P
  PROVE  /\ task_publish(l, t) \in List
         /\ Linked(task_publish(l, t), P \cup {t})
         /\ Ordered(task_publish(l, t), P \cup {t})
<1> DEFINE m == task_publish(l, t)
<1>1. l.head # NULL /\ l.tail \in P /\ l.tail # t
  BY SlotsAreInts DEF Linked
<1>2. m = [head |-> l.head, tail |-> t,
           next |-> [l.next EXCEPT ![l.tail] = t],
           prev |-> [l.prev EXCEPT ![t] = l.tail]]
  BY <1>1 DEF task_publish, List
<1>3. m \in List
  BY <1>1, <1>2 DEF List
<1>4. /\ m.head = l.head
      /\ m.tail = t
      /\ \A u \in Slots : m.next[u] = IF u = l.tail THEN t ELSE l.next[u]
      /\ \A u \in Slots : m.prev[u] = IF u = t THEN l.tail ELSE l.prev[u]
  BY <1>2 DEF List
<1> HIDE DEF m
<1>5. Linked(m, P \cup {t})
  BY <1>1, <1>4, SlotsAreInts DEF Linked
<1>6. Ordered(m, P \cup {t})
  <2>1. PICK id \in [Slots -> Nat] : \A u \in P : l.next[u] # NULL => id[u] < id[l.next[u]]
    BY DEF Ordered
  <2> DEFINE id2 == [id EXCEPT ![t] = id[l.tail] + 1]
  <2>2. id2 \in [Slots -> Nat]
    BY <2>1, <1>1
  <2>3. ASSUME NEW u \in P \cup {t}, m.next[u] # NULL PROVE id2[u] < id2[m.next[u]]
    <3>1. l.next[t] = NULL
      BY DEF Linked
    <3>2. u # t
      BY <2>3, <3>1, <1>1, <1>4
    <3>3. CASE u = l.tail
      BY <3>2, <3>3, <1>1, <1>4, <2>1
    <3>4. CASE u # l.tail
      <4>1. m.next[u] = l.next[u] /\ l.next[u] \in P
        BY <3>2, <3>4, <2>3, <1>4 DEF Linked
      <4>2. l.next[u] # t
        BY <4>1
      <4> QED
        BY <4>1, <4>2, <3>2, <2>1, <2>3
    <3> QED
      BY <3>3, <3>4
  <2> QED
    BY <2>2, <2>3 DEF Ordered
<1> QED
  BY <1>3, <1>5, <1>6 DEF m

\* task_list_remove keeps the list linked and ordered over the other tasks.
LEMMA RemoveKeepsList ==
  ASSUME NEW l \in List, NEW P \in SUBSET Slots, Linked(l, P), Ordered(l, P),
         NEW t \in P
  PROVE  /\ task_list_remove(l, t) \in List
         /\ Linked(task_list_remove(l, t), P \ {t})
         /\ Ordered(task_list_remove(l, t), P \ {t})
         /\ IF P \ {t} = {} THEN CurrentAfterRemove(l, t, t) = NULL
                            ELSE CurrentAfterRemove(l, t, t) \in P \ {t}
<1> DEFINE m == task_list_remove(l, t)
<1>1. /\ m \in List
      /\ m.head = IF t = l.head THEN l.next[t] ELSE l.head
      /\ m.tail = IF t = l.tail THEN l.prev[t] ELSE l.tail
      /\ \A u \in Slots : m.next[u] = IF u = t THEN NULL
                                      ELSE IF u = l.prev[t] THEN l.next[t] ELSE l.next[u]
      /\ \A u \in Slots : m.prev[u] = IF u = t THEN NULL
                                      ELSE IF u = l.next[t] THEN l.prev[t] ELSE l.prev[u]
  BY DEF task_list_remove, List
<1>2. l.next[t] # t /\ l.prev[t] # t
  <2>1. PICK id \in [Slots -> Nat] : \A u \in P : l.next[u] # NULL => id[u] < id[l.next[u]]
    BY DEF Ordered
  <2>2. l.next[t] # t
    <3>1. id[t] \in Nat /\ t # NULL
      BY <2>1, SlotsAreInts
    <3> QED
      BY <2>1, <3>1
  <2> QED
    BY <2>2, SlotsAreInts DEF Linked
<1>3. l.next[t] = NULL /\ l.prev[t] = NULL => P = {t}
  BY AloneOnList
<1>4. CurrentAfterRemove(l, t, t) = IF l.next[t] # NULL THEN l.next[t] ELSE m.head
  BY DEF CurrentAfterRemove
<1> HIDE DEF m
<1>5. P # {} /\ l.head \in P /\ l.tail \in P
  BY DEF Linked
<1>6. IF P \ {t} = {} THEN m.head = NULL /\ m.tail = NULL
                      ELSE m.head \in P \ {t} /\ m.tail \in P \ {t}
  BY <1>1, <1>2, <1>3, <1>5, SlotsAreInts DEF Linked
<1>7. ASSUME NEW u \in P \ {t}
      PROVE  /\ m.next[u] # NULL => m.next[u] \in P \ {t} /\ m.prev[m.next[u]] = u
             /\ m.next[u] = NULL <=> m.tail = u
  BY <1>1, <1>2, <1>5, SlotsAreInts DEF Linked
<1>8. ASSUME NEW u \in P \ {t}
      PROVE  /\ m.prev[u] # NULL => m.prev[u] \in P \ {t} /\ m.next[m.prev[u]] = u
             /\ m.prev[u] = NULL <=> m.head = u
  BY <1>1, <1>2, <1>5, SlotsAreInts DEF Linked
<1>9. \A u \in Slots \ (P \ {t}) : m.next[u] = NULL /\ m.prev[u] = NULL
  BY <1>1, SlotsAreInts DEF Linked
<1>10. Linked(m, P \ {t})
  BY <1>6, <1>7, <1>8, <1>9 DEF Linked
<1>11. Ordered(m, P \ {t})
  <2>1. PICK id \in [Slots -> Nat] : \A u \in P : l.next[u] # NULL => id[u] < id[l.next[u]]
    BY DEF Ordered
  <2>2. ASSUME NEW u \in P \ {t}, m.next[u] # NULL PROVE id[u] < id[m.next[u]]
    <3>1. CASE u # l.prev[t]
      BY <1>1, <2>1, <2>2, <3>1
    <3>2. CASE u = l.prev[t]
      <4>1. m.next[u] = l.next[t] /\ l.next[u] = t /\ l.next[t] \in P /\ t # NULL
        BY <1>1, <2>2, <3>2, SlotsAreInts DEF Linked
      <4>2. id[u] < id[t] /\ id[t] < id[l.next[t]]
        BY <2>1, <2>2, <4>1
      <4>3. id[u] \in Nat /\ id[t] \in Nat /\ id[l.next[t]] \in Nat
        BY <2>1, <4>1
      <4> QED
        BY <4>1, <4>2, <4>3
    <3> QED
      BY <3>1, <3>2
  <2> QED
    BY <2>1, <2>2 DEF Ordered
<1>12. IF P \ {t} = {} THEN CurrentAfterRemove(l, t, t) = NULL
                       ELSE CurrentAfterRemove(l, t, t) \in P \ {t}
  BY <1>2, <1>4, <1>6, SlotsAreInts DEF Linked
<1> QED
  BY <1>1, <1>10, <1>11, <1>12 DEF m

\* The scan of task_get_next meets tasks of the list only.
LEMMA ScanStaysOnList ==
  ASSUME NEW l \in List, NEW P \in SUBSET Slots, Linked(l, P), P # {},
         NEW cur \in P
  PROVE  Scan(l, cur) \in [0 .. MaxProcesses - 1 -> P]
<1> DEFINE start == IF cur # NULL /\ l.next[cur] # NULL THEN l.next[cur] ELSE l.head
           g == [t \in P |-> Follow(l, t)]
           last == MaxProcesses - 1
           D == 0 .. last
           IsScan(f) == f = [k \in D |-> IF k = 0 THEN start ELSE Follow(l, f[k - 1])]
<1>1. start \in P /\ g \in [P -> P]
  BY DEF Linked, Follow
<1>2. last \in Nat
  BY SchedulerAssumption
<1>3. PICK f : IsIteration(f, P, g, start, last)
  <2> HIDE DEF start, g, last
  <2> QED
    BY <1>1, <1>2, IterationExists
<1>4. IsScan(f)
  <2>1. f \in [D -> P] /\ f[0] = start
    BY <1>3 DEF IsIteration
  <2>2. ASSUME NEW k \in D, k # 0 PROVE f[k] = Follow(l, f[k - 1])
    <3>1. k - 1 \in D /\ f[k] = g[f[k - 1]]
      BY <1>2, <1>3, <2>2 DEF IsIteration
    <3> QED
      BY <2>1, <3>1
  <2> HIDE DEF start, g
  <2> QED
    BY <2>1, <2>2
<1> DEFINE h == Scan(l, cur)
<1>5. IsScan(h)
  <2>1. h = CHOOSE f1 : IsScan(f1)
    BY DEF Scan
  <2> HIDE DEF IsScan, h
  <2> QED
    BY <1>4, <2>1
<1>6. DOMAIN h = D /\ \A k \in D : h[k] = IF k = 0 THEN start ELSE Follow(l, h[k - 1])
  <2> HIDE DEF h, start
  <2> QED
    BY <1>5
<1>7. D \subseteq {k \in D : h[k] \in P}
  <2> DEFINE Q == {k \in D : h[k] \in P}
  <2>1. 0 \in Q
    BY <1>1, <1>2, <1>6
  <2>2. ASSUME NEW n \in 0 .. (MaxProcesses - 1) - 1, n \in Q PROVE n + 1 \in Q
    <3>1. n + 1 \in D /\ n + 1 # 0 /\ (n + 1) - 1 = n
      BY <1>2
    <3>2. h[n + 1] = Follow(l, h[n])
      <4> HIDE DEF h, start, D
      <4> QED
        BY <1>6, <3>1
    <3> QED
      BY <2>2, <3>1, <3>2 DEF Linked, Follow
  <2> HIDE DEF Q
  <2>3. 0 .. MaxProcesses - 1 \subseteq Q
    BY <1>2, <2>1, <2>2, BoundedInduction
  <2> QED
    BY <2>3 DEF Q
<1> HIDE DEF h
<1>8. h = [k \in D |-> h[k]]
  BY <1>5
<1> QED
  BY <1>7, <1>8 DEF h

\* task_get_next finds a runnable task of the list, or none.
LEMMA NextIsOnList ==
  ASSUME NEW l \in List, NEW P \in SUBSET Slots, Linked(l, P), P # {},
         NEW cur \in P, NEW st
  PROVE  LET n == task_get_next(l, cur, st)
         IN  n # NULL => n \in P /\ st[n] = RUNNABLE
<1> DEFINE scan == Scan(l, cur)
           found == {k \in DOMAIN scan : st[scan[k]] = RUNNABLE}
           best == CHOOSE k \in found : \A j \in found : k <= j
<1>1. scan \in [0 .. MaxProcesses - 1 -> P]
  BY ScanStaysOnList
<1>2. l.head # NULL
  BY SlotsAreInts DEF Linked
<1>3. task_get_next(l, cur, st) = IF found = {} THEN NULL ELSE scan[best]
  BY <1>2 DEF task_get_next
<1>4. ASSUME found # {} PROVE best \in found
  <2>1. found \in SUBSET Nat
    BY <1>1, SchedulerAssumption
  <2>2. \E k \in found : \A j \in found : k <= j
    BY <2>1, <1>4, LeastNatural
  <2> HIDE DEF found
  <2> QED
    BY <2>2
<1>5. ASSUME found # {} PROVE scan[best] \in P /\ st[scan[best]] = RUNNABLE
  <2>1. best \in found
    BY <1>4, <1>5
  <2> HIDE DEF best, scan
  <2> QED
    BY <1>1, <2>1
<1> HIDE DEF found, best, scan
<1> QED
  BY <1>3, <1>5

-------------------------------------------------------------------------------
(* The invariant *)

\* What the invariants come down to, with the order of the list.
Inv ==
  /\ TypeOK
  /\ WellLinked
  /\ Ordered(list, processes)
  /\ RightAddressSpace
  /\ KeyboardOwnerLives
  /\ RegistersSurvive
  /\ NothingLeftInService

\* A remainder modulo the width is a tick; pit_ms_to_ticks gives a natural number, 0
\* only for 0.
LEMMA TickArithmetic ==
  /\ \A x \in Nat : x % TickWord \in 0 .. TickWord - 1
  /\ \A ms \in Nat : pit_ms_to_ticks(ms) \in Nat
  /\ \A ms \in Nat \ {0} : pit_ms_to_ticks(ms) > 0
<1>1. \A x \in Nat : x % TickWord \in 0 .. TickWord - 1
  BY SchedulerAssumption
<1>2. ASSUME NEW ms \in Nat PROVE CeilTicks(ms) \in Nat
  <2>1. Hz \in Nat
    BY SchedulerAssumption
  <2> DEFINE a == ms \div 1000
             b == ms % 1000
             c == b * Hz + 999
  <2>2. a \in Nat /\ b \in Nat
    OBVIOUS
  <2>3. a * Hz \in Nat /\ c \in Nat
    <3> HIDE DEF a, b
    <3> QED
      BY <2>1, <2>2
  <2>4. c \div 1000 \in Nat
    <3> HIDE DEF c
    <3> QED
      BY <2>3
  <2>5. CeilTicks(ms) = a * Hz + (c \div 1000)
    BY DEF CeilTicks
  <2> HIDE DEF a, b, c
  <2> QED
    BY <2>3, <2>4, <2>5
<1> QED
  BY <1>1, <1>2 DEF pit_ms_to_ticks, PIT_SLEEP_GUARD_TICKS

\* task_next runs a runnable task of the list with its saved registers, or idles.
LEMMA TaskNextRuns ==
  ASSUME NEW l \in List, NEW P \in SUBSET Slots, Linked(l, P), P # {},
         NEW cur \in P, NEW st, NEW sv, task_next(l, cur, st, sv)
  PROVE  /\ current_task' \in P
         /\ \/ /\ pc' = "user"
               /\ st[current_task'] = RUNNABLE
               /\ cr3' = current_task'
               /\ eax' = sv[current_task']
            \/ /\ pc' = "look"
               /\ cr3' = KERNEL
               /\ eax' = eax
BY NextIsOnList DEF task_next

\* kernel_main hands over with the invariant established.
LEMMA InitInv == Init => Inv
<1> SUFFICES ASSUME Init PROVE Inv
  OBVIOUS
<1>1. 0 \in Slots
  BY SchedulerAssumption DEF Slots
<1>2. list = [head |-> 0, tail |-> 0, next |-> [t \in Slots |-> NULL],
              prev |-> [t \in Slots |-> NULL]]
  BY DEF Init, task_publish, EmptyList
<1>3. list \in List
  BY <1>1, <1>2 DEF List
<1>4. TypeOK
  BY <1>1, <1>3, SchedulerAssumption DEF Init, TypeOK, CpuStates, NoSleep
<1>5. WellLinked
  BY <1>1, <1>2, SlotsAreInts DEF Init, WellLinked, Linked
<1>6. Ordered(list, processes)
  <2> DEFINE id == [t \in Slots |-> 0]
  <2>1. id \in [Slots -> Nat] /\ \A t \in processes : list.next[t] = NULL
    BY <1>1, <1>2 DEF Init
  <2> QED
    BY <2>1 DEF Ordered
<1>7. RightAddressSpace /\ KeyboardOwnerLives /\ RegistersSurvive /\ NothingLeftInService
  BY <1>1 DEF Init, RightAddressSpace, KeyboardOwnerLives, RegistersSurvive,
              NothingLeftInService
<1> QED
  BY <1>4, <1>5, <1>6, <1>7 DEF Inv

\* While a program runs, its task is on the list.
LEMMA UserFacts ==
  ASSUME Inv, pc = "user"
  PROVE  /\ current_task \in processes
         /\ current_task \in Slots
         /\ processes # {}
         /\ processes \in SUBSET Slots
         /\ list \in List
         /\ Linked(list, processes)
         /\ state[current_task] = RUNNABLE
         /\ cr3 = current_task
         /\ eax = ctx[current_task]
BY DEF Inv, TypeOK, WellLinked, RightAddressSpace, RegistersSurvive

\* A system call that only returns a result keeps the invariant.
LEMMA ReturnKeepsInv ==
  ASSUME Inv, pc = "user", NEW res \in Contexts, Return(res)
  PROVE  Inv'
<1>1. TypeOK'
  BY UserFacts DEF Inv, TypeOK, Return
<1>2. WellLinked' /\ Ordered(list, processes)'
  BY DEF Inv, WellLinked, Linked, Ordered, Return
<1>3. (RightAddressSpace /\ KeyboardOwnerLives /\ RegistersSurvive /\ NothingLeftInService)'
  BY UserFacts DEF Inv, TypeOK, Return, RightAddressSpace, KeyboardOwnerLives,
                   RegistersSurvive, NothingLeftInService
<1> QED
  BY <1>1, <1>2, <1>3 DEF Inv

\* isr80h_command_sleep keeps the invariant.
LEMMA SleepKeepsInv ==
  ASSUME Inv, NEW ms \in Milliseconds, isr80h_command_sleep(ms)
  PROVE  Inv'
<1>1. pc = "user"
  BY DEF isr80h_command_sleep
<1>2. CASE ms > MaxSleepMs /\ Return(-EINVARG)
  BY <1>1, <1>2, ReturnKeepsInv, SchedulerAssumption
<1>3. CASE ms = 0 /\ Return(0)
  BY <1>1, <1>3, ReturnKeepsInv, SchedulerAssumption
<1>4. CASE ~ (ms > MaxSleepMs /\ Return(-EINVARG)) /\ ~ (ms = 0 /\ Return(0))
  <2>1. /\ wake_tick' = [wake_tick EXCEPT ![current_task] =
                           (jiffies + pit_ms_to_ticks(ms)) % TickWord]
        /\ state' = [state EXCEPT ![current_task] = SLEEPING]
        /\ saved' = [saved EXCEPT ![current_task] = 0]
        /\ task_next(list, current_task, state', saved')
        /\ ctx' = [ctx EXCEPT ![current_task] = 0]
        /\ slept' = [slept EXCEPT ![current_task] = [ms |-> ms, elapsed |-> 0]]
        /\ UNCHANGED <<processes, list, current_process, jiffies, irr, isr>>
    BY <1>4 DEF isr80h_command_sleep
  <2>2. /\ current_task' \in processes
        /\ \/ /\ pc' = "user"
              /\ state'[current_task'] = RUNNABLE
              /\ cr3' = current_task'
              /\ eax' = saved'[current_task']
           \/ /\ pc' = "look"
              /\ cr3' = KERNEL
              /\ eax' = eax
    BY <1>1, <2>1, UserFacts, TaskNextRuns, ZenonT(40)
  <2>3. TypeOK'
    <3>1. (jiffies + pit_ms_to_ticks(ms)) % TickWord \in 0 .. TickWord - 1
      <4> DEFINE x == jiffies + pit_ms_to_ticks(ms)
      <4>1. ms \in Nat /\ jiffies \in Nat
        BY SchedulerAssumption DEF Inv, TypeOK
      <4>2. x \in Nat
        BY <4>1, TickArithmetic
      <4> HIDE DEF x
      <4>3. x % TickWord \in 0 .. TickWord - 1
        BY <4>2, TickArithmetic
      <4> QED
        BY <4>3 DEF x
    <3>2. slept' \in [Slots -> [ms : Nat, elapsed : 0 .. MaxElapsed]]
      BY <1>1, <2>1, UserFacts, SchedulerAssumption, SMTT(30) DEF Inv, TypeOK
    <3>3. saved' \in [Slots -> Contexts] /\ ctx' \in [Slots -> Contexts]
      BY <1>1, <2>1, UserFacts, SchedulerAssumption DEF Inv, TypeOK
    <3>4. state' \in [Slots -> {RUNNABLE, SLEEPING}]
      BY <1>1, <2>1, UserFacts DEF Inv, TypeOK
    <3>5. eax' \in Contexts /\ cr3' \in Slots \cup {KERNEL} /\ pc' \in CpuStates
          /\ current_task' \in Slots
      BY <2>2, <3>3, <1>1, UserFacts DEF Inv, TypeOK, CpuStates
    <3> QED
      BY <2>1, <3>1, <3>2, <3>3, <3>4, <3>5 DEF Inv, TypeOK
  <2>4. WellLinked' /\ Ordered(list, processes)'
    BY <2>1, <2>2 DEF Inv, WellLinked, Linked, Ordered
  <2>5. RightAddressSpace' /\ KeyboardOwnerLives' /\ NothingLeftInService'
    BY <1>1, <2>1, <2>2 DEF Inv, RightAddressSpace, KeyboardOwnerLives, NothingLeftInService
  <2>6. RegistersSurvive'
    <3> SUFFICES ASSUME NEW t \in processes
                 PROVE  IF pc' = "user" /\ t = current_task' THEN eax' = ctx'[t]
                                                              ELSE saved'[t] = ctx'[t]
      BY <2>1 DEF RegistersSurvive
    <3>1. saved'[t] = ctx'[t]
      BY <1>1, <2>1, UserFacts DEF Inv, TypeOK, RegistersSurvive
    <3> QED
      BY <2>2, <3>1
  <2> QED
    BY <2>3, <2>4, <2>5, <2>6 DEF Inv
<1> QED
  BY <1>2, <1>3, <1>4

\* process_load keeps the invariant.
LEMMA LoadKeepsInv ==
  ASSUME Inv, NEW t \in Slots, process_load(t)
  PROVE  Inv'
<1>1. pc = "user" /\ t \in Slots \ processes
  BY DEF process_load
<1>2. /\ processes' = processes \cup {t}
      /\ list' = task_publish(list, t)
      /\ current_task' = t
      /\ current_process' = t
      /\ cr3' = t
      /\ eax' = 0
      /\ pc' = "user"
      /\ state' = [state EXCEPT ![t] = RUNNABLE]
      /\ wake_tick' = [wake_tick EXCEPT ![t] = 0]
      /\ saved' = [saved EXCEPT ![current_task] = eax, ![t] = 0]
      /\ ctx' = [ctx EXCEPT ![t] = 0]
      /\ UNCHANGED <<jiffies, irr, isr, slept>>
  BY <1>1 DEF process_load
<1>3. list' \in List /\ Linked(list', processes') /\ Ordered(list', processes')
  BY <1>1, <1>2, UserFacts, PublishKeepsList DEF Inv
<1>4. TypeOK'
  <2>1. saved' \in [Slots -> Contexts] /\ ctx' \in [Slots -> Contexts] /\ eax' \in Contexts
    BY <1>1, <1>2, UserFacts, SchedulerAssumption DEF Inv, TypeOK
  <2>2. wake_tick' \in [Slots -> 0 .. TickWord - 1] /\ state' \in [Slots -> {RUNNABLE, SLEEPING}]
    BY <1>1, <1>2, SchedulerAssumption DEF Inv, TypeOK
  <2> QED
    BY <1>1, <1>2, <1>3, <2>1, <2>2 DEF Inv, TypeOK
<1>5. WellLinked' /\ Ordered(list, processes)'
  BY <1>1, <1>2, <1>3 DEF WellLinked
<1>6. RightAddressSpace' /\ KeyboardOwnerLives' /\ NothingLeftInService'
  BY <1>1, <1>2 DEF Inv, TypeOK, RightAddressSpace, KeyboardOwnerLives, NothingLeftInService
<1>7. RegistersSurvive'
  BY <1>1, <1>2, UserFacts DEF Inv, TypeOK, RegistersSurvive
<1> QED
  BY <1>4, <1>5, <1>6, <1>7 DEF Inv

\* process_terminate keeps the invariant.
LEMMA TerminateKeepsInv ==
  ASSUME Inv, process_terminate
  PROVE  Inv'
<1> DEFINE t == current_task
           l == task_list_remove(list, t)
           cur == CurrentAfterRemove(list, t, t)
           Q == processes \ {t}
<1>1. pc = "user"
  BY DEF process_terminate
<1>2. /\ list' = l
      /\ processes' = Q
      /\ wake_tick' = [wake_tick EXCEPT ![t] = 0]
      /\ saved' = [saved EXCEPT ![t] = 0]
      /\ ctx' = [ctx EXCEPT ![t] = 0]
      /\ UNCHANGED <<state, jiffies, irr, isr, slept>>
  BY DEF process_terminate
<1>3. l \in List /\ Linked(l, Q) /\ Ordered(l, Q) /\ (IF Q = {} THEN cur = NULL ELSE cur \in Q)
  BY <1>1, UserFacts, RemoveKeepsList DEF Inv
<1>4. /\ wake_tick' \in [Slots -> 0 .. TickWord - 1]
      /\ saved' \in [Slots -> Contexts]
      /\ ctx' \in [Slots -> Contexts]
      /\ state' \in [Slots -> {RUNNABLE, SLEEPING}]
      /\ processes' \in SUBSET Slots
  BY <1>1, <1>2, UserFacts, SchedulerAssumption DEF Inv, TypeOK
<1>5. \A u \in Q : saved'[u] = ctx'[u]
  BY <1>1, <1>2, UserFacts DEF Inv, TypeOK, RegistersSurvive
<1>6. NothingLeftInService'
  BY <1>2 DEF Inv, NothingLeftInService
<1>7. CASE Q # {}
  <2>1. /\ current_process' \in Q
        /\ task_next(l, cur, state, saved)
    <3>1. CASE current_process # t
      BY <1>1, <1>2, <1>7, <3>1 DEF process_terminate, process_switch_to_any, Inv, KeyboardOwnerLives
    <3>2. CASE current_process = t
      BY <1>2, <1>7, <3>2 DEF process_terminate, process_switch_to_any
    <3> QED
      BY <3>1, <3>2
  <2>2. /\ current_task' \in Q
        /\ \/ /\ pc' = "user"
              /\ state[current_task'] = RUNNABLE
              /\ cr3' = current_task'
              /\ eax' = saved[current_task']
           \/ /\ pc' = "look"
              /\ cr3' = KERNEL
              /\ eax' = eax
    <3> Q \in SUBSET Slots
      BY <1>1, UserFacts
    <3> HIDE DEF l, cur, Q
    <3> QED
      BY <1>3, <1>7, <2>1, TaskNextRuns
  <2>3. TypeOK'
    <3>1. eax' \in Contexts /\ cr3' \in Slots \cup {KERNEL} /\ pc' \in CpuStates
          /\ current_task' \in Slots
      BY <2>2 DEF Inv, TypeOK, CpuStates
    <3>2. current_process' \in Slots /\ list' \in List
      BY <1>2, <1>3, <1>4, <2>1
    <3> QED
      BY <1>2, <1>4, <3>1, <3>2 DEF Inv, TypeOK
  <2>4. WellLinked' /\ Ordered(list, processes)'
    BY <1>2, <1>3, <1>7, <2>2 DEF WellLinked
  <2>5. RightAddressSpace' /\ KeyboardOwnerLives'
    BY <1>2, <1>7, <2>1, <2>2 DEF RightAddressSpace, KeyboardOwnerLives
  <2>6. RegistersSurvive'
    BY <1>1, <1>2, <1>5, <2>2, UserFacts DEF Inv, TypeOK, RegistersSurvive
  <2> QED
    BY <1>6, <2>3, <2>4, <2>5, <2>6 DEF Inv
<1>8. CASE Q = {}
  <2>1. current_process = t
    BY <1>1, <1>8 DEF Inv, KeyboardOwnerLives
  <2>2. /\ pc' = "panic"
        /\ cr3' = KERNEL
        /\ current_task' = cur
        /\ UNCHANGED <<current_process, eax>>
    BY <1>2, <1>8, <2>1 DEF process_terminate
  <2>3. TypeOK'
    BY <1>2, <1>3, <1>4, <1>8, <2>2 DEF Inv, TypeOK, CpuStates
  <2>4. WellLinked' /\ Ordered(list, processes)'
    BY <1>2, <1>3, <1>8, <2>2 DEF WellLinked
  <2>5. RightAddressSpace' /\ KeyboardOwnerLives' /\ RegistersSurvive'
    BY <1>2, <1>8, <2>2 DEF RightAddressSpace, KeyboardOwnerLives, RegistersSurvive
  <2> QED
    BY <1>6, <2>3, <2>4, <2>5 DEF Inv
<1> QED
  BY <1>7, <1>8

\* The EOI of a handler entered with nothing in service leaves nothing there.
LEMMA EoiEndsService == \A irq \in {TIMER, KEYBOARD} : pic_send_eoi({} \cup {irq}) = {}
BY DEF pic_send_eoi, TIMER, KEYBOARD

\* A turn that ends in ring 3: the registers are saved and task_next hands on.
LEMMA SwitchKeepsInv ==
  ASSUME Inv, pc = "user",
         saved' = [saved EXCEPT ![current_task] = eax],
         task_next(list, current_task, state', saved'),
         state' \in [Slots -> {RUNNABLE, SLEEPING}],
         jiffies' \in 0 .. TickWord - 1,
         irr' \subseteq {TIMER, KEYBOARD}, isr' = {},
         slept' \in [Slots -> [ms : Nat, elapsed : 0 .. MaxElapsed]],
         UNCHANGED <<processes, list, wake_tick, current_process, ctx>>
  PROVE  Inv'
<1>1. /\ current_task' \in processes
      /\ \/ /\ pc' = "user"
            /\ state'[current_task'] = RUNNABLE
            /\ cr3' = current_task'
            /\ eax' = saved'[current_task']
         \/ /\ pc' = "look"
            /\ cr3' = KERNEL
            /\ eax' = eax
  <2>1. /\ list \in List /\ processes \in SUBSET Slots /\ Linked(list, processes)
        /\ processes # {} /\ current_task \in processes
    BY UserFacts
  <2> QED
    BY ONLY <2>1, TaskNextRuns, task_next(list, current_task, state', saved')
<1>2. saved' \in [Slots -> Contexts] /\ \A t \in processes : saved'[t] = ctx[t]
  BY UserFacts DEF Inv, TypeOK, RegistersSurvive
<1>3. TypeOK'
  <2>1. eax' \in Contexts /\ cr3' \in Slots \cup {KERNEL} /\ pc' \in CpuStates
        /\ current_task' \in Slots
    BY <1>1, <1>2, UserFacts DEF Inv, TypeOK, CpuStates
  <2> QED
    BY <1>2, <2>1 DEF Inv, TypeOK
<1>4. WellLinked' /\ Ordered(list, processes)'
  BY <1>1 DEF Inv, WellLinked, Linked, Ordered
<1>5. RightAddressSpace' /\ KeyboardOwnerLives' /\ RegistersSurvive' /\ NothingLeftInService'
  BY <1>1, <1>2 DEF Inv, RightAddressSpace, KeyboardOwnerLives, RegistersSurvive,
                    NothingLeftInService
<1> QED
  BY <1>3, <1>4, <1>5 DEF Inv

\* A step of the idle loop, or of an interrupt that finds the CPU there.
LEMMA IdleKeepsInv ==
  ASSUME Inv, Idle, pc' \in CpuStates \ {"user", "panic"}, cr3' = KERNEL,
         state' \in [Slots -> {RUNNABLE, SLEEPING}],
         jiffies' \in 0 .. TickWord - 1,
         irr' \subseteq {TIMER, KEYBOARD}, isr' = {},
         slept' \in [Slots -> [ms : Nat, elapsed : 0 .. MaxElapsed]],
         UNCHANGED <<processes, list, wake_tick, saved, current_task, current_process, eax, ctx>>
  PROVE  Inv'
<1>1. TypeOK'
  BY DEF Inv, TypeOK
<1>2. WellLinked' /\ Ordered(list, processes)'
  BY DEF Inv, WellLinked, Linked, Ordered
<1>3. RightAddressSpace' /\ KeyboardOwnerLives' /\ RegistersSurvive' /\ NothingLeftInService'
  BY DEF Inv, Idle, RightAddressSpace, KeyboardOwnerLives, RegistersSurvive,
         NothingLeftInService
<1> QED
  BY <1>1, <1>2, <1>3 DEF Inv

\* pit_tick keeps the invariant, from ring 3 and from the idle loop.
LEMMA TickKeepsInv ==
  ASSUME Inv, pit_tick
  PROVE  Inv'
<1>1. /\ irr' \subseteq {TIMER, KEYBOARD}
      /\ isr' = {}
  <2>1. isr = {}
    BY DEF Inv, NothingLeftInService
  <2> QED
    BY <2>1, EoiEndsService DEF Inv, TypeOK, pit_tick
<1>2. jiffies' \in 0 .. TickWord - 1
  <2> DEFINE x == jiffies + 1
  <2>1. x \in Nat
    BY SchedulerAssumption DEF Inv, TypeOK
  <2>2. jiffies' = x % TickWord
    BY DEF pit_tick, NextTick
  <2> HIDE DEF x
  <2> QED
    BY <2>1, <2>2, TickArithmetic
<1>3. state' \in [Slots -> {RUNNABLE, SLEEPING}]
  BY DEF Inv, TypeOK, pit_tick, task_wake_sleepers
<1>4. slept' \in [Slots -> [ms : Nat, elapsed : 0 .. MaxElapsed]]
  BY SchedulerAssumption DEF Inv, TypeOK, pit_tick, NoSleep
<1>5. CASE pc = "user"
  <2>1. /\ saved' = [saved EXCEPT ![current_task] = eax]
        /\ task_next(list, current_task, state', saved')
        /\ UNCHANGED <<processes, list, wake_tick, current_process, ctx>>
    BY <1>5 DEF pit_tick, Idle
  <2> QED
    BY <1>1, <1>2, <1>3, <1>4, <1>5, <2>1, SwitchKeepsInv
<1>6. CASE pc # "user"
  <2>1. /\ Idle
        /\ pc' \in CpuStates \ {"user", "panic"}
        /\ cr3' = KERNEL
        /\ UNCHANGED <<processes, list, wake_tick, saved, current_task, current_process, eax, ctx>>
    BY <1>6 DEF pit_tick, Idle, ResumeIdle, CpuStates
  <2> QED
    BY <1>1, <1>2, <1>3, <1>4, <2>1, IdleKeepsInv
<1> QED
  BY <1>5, <1>6

\* The keyboard interrupt keeps the invariant.
LEMMA KeyKeepsInv ==
  ASSUME Inv, keyboard_interrupt
  PROVE  Inv'
<1>1. /\ irr' \subseteq {TIMER, KEYBOARD}
      /\ isr' = {}
  <2>1. isr = {}
    BY DEF Inv, NothingLeftInService
  <2> QED
    BY <2>1, EoiEndsService DEF Inv, TypeOK, keyboard_interrupt
<1>2. CASE pc = "user"
  <2>1. /\ saved' = [saved EXCEPT ![current_task] = eax]
        /\ cr3' = current_task
        /\ UNCHANGED <<processes, list, state, wake_tick, current_task, current_process,
                       jiffies, eax, pc, ctx, slept>>
    BY <1>2 DEF keyboard_interrupt, Idle
  <2>2. TypeOK'
    BY <1>1, <1>2, <2>1, UserFacts DEF Inv, TypeOK
  <2>3. WellLinked' /\ Ordered(list, processes)'
    BY <2>1 DEF Inv, WellLinked, Linked, Ordered
  <2>4. RightAddressSpace' /\ KeyboardOwnerLives' /\ RegistersSurvive' /\ NothingLeftInService'
    BY <1>1, <1>2, <2>1, UserFacts
       DEF Inv, TypeOK, RightAddressSpace, KeyboardOwnerLives, RegistersSurvive,
           NothingLeftInService
  <2> QED
    BY <2>2, <2>3, <2>4 DEF Inv
<1>3. CASE pc # "user"
  <2>1. /\ Idle
        /\ pc' \in CpuStates \ {"user", "panic"}
        /\ cr3' = KERNEL
        /\ UNCHANGED <<processes, list, state, wake_tick, saved, current_task,
                       current_process, jiffies, eax, ctx, slept>>
    BY <1>3 DEF keyboard_interrupt, Idle, ResumeIdle, CpuStates
  <2> QED
    BY <1>1, <2>1, IdleKeepsInv DEF Inv, TypeOK
<1> QED
  BY <1>2, <1>3

\* An NMI keeps the invariant.
LEMMA NmiKeepsInv ==
  ASSUME Inv, nmi
  PROVE  Inv'
<1>1. isr = {} /\ state \in [Slots -> {RUNNABLE, SLEEPING}] /\ jiffies \in 0 .. TickWord - 1
      /\ irr \subseteq {TIMER, KEYBOARD} /\ slept \in [Slots -> [ms : Nat, elapsed : 0 .. MaxElapsed]]
  BY DEF Inv, TypeOK, NothingLeftInService
<1>2. CASE pc = "user"
  <2>1. /\ saved' = [saved EXCEPT ![current_task] = eax]
        /\ task_next(list, current_task, state, saved')
        /\ UNCHANGED <<processes, list, state, wake_tick, current_process, jiffies, irr, isr,
                       ctx, slept>>
    BY <1>2 DEF nmi, history
  <2>2. task_next(list, current_task, state', saved')
    BY <2>1
  <2> QED
    BY <1>1, <1>2, <2>1, <2>2, SwitchKeepsInv
<1>3. CASE pc # "user"
  <2>1. /\ Idle
        /\ pc' \in CpuStates \ {"user", "panic"}
        /\ UNCHANGED <<processes, list, state, wake_tick, saved, current_task, current_process,
                       jiffies, cr3, eax, irr, isr, ctx, slept>>
    BY <1>3 DEF nmi, Idle, CpuStates, taskVars, history
  <2>2. cr3' = KERNEL
    BY <1>3, <2>1 DEF Inv, RightAddressSpace
  <2> QED
    BY <1>1, <2>1, <2>2, IdleKeepsInv
<1> QED
  BY <1>2, <1>3

\* The idle loop's look round keeps the invariant.
LEMMA LookKeepsInv ==
  ASSUME Inv, Look
  PROVE  Inv'
<1>1. /\ pc = "look" /\ cr3 = KERNEL
      /\ UNCHANGED <<processes, list, state, wake_tick, saved, current_process, jiffies,
                     irr, isr, ctx, slept>>
  BY DEF Look, taskVars, history, Inv, RightAddressSpace
<1>2. CASE task_next(list, current_task, state, saved)
  <2>1. /\ list \in List /\ processes \in SUBSET Slots /\ Linked(list, processes)
        /\ processes # {} /\ current_task \in processes
    BY <1>1 DEF Inv, TypeOK, WellLinked, KeyboardOwnerLives
  <2>2. /\ current_task' \in processes
        /\ \/ /\ pc' = "user"
              /\ state[current_task'] = RUNNABLE
              /\ cr3' = current_task'
              /\ eax' = saved[current_task']
           \/ /\ pc' = "look"
              /\ cr3' = KERNEL
              /\ eax' = eax
    BY ONLY <1>2, <2>1, TaskNextRuns
  <2>3. TypeOK'
    <3>1. eax' \in Contexts /\ cr3' \in Slots \cup {KERNEL} /\ pc' \in CpuStates
          /\ current_task' \in Slots
      BY <2>1, <2>2 DEF Inv, TypeOK, CpuStates
    <3> QED
      BY <1>1, <3>1 DEF Inv, TypeOK
  <2>4. WellLinked' /\ Ordered(list, processes)'
    BY <1>1, <2>2 DEF Inv, WellLinked, Linked, Ordered
  <2>5. RightAddressSpace' /\ KeyboardOwnerLives' /\ RegistersSurvive' /\ NothingLeftInService'
    BY <1>1, <2>2 DEF Inv, RightAddressSpace, KeyboardOwnerLives, RegistersSurvive,
                      NothingLeftInService
  <2> QED
    BY <2>3, <2>4, <2>5 DEF Inv
<1>3. CASE pc' = "shadow" /\ UNCHANGED <<current_task, cr3, eax>>
  <2>1. Idle /\ pc' \in CpuStates \ {"user", "panic"} /\ cr3' = KERNEL
    BY <1>1, <1>3 DEF Idle, CpuStates
  <2>2. /\ state' \in [Slots -> {RUNNABLE, SLEEPING}] /\ jiffies' \in 0 .. TickWord - 1
        /\ irr' \subseteq {TIMER, KEYBOARD} /\ isr' = {}
        /\ slept' \in [Slots -> [ms : Nat, elapsed : 0 .. MaxElapsed]]
    BY <1>1 DEF Inv, TypeOK, NothingLeftInService
  <2> QED
    BY <1>1, <1>3, <2>1, <2>2, IdleKeepsInv
<1> QED
  BY <1>2, <1>3 DEF Look

\* Every step keeps the invariant.
LEMMA NextKeepsInv == Inv /\ [Next]_vars => Inv'
<1> SUFFICES ASSUME Inv, [Next]_vars PROVE Inv'
  OBVIOUS
<1>1. CASE Compute
  <2>1. pc = "user"
    BY <1>1 DEF Compute
  <2>2. TypeOK'
    BY <1>1, <2>1, UserFacts, ZenonT(40) DEF Inv, TypeOK, Compute, taskVars
  <2>3. WellLinked' /\ Ordered(list, processes)'
    BY <1>1 DEF Inv, WellLinked, Linked, Ordered, Compute, taskVars
  <2>4. RightAddressSpace' /\ KeyboardOwnerLives' /\ RegistersSurvive' /\ NothingLeftInService'
    BY <1>1, <2>1, UserFacts
       DEF Inv, TypeOK, Compute, taskVars, RightAddressSpace, KeyboardOwnerLives,
           RegistersSurvive, NothingLeftInService
  <2> QED
    BY <2>2, <2>3, <2>4 DEF Inv
<1>2. ASSUME NEW ms \in Milliseconds, isr80h_command_sleep(ms) PROVE Inv'
  BY <1>2, SleepKeepsInv
<1>3. ASSUME NEW t \in Slots, process_load(t) PROVE Inv'
  BY <1>3, LoadKeepsInv
<1>4. CASE process_load_fails
  BY <1>4, ReturnKeepsInv DEF process_load_fails
<1>5. CASE process_terminate
  BY <1>5, TerminateKeepsInv
<1>6. CASE PitFires \/ KeyPressed
  <2>1. /\ UNCHANGED <<processes, list, state, wake_tick, saved, current_task, current_process,
                       jiffies, cr3, eax, pc, isr, ctx>>
        /\ irr' \subseteq {TIMER, KEYBOARD}
    BY <1>6 DEF PitFires, KeyPressed, taskVars, cpuVars, history, Inv, TypeOK
  <2>2. slept' \in [Slots -> [ms : Nat, elapsed : 0 .. MaxElapsed]]
    <3>1. CASE PitFires
      BY <3>1, SchedulerAssumption DEF PitFires, Inv, TypeOK
    <3>2. CASE KeyPressed
      BY <3>2 DEF KeyPressed, history, Inv, TypeOK
    <3> QED
      BY <1>6, <3>1, <3>2
  <2>3. TypeOK'
    BY <2>1, <2>2 DEF Inv, TypeOK
  <2> QED
    BY <2>1, <2>3 DEF Inv, WellLinked, Linked, Ordered, RightAddressSpace, KeyboardOwnerLives,
                      RegistersSurvive, NothingLeftInService
<1>7. CASE pit_tick
  BY <1>7, TickKeepsInv
<1>8. CASE keyboard_interrupt
  BY <1>8, KeyKeepsInv
<1>9. CASE nmi
  BY <1>9, NmiKeepsInv
<1>10. CASE Look
  BY <1>10, LookKeepsInv
<1>11. CASE IRQ_ON_AND_PAUSE
  <2>1. /\ Idle
        /\ pc' \in CpuStates \ {"user", "panic"}
        /\ UNCHANGED <<processes, list, state, wake_tick, saved, current_task, current_process,
                       jiffies, cr3, eax, irr, isr, ctx, slept>>
    BY <1>11 DEF IRQ_ON_AND_PAUSE, Step, Idle, CpuStates, taskVars, history
  <2>2. cr3' = KERNEL
    BY <2>1 DEF Idle, Inv, RightAddressSpace
  <2>3. /\ state' \in [Slots -> {RUNNABLE, SLEEPING}] /\ jiffies' \in 0 .. TickWord - 1
        /\ irr' \subseteq {TIMER, KEYBOARD} /\ isr' = {}
        /\ slept' \in [Slots -> [ms : Nat, elapsed : 0 .. MaxElapsed]]
    BY <2>1 DEF Inv, TypeOK, NothingLeftInService
  <2> QED
    BY <2>1, <2>2, <2>3, IdleKeepsInv
<1>12. CASE Stopped \/ UNCHANGED vars
  <2>1. UNCHANGED vars
    BY <1>12 DEF Stopped
  <2>2. TypeOK'
    BY <2>1 DEF vars, Inv, TypeOK
  <2>3. WellLinked' /\ Ordered(list, processes)'
    BY <2>1 DEF vars, Inv, WellLinked, Linked, Ordered
  <2>4. RightAddressSpace' /\ KeyboardOwnerLives'
    BY <2>1 DEF vars, Inv, RightAddressSpace, KeyboardOwnerLives
  <2>5. RegistersSurvive' /\ NothingLeftInService'
    BY <2>1 DEF vars, Inv, RegistersSurvive, NothingLeftInService
  <2> QED
    BY <2>2, <2>3, <2>4, <2>5 DEF Inv
<1> QED
  BY <1>1, <1>2, <1>3, <1>4, <1>5, <1>6, <1>7, <1>8, <1>9, <1>10, <1>11, <1>12
     DEF Next, UserStep

-------------------------------------------------------------------------------
(* Deadlines and the wrap of the tick counter *)

\* Arithmetic modulo the width of the tick counter.
LEMMA Wrapping ==
  ASSUME NEW x \in Int
  PROVE  /\ x \in 0 .. TickWord - 1 => x % TickWord = x
         /\ x \in TickWord .. 2 * TickWord - 1 => x % TickWord = x - TickWord
         /\ x \in -TickWord .. -1 => x % TickWord = x + TickWord
BY SchedulerAssumption

\* A deadline less than half a wrap ahead is not due.
LEMMA FreshDeadlineIsAhead ==
  ASSUME NEW j \in 0 .. TickWord - 1, NEW d \in Nat, d > 0, d < TickWord \div 2
  PROVE  ~ Due(j, (j + d) % TickWord)
<1> DEFINE H == TickWord \div 2
<1>1. TickWord \in Nat /\ H \in Nat /\ H + H = TickWord /\ d < H
  BY SchedulerAssumption
<1> HIDE DEF H
<1>2. CASE j + d < TickWord
  <2>1. (j + d) % TickWord = j + d
    BY <1>1, <1>2, Wrapping
  <2>2. (j - (j + d)) % TickWord = TickWord - d
    <3>1. j - (j + d) = -d /\ -d \in -TickWord .. -1 /\ -d \in Int
      BY <1>1
    <3>2. (-d) % TickWord = -d + TickWord
      BY <3>1, Wrapping
    <3> QED
      BY <1>1, <3>1, <3>2
  <2> QED
    BY <1>1, <2>1, <2>2 DEF Due, H
<1>3. CASE j + d >= TickWord
  <2>1. (j + d) % TickWord = j + d - TickWord
    BY <1>1, <1>3, Wrapping
  <2>2. (j - (j + d - TickWord)) % TickWord = TickWord - d
    <3>1. j - (j + d - TickWord) = TickWord - d /\ TickWord - d \in 0 .. TickWord - 1
      BY <1>1
    <3> QED
      BY <3>1, Wrapping
  <2> QED
    BY <1>1, <2>1, <2>2 DEF Due, H
<1> QED
  BY <1>1, <1>2, <1>3

\* Every step keeps the deadlines of sleeping tasks ahead.
LEMMA NextKeepsSleepersAhead ==
  Inv /\ SleepersAhead /\ [Next]_vars => SleepersAhead'
<1> SUFFICES ASSUME Inv, SleepersAhead, [Next]_vars,
                    NEW t \in processes', state'[t] = SLEEPING
             PROVE  ~ Due(jiffies', wake_tick'[t])
  BY DEF SleepersAhead
<1>1. CASE UNCHANGED <<processes, state, wake_tick, jiffies>>
  BY <1>1 DEF SleepersAhead
<1>2. ASSUME NEW ms \in Milliseconds, isr80h_command_sleep(ms) PROVE ~ Due(jiffies', wake_tick'[t])
  <2>1. CASE UNCHANGED <<processes, state, wake_tick, jiffies>>
    BY <1>1, <2>1
  <2>2. CASE ~ UNCHANGED <<processes, state, wake_tick, jiffies>>
    <3>1. /\ pc = "user"
          /\ ms \in 1 .. MaxSleepMs
          /\ wake_tick' = [wake_tick EXCEPT ![current_task] =
                             (jiffies + pit_ms_to_ticks(ms)) % TickWord]
          /\ state' = [state EXCEPT ![current_task] = SLEEPING]
          /\ UNCHANGED <<processes, jiffies>>
      BY <1>2, <2>2 DEF isr80h_command_sleep, Return
    <3>2. CASE t # current_task
      BY <3>1, <3>2 DEF SleepersAhead, Inv, TypeOK
    <3>3. CASE t = current_task
      <4> DEFINE d == pit_ms_to_ticks(ms)
      <4>1. ms \in Nat /\ ms # 0 /\ ms <= MaxSleepMs
        BY <3>1, SchedulerAssumption
      <4>2. d \in Nat /\ d < TickWord \div 2
        BY <4>1, TickArithmetic, SchedulerAssumption
      <4>3. d > 0
        BY <4>1, TickArithmetic
      <4>4. jiffies \in 0 .. TickWord - 1
        BY DEF Inv, TypeOK
      <4>5. wake_tick'[t] = (jiffies + d) % TickWord
        BY <3>1, <3>3, UserFacts DEF Inv, TypeOK
      <4> HIDE DEF d
      <4> QED
        BY <3>1, <4>2, <4>3, <4>4, <4>5, FreshDeadlineIsAhead
    <3> QED
      BY <3>2, <3>3
  <2> QED
    BY <2>1, <2>2
<1>3. ASSUME NEW u \in Slots, process_load(u) PROVE ~ Due(jiffies', wake_tick'[t])
  BY <1>3 DEF process_load, SleepersAhead, Inv, TypeOK, RUNNABLE, SLEEPING
<1>4. CASE process_terminate
  <2>1. /\ pc = "user"
        /\ processes' = processes \ {current_task}
        /\ wake_tick' = [wake_tick EXCEPT ![current_task] = 0]
        /\ UNCHANGED <<state, jiffies>>
    BY <1>4 DEF process_terminate
  <2> QED
    BY <2>1 DEF SleepersAhead, Inv, TypeOK
<1>5. CASE pit_tick
  BY <1>5 DEF pit_tick, task_wake_sleepers, Inv, TypeOK, RUNNABLE, SLEEPING
<1>6. CASE \/ Compute \/ process_load_fails \/ PitFires \/ KeyPressed \/ keyboard_interrupt
           \/ nmi \/ Look \/ IRQ_ON_AND_PAUSE \/ Stopped \/ UNCHANGED vars
  BY <1>1, <1>6 DEF Compute, process_load_fails, Return, PitFires, KeyPressed,
                    keyboard_interrupt, nmi, Look, IRQ_ON_AND_PAUSE, Step, Stopped, vars,
                    taskVars
<1> QED
  BY <1>2, <1>3, <1>4, <1>5, <1>6 DEF Next, UserStep

-------------------------------------------------------------------------------
(* The theorems *)

\* The inductive invariant holds throughout.
LEMMA Invariance == Spec => []Inv
BY InitInv, NextKeepsInv, PTL DEF Spec

\* The scheduler's state keeps its types, whatever tasks, ticks, keys and NMIs do.
THEOREM TypeCorrect == Spec => []TypeOK
<1>1. Inv => TypeOK
  BY DEF Inv
<1> QED
  BY <1>1, Invariance, PTL

\* However processes start and end, the task list stays linked over exactly their
\* tasks (task_publish, task_list_remove) and current_task on it.
THEOREM TaskListIntact == Spec => []WellLinked
<1>1. Inv => WellLinked
  BY DEF Inv
<1> QED
  BY <1>1, Invariance, PTL

\* No sleeping or freed task ever runs, no program outside its own page directory,
\* and cr3 never keeps a directory that process_terminate freed.
THEOREM AddressSpaceSafe == Spec => []RightAddressSpace
<1>1. Inv => RightAddressSpace
  BY DEF Inv
<1> QED
  BY <1>1, Invariance, PTL

\* The keyboard always has a live owner, and the PANIC of process_switch_to_any
\* comes only when no process is left.
THEOREM KeyboardAlwaysOwned == Spec => []KeyboardOwnerLives
<1>1. Inv => KeyboardOwnerLives
  BY DEF Inv
<1> QED
  BY <1>1, Invariance, PTL

\* No path through system calls, ticks, keys, NMIs and the idle loop resumes a
\* program with registers other than its own.
THEOREM RegistersPreserved == Spec => []RegistersSurvive
<1>1. Inv => RegistersSurvive
  BY DEF Inv
<1> QED
  BY <1>1, Invariance, PTL

\* No handler leaves its interrupt in service: each sends exactly its EOI.
THEOREM EoiAlwaysSent == Spec => []NothingLeftInService
<1>1. Inv => NothingLeftInService
  BY DEF Inv
<1> QED
  BY <1>1, Invariance, PTL

\* For every width of the tick counter and every sleep pit.c's static assertion
\* admits, no sleeping task's deadline is ever in the past.
THEOREM NoMissedDeadline == Spec => []SleepersAhead
<1>1. Init => SleepersAhead
  BY SchedulerAssumption DEF Init, SleepersAhead, Slots, RUNNABLE, SLEEPING
<1> QED
  BY <1>1, NextKeepsSleepersAhead, Invariance, PTL DEF Spec
================================================================================
