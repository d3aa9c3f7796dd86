------------------------------- MODULE HeapSpec -------------------------------
(***************************************************************************)
(* What the kernel heap promises its callers: a set of live runs of        *)
(* blocks.  kmalloc adds a run of the right length taken from blocks that  *)
(* no live run holds and fails only when no hole is long enough; kfree     *)
(* removes the run that starts at the given block and nothing else.        *)
(***************************************************************************)
EXTENDS Integers

CONSTANTS
  Total,    \* number of blocks of the heap
  Requests  \* the numbers of blocks a caller may ask for

VARIABLES
  live,     \* set of <<first block, last block>> of the live allocations
  want,     \* number of blocks the last kmalloc asked for
  block     \* first block it was given, -1 for a NULL return

vars == <<live, want, block>>

Blocks == 0 .. Total - 1

Covers(run, b) == run[1] <= b /\ b <= run[2]

Used(b) == \E run \in live : Covers(run, b)

Hole(s, n) == s + n <= Total /\ \A b \in s .. s + n - 1 : ~Used(b)

Init ==
  /\ live = {}
  /\ want = 0
  /\ block = -1

Malloc(n) ==
  /\ n > 0
  /\ want' = n
  /\ \E s \in Blocks :
       /\ Hole(s, n)
       /\ live' = live \cup {<<s, s + n - 1>>}
       /\ block' = s

MallocFails(n) ==
  /\ n = 0 \/ \A s \in Blocks : ~Hole(s, n)
  /\ want' = n
  /\ block' = -1
  /\ UNCHANGED live

Free(s) ==
  /\ live' = {run \in live : run[1] # s}
  /\ UNCHANGED <<want, block>>

Next ==
  \/ \E n \in Requests : Malloc(n) \/ MallocFails(n)
  \/ \E s \in Blocks : Free(s)

Spec == Init /\ [][Next]_vars
===============================================================================
