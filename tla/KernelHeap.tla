------------------------------ MODULE KernelHeap ------------------------------
(***************************************************************************)
(* The kernel heap: kernel/memory/heap/heap.c behind kmalloc and kfree     *)
(* (kheap.c).  A table has one entry of flags per block; an allocation is  *)
(* a run of TAKEN blocks, the first marked IS_FIRST and every one but the  *)
(* last marked HAS_NEXT.  Addresses and sizes are unsigned integers of one *)
(* machine word, so they are below Word.                                   *)
(***************************************************************************)
EXTENDS Integers

CONSTANTS
  Total,      \* table->total: number of blocks
  BlockSize,  \* RORTHOX_HEAP_BLOCK_SIZE
  Saddr,      \* heap->saddr (RORTHOX_HEAP_ADDRESS), not zero
  Word        \* 2^32 on this machine

ASSUME HeapAssumption ==
  /\ Total \in Nat \ {0}
  /\ BlockSize \in Nat \ {0}
  /\ Saddr \in Nat \ {0}
  /\ Word \in Nat
  /\ Word % BlockSize = 0
  /\ Saddr % BlockSize = 0
  /\ Saddr + Total * BlockSize < Word

VARIABLES
  entries,    \* table->entries: the flags of every block
  asked,      \* the size the last kmalloc was given
  ret         \* what it returned

vars == <<entries, asked, ret>>

Flags == {"TAKEN", "IS_FIRST", "HAS_NEXT"}
FREE  == {}
NULL  == 0
ENOMEM == 4

Blocks == 0 .. Total - 1
Addresses == 0 .. Word - 1

IsFree(b) == "TAKEN" \notin entries[b]

-------------------------------------------------------------------------------
(* heap_get_start_block: the start of the first run of n free blocks.      *)

\* Mutant: the last block of the run is not looked at.
Fits_Short(s, n) == s + n <= Total /\ \A b \in s .. s + n - 2 : IsFree(b)

Fits(s, n) == s + n <= Total /\ \A b \in s .. s + n - 1 : IsFree(b)

heap_get_start_block(s, n) ==
  /\ Fits(s, n)
  /\ \A r \in 0 .. s - 1 : ~Fits(r, n)

heap_block_to_address(b) == Saddr + b * BlockSize

heap_align_value_to_upper(val) ==
  IF val % BlockSize = 0 THEN val ELSE (val - (val % BlockSize)) + BlockSize

\* Mutant: the last block also says HAS_NEXT.
heap_mark_blocks_taken_OneMore(s, n) ==
  [b \in Blocks |->
     IF b \in s .. s + n - 1
     THEN {"TAKEN", "HAS_NEXT"} \cup (IF b = s THEN {"IS_FIRST"} ELSE {})
     ELSE entries[b]]

heap_mark_blocks_taken(s, n) ==
  [b \in Blocks |->
     IF b \in s .. s + n - 1
     THEN {"TAKEN"} \cup (IF b = s THEN {"IS_FIRST"} ELSE {})
                    \cup (IF b # s + n - 1 THEN {"HAS_NEXT"} ELSE {})
     ELSE entries[b]]

\* The blocks from s on that the loop reaches: it goes past a block only when
\* that block says HAS_NEXT.
Reached(s, b) == b >= s /\ \A c \in s .. b - 1 : "HAS_NEXT" \in entries[c]

heap_mark_blocks_free(s) ==
  [b \in Blocks |-> IF Reached(s, b) THEN FREE ELSE entries[b]]

-------------------------------------------------------------------------------
(* kmalloc *)

TooBig(size) == size > (Word - 1) - (BlockSize - 1)

TotalBlocks(size) == heap_align_value_to_upper(size) \div BlockSize

heap_malloc_refused(size) ==
  /\ TooBig(size) \/ TotalBlocks(size) = 0
  /\ ret' = NULL
  /\ UNCHANGED entries

heap_malloc_blocks(n) ==
  \/ \E s \in Blocks :
       /\ heap_get_start_block(s, n)
       /\ ret' = heap_block_to_address(s)
       /\ entries' = heap_mark_blocks_taken(s, n)
  \/ /\ \A s \in Blocks : ~Fits(s, n)
     /\ ret' = NULL
     /\ UNCHANGED entries

kmalloc(size) ==
  /\ asked' = size
  /\ \/ heap_malloc_refused(size)
     \/ /\ ~TooBig(size)
        /\ TotalBlocks(size) # 0
        /\ heap_malloc_blocks(TotalBlocks(size))

(* kfree: every pointer that is not the start of a live run is ignored. *)

BlockOf(ptr) == (ptr - Saddr) \div BlockSize

Freeable(ptr) ==
  /\ ptr # NULL
  /\ ptr % BlockSize = 0
  /\ ptr >= Saddr
  /\ BlockOf(ptr) < Total
  /\ {"TAKEN", "IS_FIRST"} \subseteq entries[BlockOf(ptr)]

kfree(ptr) ==
  /\ entries' = IF Freeable(ptr) THEN heap_mark_blocks_free(BlockOf(ptr)) ELSE entries
  /\ UNCHANGED <<asked, ret>>

-------------------------------------------------------------------------------
kheap_init ==
  /\ entries = [b \in Blocks |-> FREE]
  /\ asked = 0
  /\ ret = NULL

Next ==
  \/ \E size \in Addresses : kmalloc(size)
  \/ \E ptr \in Addresses : kfree(ptr)

Spec == kheap_init /\ [][Next]_vars

-------------------------------------------------------------------------------
(* Properties *)

\* Every entry is a set of the flags heap.h defines, and a pointer handed out is
\* NULL or the address of a block.
TypeOK ==
  /\ entries \in [Blocks -> SUBSET Flags]
  /\ asked \in Addresses
  /\ ret \in {NULL} \cup {heap_block_to_address(b) : b \in Blocks}

\* The table heap_mark_blocks_taken and heap_mark_blocks_free leave behind is a
\* sequence of whole runs and free blocks: a block that says HAS_NEXT is followed
\* by a block of the same run, and a taken block that is not the first of its run
\* is preceded by one that says HAS_NEXT.  kfree relies on it: the loop that
\* follows HAS_NEXT never runs into a free block or into the next allocation.
WholeRuns ==
  \A b \in Blocks :
    /\ "TAKEN" \notin entries[b] => entries[b] = FREE
    /\ "HAS_NEXT" \in entries[b] =>
         /\ b + 1 \in Blocks
         /\ "TAKEN" \in entries[b + 1]
         /\ "IS_FIRST" \notin entries[b + 1]
    /\ "TAKEN" \in entries[b] /\ "IS_FIRST" \notin entries[b] =>
         /\ b - 1 \in Blocks
         /\ "HAS_NEXT" \in entries[b - 1]

\* The live allocations as the table records them.
Runs ==
  {run \in Blocks \X Blocks :
     /\ run[1] <= run[2]
     /\ "IS_FIRST" \in entries[run[1]]
     /\ \A b \in run[1] .. run[2] - 1 : "HAS_NEXT" \in entries[b]
     /\ "HAS_NEXT" \notin entries[run[2]]}

\* Rounding up, in unbounded arithmetic.
BlocksFor(size) == (size + BlockSize - 1) \div BlockSize

Promise == INSTANCE HeapSpec
             WITH Requests <- 0 .. BlocksFor(Word),
                  live     <- Runs,
                  want     <- BlocksFor(asked),
                  block    <- IF ret = NULL THEN -1 ELSE BlockOf(ret)

\* The heap implements HeapSpec: kmalloc hands out blocks no live allocation
\* holds, as many as the size needs, and fails only when no hole is long enough;
\* kfree of any pointer at all removes the allocation that starts there, whole,
\* and disturbs no other.
ImplementsHeapSpec == Promise!Spec
===============================================================================
