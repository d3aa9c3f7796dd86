--------------------------- MODULE KernelHeapProofs ---------------------------
(***************************************************************************)
(* Proofs about KernelHeap for every size of the heap and of its blocks.   *)
(***************************************************************************)
EXTENDS KernelHeap, TLAPS

\* The block a pointer that kfree accepts names is a block of the table.
LEMMA BlockOfFreeable ==
  ASSUME NEW ptr \in Addresses, Freeable(ptr)
  PROVE  BlockOf(ptr) \in Blocks
  BY HeapAssumption DEF Freeable, BlockOf, Blocks, Addresses

\* kmalloc asks the table for at least one block.
LEMMA TotalBlocksNat ==
  ASSUME NEW size \in Addresses
  PROVE  TotalBlocks(size) \in Nat
  <1>1. heap_align_value_to_upper(size) \in Nat
    BY HeapAssumption DEF heap_align_value_to_upper, Addresses
  <1> QED
    BY <1>1, HeapAssumption DEF TotalBlocks

\* The heap's table keeps its type: every step of kmalloc and kfree leaves flags
\* that heap.h defines, and a pointer handed out is NULL or a block's address.
THEOREM TypeCorrect == Spec => []TypeOK
  <1>1. kheap_init => TypeOK
    BY HeapAssumption DEF kheap_init, TypeOK, Addresses, FREE, Flags
  <1>2. TypeOK /\ [Next]_vars => TypeOK'
    <2> SUFFICES ASSUME TypeOK, [Next]_vars
                 PROVE  TypeOK'
      OBVIOUS
    <2>1. ASSUME NEW size \in Addresses, kmalloc(size)
          PROVE  TypeOK'
      <3>1. asked' \in Addresses
        BY <2>1 DEF kmalloc
      <3>2. CASE heap_malloc_refused(size)
        BY <3>1, <3>2 DEF TypeOK, heap_malloc_refused, Addresses, heap_block_to_address
      <3>3. CASE heap_malloc_blocks(TotalBlocks(size))
        BY <3>1, <3>3 DEF TypeOK, heap_malloc_blocks, heap_mark_blocks_taken, Flags,
           heap_block_to_address
      <3> QED
        BY <2>1, <3>2, <3>3 DEF kmalloc
    <2>2. ASSUME NEW ptr \in Addresses, kfree(ptr)
          PROVE  TypeOK'
      BY <2>2 DEF TypeOK, kfree, heap_mark_blocks_free, FREE, Flags, heap_block_to_address
    <2>3. CASE UNCHANGED vars
      BY <2>3 DEF TypeOK, vars, heap_block_to_address
    <2> QED
      BY <2>1, <2>2, <2>3 DEF Next
  <1> QED
    BY <1>1, <1>2, PTL DEF Spec

-------------------------------------------------------------------------------
\* heap_mark_blocks_taken on free blocks adds one whole run and leaves the other
\* runs whole.
LEMMA TakenKeepsWholeRuns ==
  ASSUME TypeOK, WholeRuns,
         NEW n \in Nat \ {0}, NEW s \in Blocks, Fits(s, n),
         entries' = heap_mark_blocks_taken(s, n)
  PROVE  WholeRuns'
  <1> DEFINE e == s + n - 1
  <1>1. s \in Nat /\ e \in Blocks /\ s <= e
    BY HeapAssumption DEF Fits, Blocks
  <1>2. \A b \in Blocks : b \in s .. e => entries[b] = FREE
    BY DEF Fits, IsFree, WholeRuns
  <1>3. \A b \in Blocks : b \notin s .. e => entries'[b] = entries[b]
    BY DEF heap_mark_blocks_taken
  <1>4. ASSUME NEW b \in Blocks, b \in s .. e
        PROVE  /\ "TAKEN" \in entries'[b]
               /\ "IS_FIRST" \in entries'[b] <=> b = s
               /\ "HAS_NEXT" \in entries'[b] <=> b # e
    <2>1. entries'[b] = {"TAKEN"} \cup (IF b = s THEN {"IS_FIRST"} ELSE {})
                                  \cup (IF b # e THEN {"HAS_NEXT"} ELSE {})
      BY <1>4 DEF heap_mark_blocks_taken
    <2> HIDE DEF e
    <2>2. CASE b = s /\ b = e
      BY <2>1, <2>2
    <2>3. CASE b = s /\ b # e
      BY <2>1, <2>3
    <2>4. CASE b # s /\ b = e
      BY <2>1, <2>4
    <2>5. CASE b # s /\ b # e
      BY <2>1, <2>5
    <2> QED
      BY <2>2, <2>3, <2>4, <2>5
  <1> HIDE DEF e
  <1> SUFFICES ASSUME NEW b \in Blocks
               PROVE  /\ "TAKEN" \notin entries'[b] => entries'[b] = FREE
                      /\ "HAS_NEXT" \in entries'[b] =>
                           /\ b + 1 \in Blocks
                           /\ "TAKEN" \in entries'[b + 1]
                           /\ "IS_FIRST" \notin entries'[b + 1]
                      /\ "TAKEN" \in entries'[b] /\ "IS_FIRST" \notin entries'[b] =>
                           /\ b - 1 \in Blocks
                           /\ "HAS_NEXT" \in entries'[b - 1]
    BY DEF WholeRuns
  <1>5. CASE b \in s .. e
    <2>1. b # e => b + 1 \in Blocks /\ b + 1 \in s .. e /\ b + 1 # s
      BY <1>1, <1>5, HeapAssumption DEF Blocks
    <2>2. b # s => b - 1 \in Blocks /\ b - 1 \in s .. e /\ b - 1 # e
      BY <1>1, <1>5, HeapAssumption DEF Blocks
    <2> QED
      BY <1>4, <1>5, <2>1, <2>2
  <1>6. CASE b \notin s .. e
    <2>1. "HAS_NEXT" \in entries[b] => b + 1 \in Blocks /\ b + 1 \notin s .. e
      BY <1>2 DEF WholeRuns, FREE
    <2>2. "TAKEN" \in entries[b] /\ "IS_FIRST" \notin entries[b] =>
            b - 1 \in Blocks /\ b - 1 \notin s .. e
      BY <1>2 DEF WholeRuns, FREE
    <2> QED
      BY <1>3, <1>6, <2>1, <2>2 DEF WholeRuns
  <1> QED
    BY <1>5, <1>6

\* heap_mark_blocks_free from the first block of a run frees that run to its end,
\* and no block outside it is the continuation of a block it freed.
LEMMA FreeKeepsWholeRuns ==
  ASSUME TypeOK, WholeRuns,
         NEW s \in Blocks, {"TAKEN", "IS_FIRST"} \subseteq entries[s],
         entries' = heap_mark_blocks_free(s)
  PROVE  WholeRuns'
  <1>1. \A b \in Blocks : entries'[b] = IF Reached(s, b) THEN FREE ELSE entries[b]
    BY DEF heap_mark_blocks_free
  <1>2. ASSUME NEW b \in Blocks, "HAS_NEXT" \in entries[b], ~Reached(s, b)
        PROVE  ~Reached(s, b + 1)
    BY <1>2, HeapAssumption DEF Reached, WholeRuns, Blocks
  <1>3. ASSUME NEW b \in Blocks, "TAKEN" \in entries[b], "IS_FIRST" \notin entries[b],
               ~Reached(s, b)
        PROVE  ~Reached(s, b - 1)
    BY <1>3, HeapAssumption DEF Reached, WholeRuns, Blocks
  <1> SUFFICES ASSUME NEW b \in Blocks
               PROVE  /\ "TAKEN" \notin entries'[b] => entries'[b] = FREE
                      /\ "HAS_NEXT" \in entries'[b] =>
                           /\ b + 1 \in Blocks
                           /\ "TAKEN" \in entries'[b + 1]
                           /\ "IS_FIRST" \notin entries'[b + 1]
                      /\ "TAKEN" \in entries'[b] /\ "IS_FIRST" \notin entries'[b] =>
                           /\ b - 1 \in Blocks
                           /\ "HAS_NEXT" \in entries'[b - 1]
    BY DEF WholeRuns
  <1>4. CASE Reached(s, b)
    BY <1>1, <1>4 DEF FREE
  <1>5. CASE ~Reached(s, b)
    BY <1>1, <1>2, <1>3, <1>5 DEF WholeRuns
  <1> QED
    BY <1>4, <1>5

\* The table always splits into whole runs and free blocks, so that the loop of
\* kfree that follows HAS_NEXT stops at the last block of the allocation it was
\* given.
THEOREM TableIsWholeRuns == Spec => []WholeRuns
  <1>1. kheap_init => WholeRuns
    BY DEF kheap_init, WholeRuns, FREE
  <1>2. TypeOK /\ WholeRuns /\ [Next]_vars => WholeRuns'
    <2> SUFFICES ASSUME TypeOK, WholeRuns, [Next]_vars
                 PROVE  WholeRuns'
      OBVIOUS
    <2>1. ASSUME NEW size \in Addresses, kmalloc(size)
          PROVE  WholeRuns'
      <3>1. CASE UNCHANGED entries
        BY <3>1 DEF WholeRuns
      <3>2. ASSUME TotalBlocks(size) # 0,
                   NEW s \in Blocks, heap_get_start_block(s, TotalBlocks(size)),
                   entries' = heap_mark_blocks_taken(s, TotalBlocks(size))
            PROVE  WholeRuns'
        BY <3>2, TotalBlocksNat, TakenKeepsWholeRuns DEF heap_get_start_block
      <3> QED
        BY <2>1, <3>1, <3>2 DEF kmalloc, heap_malloc_refused, heap_malloc_blocks
    <2>2. ASSUME NEW ptr \in Addresses, kfree(ptr)
          PROVE  WholeRuns'
      <3>1. CASE Freeable(ptr)
        BY <2>2, <3>1, BlockOfFreeable, FreeKeepsWholeRuns DEF kfree, Freeable
      <3>2. CASE ~Freeable(ptr)
        BY <2>2, <3>2 DEF kfree, WholeRuns
      <3> QED
        BY <3>1, <3>2
    <2>3. CASE UNCHANGED vars
      BY <2>3 DEF WholeRuns, vars
    <2> QED
      BY <2>1, <2>2, <2>3 DEF Next
  <1> QED
    BY <1>1, <1>2, TypeCorrect, PTL DEF Spec
===============================================================================
