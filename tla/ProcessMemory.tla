------------------------------ MODULE ProcessMemory ------------------------------
(***************************************************************************)
(* The memory of processes: loading a program (task/process.c,             *)
(* loader/formats/elfloader.c, isr80h/process.c) with the unwinding of a   *)
(* load that fails at any point, malloc and free of a program, its end, and *)
(* the page directories that say what it may touch (memory/paging/paging.c) *)
(*                                                                         *)
(* System calls run with interrupts off, so a load is a sequence of steps  *)
(* that nothing interrupts.  Memory is counted in pages, which are the     *)
(* blocks of the kernel heap; page 0 is NULL.  User virtual addresses are: *)
(* the stack, then the window for programs, then the heap, which is mapped *)
(* where it is.                                                            *)
(***************************************************************************)
EXTENDS Integers, Sequences, FiniteSetsExt, Functions

CONSTANTS
  Slots,            \* process slots, natural numbers
  PageSize,         \* PAGING_PAGE_SIZE
  StackSize,        \* USER_PROGRAM_STACK_SIZE, in bytes
  WindowPages,      \* pages of the window for programs
  HeapPages,        \* blocks of the kernel heap
  MaxAllocations,   \* RORTHOX_MAX_PROGRAM_ALLOCATIONS
  MaxArguments,     \* RORTHOX_MAX_COMMAND_ARGUMENTS
  Tables,           \* page tables of a directory, 1024 in the code
  SearchPaths,      \* places where a bare program name is looked for
  Programs,         \* the files a program can be loaded from
  Sizes,            \* sizes a program passes to malloc
  MaxLoads          \* bound on the number of loads

PageUp(n) == (n + PageSize - 1) \div PageSize   \* pages that hold n bytes

StackPages == PageUp(StackSize)
StackPage  == 1                                 \* ..._VIRTUAL_STACK_ADDRESS_END
Window     == StackPage + StackPages            \* RORTHOX_PROGRAM_VIRTUAL_ADDRESS
Limit      == Window + WindowPages              \* ..._VIRTUAL_ADDRESS_LIMIT
Heap       == Limit .. Limit + HeapPages - 1    \* RORTHOX_HEAP_ADDRESS
Pages      == StackPage .. Limit + HeapPages - 1
NULL       == 0

\* A program file: its header (what elf_validate_loaded accepts is a constant of the
\* file) and its program headers.
Segment == [load : BOOLEAN, vaddr : Nat, memsz : Nat, write : BOOLEAN]
Program == [elf : BOOLEAN, valid : BOOLEAN, size : Nat, phdrs : Seq(Segment)]

\* What elf_validate_loaded guarantees of a valid file: segments lie in the window, on
\* pages of their own.
Loadable(seg) == seg.load /\ seg.memsz > 0
FirstPage(seg) == seg.vaddr \div PageSize
LastPage(seg)  == PageUp(seg.vaddr + seg.memsz) - 1
Validated(f) ==
  \A i, j \in DOMAIN f.phdrs :
    Loadable(f.phdrs[i]) =>
      /\ FirstPage(f.phdrs[i]) >= Window /\ LastPage(f.phdrs[i]) < Limit
      /\ i < j /\ Loadable(f.phdrs[j]) => LastPage(f.phdrs[i]) < FirstPage(f.phdrs[j])

ASSUME MemoryAssumption ==
  /\ Slots \subseteq Nat /\ IsFiniteSet(Slots) /\ Slots # {}
  /\ {PageSize, StackSize, WindowPages, HeapPages, Tables, SearchPaths} \subseteq Nat \ {0}
  /\ MaxArguments \in Nat /\ MaxAllocations \in Nat /\ MaxArguments < MaxAllocations
  /\ StackSize % PageSize = 0
  /\ Sizes \subseteq Nat /\ MaxLoads \in Nat
  /\ Programs \subseteq Program
  /\ \A f \in Programs : f.elf /\ f.valid => Validated(f)

VARIABLES
  heap,        \* of each page of the heap: the first page of its allocation, or NULL
  processes,   \* of each slot that is in use: its process
  new,         \* the process that is being loaded
  load,        \* where the load is, and its local variables
  loads        \* how many loads have begun

vars == <<heap, processes, new, load, loads>>

-------------------------------------------------------------------------------
(* The kernel heap, as KernelHeap models it: the first hole that is large enough *)

Holes(n) == {p \in Heap : \A q \in p .. p + n - 1 : q \in Heap /\ heap[q] = NULL}

kzalloc(size) ==
  LET holes == Holes(PageUp(size)) IN IF holes = {} THEN NULL ELSE Min(holes)

Taken(p, size) == [q \in Heap |-> IF q \in p .. p + PageUp(size) - 1 THEN p ELSE heap[q]]

\* The heap after kfree of each of the pointers; NULL is ignored.
Freed(h, pointers) == [q \in Heap |-> IF h[q] \in pointers THEN NULL ELSE h[q]]

-------------------------------------------------------------------------------
(* Page directories *)

NoRights == "supervisor"
MayRead  == "read"
MayWrite == "write"

paging_new_4gb == [v \in Pages |-> [frame |-> v, rights |-> NoRights]]

\* count pages from virt on, backed by the pages from phys on.
paging_map_to(directory, virt, phys, count, rights) ==
  [v \in Pages |-> IF v \in virt .. virt + count - 1
                   THEN [frame |-> phys + (v - virt), rights |-> rights]
                   ELSE directory[v]]

\* May ring 3 touch the page?
paging_user_translate(directory, v, write) ==
  directory[v].rights \in (IF write THEN {MayWrite} ELSE {MayRead, MayWrite})

-------------------------------------------------------------------------------
(* Processes *)

NoAllocation == [ptr |-> NULL, size |-> 0]

\* process_init: all zero.  The fields that stand for pointers name the first page.
Zeroed(f) ==
  [self |-> NULL, file |-> f,
   elf_file |-> NULL, elf_memory |-> NULL, segment_memory |-> NULL, segments |-> <<>>,
   data |-> NULL, stack |-> NULL,
   task |-> NULL, directory |-> NULL, tables |-> <<>>, chunk |-> NULL,
   allocations |-> [i \in 1 .. MaxAllocations |-> NoAllocation],
   map |-> paging_new_4gb]

live == DOMAIN processes
idle == load.at = "idle"

\* The pointers of a process.
ProgramData(p) == {p.elf_file, p.elf_memory, p.segment_memory} \cup Range(p.segments) \cup {p.data}
Directory(p)   == {p.directory, p.chunk} \cup Range(p.tables)

\* Mutant: an allocation that does not fill its last page is unmapped without it.
process_unmap_Short(p, a) ==
  [p EXCEPT !.map = paging_map_to(@, a.ptr, a.ptr, a.size \div PageSize, NoRights)]

\* The pages of the allocation a are no longer the program's.
process_unmap(p, a) == [p EXCEPT !.map = paging_map_to(@, a.ptr, a.ptr, PageUp(a.size), NoRights)]

FreeIndices(p) == {i \in 1 .. MaxAllocations : p.allocations[i].ptr = NULL}

\* The process once its allocation of size bytes at ptr is mapped and entered.
process_join(p, ptr, size) ==
  [p EXCEPT !.map = paging_map_to(@, ptr, ptr, PageUp(size), MayWrite),
            !.allocations[Min(FreeIndices(p))] = [ptr |-> ptr, size |-> size]]

\* process_malloc, when it returns memory.
process_malloc_ok(p, size) == size > 0 /\ kzalloc(size) # NULL /\ FreeIndices(p) # {}

process_unjoin(p, ptr) ==
  [p EXCEPT !.allocations = [i \in 1 .. MaxAllocations |->
                               IF @[i].ptr = ptr THEN NoAllocation ELSE @[i]]]

\* The entry of the pointer, the first if there are several.
process_get_allocation_by_addr(p, ptr) ==
  p.allocations[Min({i \in 1 .. MaxAllocations : p.allocations[i].ptr = ptr})]

Owns(p, ptr) == ptr # NULL /\ \E i \in 1 .. MaxAllocations : p.allocations[i].ptr = ptr

\* The process after process_free of a pointer it owns; the caller frees the pages.
process_free(p, ptr) ==
  process_unjoin(process_unmap(p, process_get_allocation_by_addr(p, ptr)), ptr)

-------------------------------------------------------------------------------
(* Loading a program.  load.at is the step to take; a step that fails sets the error and *)
(* goes to the label that undoes what was done.                                          *)

ENOENT    == "no such file"
EINFORMAT == "not an ELF file"
ERROR     == "error"           \* every other error, which are told apart by nobody

Goto(label) == load' = [load EXCEPT !.at = label]
Fail(label, error) == load' = [load EXCEPT !.at = label, !.res = error]

\* A step that allocates: New(ptr) is the process once it has the memory.
Allocate(size, New(_), next, failed) ==
  LET ptr == kzalloc(size)
  IN  \/ /\ ptr = NULL
         /\ Fail(failed, ERROR)
         /\ UNCHANGED <<heap, new>>
      \/ /\ ptr # NULL
         /\ heap' = Taken(ptr, size)
         /\ new' = New(ptr)
         /\ Goto(next)

\* System calls 6 and 7, and the first program at boot: count arguments, none for the
\* first two; a bare name is tried under each of the search paths.
Begin(f, count, tries) ==
  /\ idle
  /\ loads < MaxLoads
  /\ loads' = loads + 1
  /\ live = {} => count = 0 /\ tries = 1
  /\ load' = [load EXCEPT !.at = IF count = 0 THEN "slot" ELSE "snapshot",
                          !.count = count, !.tries = tries, !.res = "ok"]
  /\ new' = Zeroed(f)
  /\ UNCHANGED <<heap, processes>>

\* isr80h_copy_command_arguments: a kernel copy of the arguments.
copy_command_arguments ==
  /\ load.at = "snapshot"
  /\ \/ /\ kzalloc(1) = NULL
        /\ Fail("return", ERROR)
        /\ UNCHANGED heap
     \/ /\ kzalloc(1) # NULL
        /\ heap' = Taken(kzalloc(1), 1)
        /\ load' = [load EXCEPT !.at = "slot", !.snapshot = kzalloc(1)]
  /\ UNCHANGED <<processes, new, loads>>

\* process_get_free_slot
process_get_free_slot ==
  /\ load.at = "slot"
  /\ \/ /\ live = Slots
        /\ Fail("return", ERROR)
     \/ /\ live # Slots
        /\ load' = [load EXCEPT !.at = "process", !.slot = Min(Slots \ live)]
  /\ UNCHANGED <<heap, processes, new, loads>>

load_process ==
  /\ load.at = "process"
  /\ Allocate(1, LAMBDA p : [new EXCEPT !.self = p], "elf_file", "discard")
  /\ UNCHANGED <<processes, loads>>

\* elf_load: the handle of the program file, whose memory is held until the end of
\* elf_load, stands for the descriptor and what the file system keeps of it.
elf_load_handle ==
  /\ load.at = "elf_file"
  /\ Allocate(1, LAMBDA p : [new EXCEPT !.elf_file = p], "elf_open", "elf_out")
  /\ UNCHANGED <<processes, loads>>

fopen(next, failed) ==
  \/ /\ kzalloc(1) = NULL
     /\ Fail(failed, ERROR)
     /\ UNCHANGED heap
  \/ /\ kzalloc(1) # NULL
     /\ heap' = Taken(kzalloc(1), 1)
     /\ load' = [load EXCEPT !.at = next, !.fd = kzalloc(1)]

elf_load_open ==
  /\ load.at = "elf_open"
  /\ \/ fopen("elf_classify", "elf_out")
     \/ Fail("elf_out", ENOENT) /\ UNCHANGED heap
     \/ Fail("elf_out", ERROR) /\ UNCHANGED heap
  /\ UNCHANGED <<processes, new, loads>>

\* The first bytes of the file are read and tell whether it is an ELF file.
elf_load_classify ==
  /\ load.at = "elf_classify"
  /\ \/ Fail("elf_out", ERROR)
     \/ new.file.elf /\ Goto("elf_memory")
     \/ ~ new.file.elf /\ Fail("elf_out", EINFORMAT)
  /\ UNCHANGED <<heap, processes, new, loads>>

elf_load_memory ==
  /\ load.at = "elf_memory"
  /\ Allocate(new.file.size, LAMBDA p : [new EXCEPT !.elf_memory = p], "elf_validate", "elf_out")
  /\ UNCHANGED <<processes, loads>>

\* The rest of the file is read, and validated.
elf_validate_loaded ==
  /\ load.at = "elf_validate"
  /\ \/ Fail("elf_out", ERROR)
     \/ new.file.valid /\ Goto("elf_segments")
  /\ UNCHANGED <<heap, processes, new, loads>>

elf_process_loaded ==
  /\ load.at = "elf_segments"
  /\ new.segment_memory = NULL
  /\ Allocate(1, LAMBDA p : [new EXCEPT !.segment_memory = p], "elf_segments", "elf_out")
  /\ UNCHANGED <<processes, loads>>

\* One program header: the memory of its segment, or none.
elf_process_pheader ==
  /\ load.at = "elf_segments"
  /\ new.segment_memory # NULL
  /\ LET i == Len(new.segments) + 1
     IN  \/ /\ i > Len(new.file.phdrs)
            /\ Goto("elf_out")
            /\ UNCHANGED <<heap, new>>
         \/ /\ i <= Len(new.file.phdrs)
            /\ ~ Loadable(new.file.phdrs[i])
            /\ new' = [new EXCEPT !.segments = Append(@, NULL)]
            /\ UNCHANGED <<heap, load>>
         \/ /\ i <= Len(new.file.phdrs)
            /\ Loadable(new.file.phdrs[i])
            /\ Allocate((new.file.phdrs[i].vaddr % PageSize) + new.file.phdrs[i].memsz,
                        LAMBDA p : [new EXCEPT !.segments = Append(@, p)],
                        "elf_segments", "elf_out")
  /\ UNCHANGED <<processes, loads>>


\* What elf_close frees.
elf_close(p) == {p.elf_file, p.elf_memory, p.segment_memory} \cup Range(p.segments)

\* The end of elf_load, on every path.  Only a file that is no ELF file is tried as a raw
\* binary.
elf_load_out ==
  /\ load.at = "elf_out"
  /\ \/ /\ load.res = "ok"
        /\ heap' = Freed(heap, {load.fd})
        /\ load' = [load EXCEPT !.at = "stack", !.fd = NULL]
        /\ UNCHANGED new
     \/ /\ load.res # "ok"
        /\ heap' = Freed(heap, {load.fd} \cup elf_close(new))
        /\ new' = [new EXCEPT !.elf_file = NULL, !.elf_memory = NULL,
                              !.segment_memory = NULL, !.segments = <<>>]
        /\ load' = IF load.res = EINFORMAT
                   THEN [load EXCEPT !.at = "binary_open", !.fd = NULL, !.res = "ok"]
                   ELSE [load EXCEPT !.at = "discard", !.fd = NULL]
  /\ UNCHANGED <<processes, loads>>

\* process_load_binary
load_binary_open ==
  /\ load.at = "binary_open"
  /\ \/ fopen("binary_data", "binary_out")
     \/ Fail("binary_out", ERROR) /\ UNCHANGED heap
  /\ UNCHANGED <<processes, new, loads>>

load_binary_data ==
  /\ load.at = "binary_data"
  /\ \/ /\ new.file.size = 0 \/ new.file.size > WindowPages * PageSize
        /\ Fail("binary_out", ERROR)
        /\ UNCHANGED <<heap, new>>
     \/ /\ new.file.size \in 1 .. WindowPages * PageSize
        /\ Allocate(new.file.size, LAMBDA p : [new EXCEPT !.data = p], "binary_read", "binary_out")
  /\ UNCHANGED <<processes, loads>>

load_binary_read ==
  /\ load.at = "binary_read"
  /\ Goto("binary_out") \/ Fail("binary_out", ERROR)
  /\ UNCHANGED <<heap, processes, new, loads>>

load_binary_out ==
  /\ load.at = "binary_out"
  /\ \/ /\ load.res = "ok"
        /\ heap' = Freed(heap, {load.fd})
        /\ load' = [load EXCEPT !.at = "stack", !.fd = NULL]
        /\ UNCHANGED new
     \/ /\ load.res # "ok"
        /\ heap' = Freed(heap, {load.fd, new.data})
        /\ new' = [new EXCEPT !.data = NULL]
        /\ load' = [load EXCEPT !.at = "discard", !.fd = NULL]
  /\ UNCHANGED <<processes, loads>>

load_stack ==
  /\ load.at = "stack"
  /\ Allocate(StackSize, LAMBDA p : [new EXCEPT !.stack = p], "task", "discard")
  /\ UNCHANGED <<processes, loads>>

\* task_new and paging_new_4gb.
task_new ==
  /\ load.at = "task"
  /\ Allocate(1, LAMBDA p : [new EXCEPT !.task = p], "directory", "discard")
  /\ UNCHANGED <<processes, loads>>

paging_new_directory ==
  /\ load.at = "directory"
  /\ Allocate(1, LAMBDA p : [new EXCEPT !.directory = p], "tables", "paging_out")
  /\ UNCHANGED <<processes, loads>>

\* Mutant: one table too many.
paging_new_table_OneMore ==
  /\ load.at = "tables"
  /\ Len(new.tables) <= Tables
  /\ Allocate(1, LAMBDA p : [new EXCEPT !.tables = Append(@, p)], "tables", "paging_out")
  /\ UNCHANGED <<processes, loads>>

paging_new_table ==
  /\ load.at = "tables"
  /\ Len(new.tables) < Tables
  /\ Allocate(1, LAMBDA p : [new EXCEPT !.tables = Append(@, p)], "tables", "paging_out")
  /\ UNCHANGED <<processes, loads>>

paging_new_chunk ==
  /\ load.at = "tables"
  /\ Len(new.tables) = Tables
  /\ Allocate(1, LAMBDA p : [new EXCEPT !.chunk = p], "map", "paging_out")
  /\ UNCHANGED <<processes, loads>>

\* No directory: paging_new_4gb frees the tables it has, and task_new the task.
paging_new_out ==
  /\ load.at = "paging_out"
  /\ heap' = Freed(heap, {new.task, new.directory} \cup Range(new.tables))
  /\ new' = [new EXCEPT !.task = NULL, !.directory = NULL, !.tables = <<>>]
  /\ Goto("discard")
  /\ UNCHANGED <<processes, loads>>

\* process_map_elf: the directory once the first i segments are mapped.
process_map_elf[i \in Nat] ==
  IF i = 0 THEN new.map
  ELSE IF new.segments[i] = NULL THEN process_map_elf[i - 1]
  ELSE LET seg == new.file.phdrs[i]
       IN  paging_map_to(process_map_elf[i - 1], FirstPage(seg), new.segments[i],
                         PageUp((seg.vaddr % PageSize) + seg.memsz),
                         IF seg.write THEN MayWrite ELSE MayRead)

process_map_program ==
  IF new.file.elf THEN process_map_elf[Len(new.segments)]
  ELSE paging_map_to(new.map, Window, new.data, PageUp(new.file.size), MayWrite)

\* Paging never fails here: the directory is not the active one and all is aligned.
process_map_memory ==
  /\ load.at = "map"
  /\ new' = [new EXCEPT !.map = paging_map_to(process_map_program, StackPage, new.stack,
                                              StackPages, MayWrite)]
  /\ Goto(IF load.count = 0 THEN "publish" ELSE "arguments")
  /\ UNCHANGED <<heap, processes, loads>>

\* process_inject_arguments: argv, then the strings, are allocations of the process.
process_inject_arguments ==
  /\ load.at = "arguments"
  /\ \/ /\ process_malloc_ok(new, 1)
        /\ LET ptr == kzalloc(1)
           IN  /\ heap' = Taken(ptr, 1)
               /\ new' = process_join(new, ptr, 1)
               /\ load' = [load EXCEPT !.argv = Append(@, ptr),
                                       !.at = IF Len(load.argv) = load.count THEN "publish" ELSE @]
     \/ /\ ~ process_malloc_ok(new, 1)
        /\ Fail("arguments_out", ERROR)
        /\ UNCHANGED <<heap, new>>
  /\ UNCHANGED <<processes, loads>>

process_inject_arguments_out ==
  /\ load.at = "arguments_out"
  /\ \/ /\ load.argv = <<>>
        /\ Goto("discard")
        /\ UNCHANGED <<heap, new>>
     \/ /\ load.argv # <<>>
        /\ LET ptr == load.argv[Len(load.argv)]
           IN  /\ heap' = Freed(heap, {ptr})
               /\ new' = process_free(new, ptr)
               /\ load' = [load EXCEPT !.argv = SubSeq(@, 1, Len(@) - 1)]
  /\ UNCHANGED <<processes, loads>>

\* All that can fail has succeeded.
process_publish ==
  /\ load.at = "publish"
  /\ processes' = [s \in live \cup {load.slot} |-> IF s = load.slot THEN new ELSE processes[s]]
  /\ new' = Zeroed(new.file)
  /\ load' = [load EXCEPT !.at = "return", !.argv = <<>>]
  /\ UNCHANGED <<heap, loads>>

task_discard(p) == {p.task} \cup Directory(p)

\* A program that was not found under one search path is tried under the next one.
process_discard ==
  /\ load.at = "discard"
  /\ heap' = Freed(heap, task_discard(new) \cup {new.stack} \cup ProgramData(new) \cup {new.self})
  /\ new' = Zeroed(new.file)
  /\ load' = IF load.res = ENOENT /\ load.tries > 1
             THEN [load EXCEPT !.at = "slot", !.tries = @ - 1, !.res = "ok"]
             ELSE [load EXCEPT !.at = "return"]
  /\ UNCHANGED <<processes, loads>>

NoProgram == [elf |-> FALSE, valid |-> FALSE, size |-> 0, phdrs |-> <<>>]

AtRest == [at |-> "idle", res |-> "ok", slot |-> NULL, count |-> 0, tries |-> 0,
           snapshot |-> NULL, fd |-> NULL, argv |-> <<>>]

\* The arguments' copy is freed before the program starts.  Without a first program the
\* kernel stops.
load_return ==
  /\ load.at = "return"
  /\ heap' = Freed(heap, {load.snapshot})
  /\ load' = [AtRest EXCEPT !.at = IF live = {} THEN "panic" ELSE "idle"]
  /\ new' = Zeroed(NoProgram)
  /\ UNCHANGED <<processes, loads>>

-------------------------------------------------------------------------------
(* What the kernel may copy from and to a program *)

\* The regions that process_user_span looks through, in bytes: where they start, how many
\* bytes they have, whether they may be written, and the first page behind them.
Regions(p) ==
  {[start |-> StackPage * PageSize, size |-> StackSize, write |-> TRUE, backing |-> p.stack]}
  \cup {[start |-> p.allocations[i].ptr * PageSize, size |-> p.allocations[i].size,
         write |-> TRUE, backing |-> p.allocations[i].ptr] :
          i \in {j \in 1 .. MaxAllocations : p.allocations[j].ptr # NULL}}
  \cup (IF p.file.elf
        THEN {[start |-> p.file.phdrs[i].vaddr, size |-> p.file.phdrs[i].memsz,
               write |-> p.file.phdrs[i].write, backing |-> p.segments[i]] :
                i \in {j \in DOMAIN p.segments : p.segments[j] # NULL}}
        ELSE {[start |-> Window * PageSize, size |-> p.file.size, write |-> TRUE,
               backing |-> p.data]})


\* The regions that hold the address and may be used so.
process_user_span(p, a, write) ==
  {r \in Regions(p) : /\ a >= r.start /\ a - r.start < r.size
                      /\ write => r.write}

-------------------------------------------------------------------------------
(* The system calls of a running program *)

\* malloc (system call 4)
process_malloc(s, size) ==
  /\ idle
  /\ process_malloc_ok(processes[s], size)
  /\ LET ptr == kzalloc(size)
     IN  /\ heap' = Taken(ptr, size)
         /\ processes' = [processes EXCEPT ![s] = process_join(@, ptr, size)]
  /\ UNCHANGED <<new, load, loads>>

\* free (system call 5) of any pointer; one that is not the program's is ignored.
isr80h_command5_free(s, ptr) ==
  /\ idle
  /\ Owns(processes[s], ptr)
  /\ heap' = Freed(heap, {ptr})
  /\ processes' = [processes EXCEPT ![s] = process_free(@, ptr)]
  /\ UNCHANGED <<new, load, loads>>

\* What process_terminate_allocation frees.
Allocations(p) == {p.allocations[i].ptr : i \in 1 .. MaxAllocations}

\* A program ends.  The end of the last one stops the kernel, and is left out.
process_terminate(s) ==
  /\ idle
  /\ live # {s}
  /\ LET p == processes[s]
     IN  heap' = Freed(heap, Allocations(p) \cup task_discard(p) \cup ProgramData(p)
                               \cup {p.stack, p.self})
  /\ processes' = [q \in live \ {s} |-> processes[q]]
  /\ UNCHANGED <<new, load, loads>>

Panic == load.at = "panic" /\ UNCHANGED vars

-------------------------------------------------------------------------------
Init ==
  /\ heap = [q \in Heap |-> NULL]
  /\ processes = <<>>
  /\ new = Zeroed(NoProgram)
  /\ load = AtRest
  /\ loads = 0

LoadStep ==
  \/ copy_command_arguments \/ process_get_free_slot \/ load_process
  \/ elf_load_handle \/ elf_load_open \/ elf_load_classify \/ elf_load_memory
  \/ elf_validate_loaded \/ elf_process_loaded \/ elf_process_pheader \/ elf_load_out
  \/ load_binary_open \/ load_binary_data \/ load_binary_read \/ load_binary_out
  \/ load_stack \/ task_new
  \/ paging_new_directory \/ paging_new_table \/ paging_new_chunk \/ paging_new_out
  \/ process_map_memory \/ process_inject_arguments \/ process_inject_arguments_out
  \/ process_publish \/ process_discard \/ load_return

Next ==
  \/ \E f \in Programs, count \in 0 .. MaxArguments, tries \in 1 .. SearchPaths : Begin(f, count, tries)
  \/ LoadStep
  \/ \E s \in live : \/ \E size \in Sizes : process_malloc(s, size)
                     \/ \E ptr \in Heap : isr80h_command5_free(s, ptr)
                     \/ process_terminate(s)
  \/ Panic

Spec == Init /\ [][Next]_vars

-------------------------------------------------------------------------------
(* Properties *)

Pointers(p) ==
  <<p.self, p.elf_file, p.elf_memory, p.segment_memory, p.data, p.stack,
    p.task, p.directory, p.chunk>>
  \o p.segments \o p.tables \o [i \in 1 .. MaxAllocations |-> p.allocations[i].ptr]

\* Types of the processes and of the load's local variables (process.h, elfloader.h).
TypeOK ==
  /\ heap \in [Heap -> Heap \cup {NULL}]
  /\ live \subseteq Slots
  /\ \A p \in Range(processes) \cup {new} :
       /\ Range(Pointers(p)) \subseteq Heap \cup {NULL}
       /\ Len(p.segments) <= Len(p.file.phdrs) /\ Len(p.tables) <= Tables
       /\ DOMAIN p.map = Pages
       /\ \A v \in Pages : p.map[v].frame \in Pages
  /\ load.slot \in Slots \cup {NULL}
  /\ {load.snapshot, load.fd} \subseteq Heap \cup {NULL}
  /\ Len(load.argv) <= load.count + 1
  /\ loads \in 0 .. MaxLoads

\* All pointers to memory: of the processes, of the one that is being loaded, and of
\* the load itself.
Everyone == FoldSet(LAMBDA s, seq : Pointers(processes[s]) \o seq,
                    Pointers(new) \o <<load.snapshot, load.fd>>, live)


\* What a process holds for its program, and what of it the program may write.
ForProgram(p) == ({p.stack, p.data} \cup Range(p.segments) \cup Allocations(p)) \ {NULL}
Writable(p)   == ForProgram(p) \ {p.segments[i] : i \in {j \in DOMAIN p.segments :
                                                           ~ p.file.phdrs[j].write}}

\* Whenever programs run, a program can touch only pages of its own stack, segments and allocations, and can
\* write no page of a read-only segment.  In particular memory that went back to the
\* heap is out of its reach, whoever gets it next.
OnlyOwnPages ==
  idle => \A s \in live : \A v \in Pages :
    LET p == processes[s]
    IN  /\ p.map[v].rights # NoRights =>
             p.map[v].frame \in Heap /\ heap[p.map[v].frame] \in ForProgram(p)
        /\ p.map[v].rights = MayWrite => heap[p.map[v].frame] \in Writable(p)

================================================================================
