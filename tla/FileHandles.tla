------------------------------ MODULE FileHandles ------------------------------
(***************************************************************************)
(* Opening, using and closing files: the handles of a process              *)
(* (task/process.c, isr80h/file.c), the kernel's descriptors (fs/file.c),   *)
(* the memory of a parsed path (fs/pparser.c) and of an open file           *)
(* (fs/fat/fat16.c), and the loader's own use of a file.                    *)
(*                                                                         *)
(* A system call runs with interrupts off.  An open is a sequence of steps, *)
(* one for each thing that can fail: every kzalloc may find the heap        *)
(* exhausted, every write may find the disk failing, and each failure       *)
(* unwinds by the path the code takes from there.  What the disk holds and  *)
(* how it is written is modelled in Fat16; here a file is absent, empty or  *)
(* has data.                                                                *)
(***************************************************************************)
EXTENDS Integers, FiniteSetsExt

CONSTANTS
  Processes,        \* process slots
  MaxOpen,          \* RORTHOX_FILE_MAX_OPEN
  MaxDescriptors,   \* RORTHOX_MAX_FILE_DESCRIPTORS
  Programs,         \* the sets of names that programs open: each run has one of them
  Directories,      \* those that are directories
  ReadOnly,         \* those with the read-only attribute
  Nested,           \* those in a subdirectory; the others are in the root
  UnderFile         \* those whose path goes through a file as if it were a directory

Handles == 1 .. MaxOpen
Fds     == 1 .. MaxDescriptors
Modes   == {"READ", "WRITE", "APPEND"}
KERNEL  == "kernel"     \* the loader, which opens files without a handle
CALL    == 0            \* the owner of memory that the call in progress holds
RESERVED == -1

ASSUME HandlesAssumption ==
  /\ IsFiniteSet(Processes) /\ KERNEL \notin Processes
  /\ {MaxOpen, MaxDescriptors} \subseteq Nat \ {0}
  /\ Directories \cup ReadOnly \cup Nested \subseteq UNION Programs
  /\ UnderFile \subseteq Nested \ (Directories \cup ReadOnly)
  /\ Directories \cap ReadOnly = {}
  /\ "none" \notin UNION Programs

VARIABLES
  processes,         \* the live processes
  files,             \* of each process: process->files
  file_descriptors,  \* of each fd in use: the file and mode of its private data
  heap,              \* the blocks in use: <<kind, part of the path, owner>>
  descriptors,       \* private->descriptors: the owners of its members
  contents,          \* of each name: "absent", "empty" or "data"
  mutation_disabled, \* a write has failed
  call,              \* where the call in progress is, and its local variables
  before             \* history: contents and mutation_disabled when it began

vars == <<processes, files, file_descriptors, heap, descriptors, contents,
          mutation_disabled, call, before>>

Names == DOMAIN contents

Parts(n) == IF n \in Nested THEN 2 ELSE 1

Unused == [name |-> "none", mode |-> "none"]
Quiet  == [at |-> "idle", proc |-> KERNEL, handle |-> 0, name |-> "none", mode |-> "none",
           fd |-> 0, part |-> 0, creating |-> FALSE]

idle == call.at = "idle"
At(label)   == call.at = label
Goto(label) == call' = [call EXCEPT !.at = label]

-------------------------------------------------------------------------------
(* Memory *)

Block(kind, part) == <<kind, part, CALL>>

\* A kzalloc that gives memory, or does not and goes elsewhere, kfree'ing what the code
\* frees there.
kzalloc(block, next, failed, freed) ==
  \/ /\ heap' = heap \cup {block}
     /\ Goto(next)
  \/ /\ heap' = heap \ freed
     /\ Goto(failed)

\* A kfree of each of the blocks, and where the call goes on.
kfree(blocks, next) ==
  /\ heap' = heap \ blocks
  /\ Goto(next)

\* What pathparser_free frees: the root and the parts that are linked to it.
pathparser_free ==
  {Block("root", 0)} \cup {b \in heap : b[1] \in {"name", "part"} /\ Block("part", b[2]) \in heap}

\* The blocks of a fat_item: itself and a directory with its items, or a file's entry.
ItemKinds == {"item", "directory", "items", "entry"}
fat16_fat_item_free(part, owner) == {<<kind, part, owner>> : kind \in ItemKinds}

\* What the private data of an open file consists of.
PrivateData(n, owner) == fat16_fat_item_free(Parts(n), owner) \cup {<<"fat", 0, owner>>}

-------------------------------------------------------------------------------
(* fopen_status: parsing the path *)

\* process_open_file and file_open: a handle is reserved, the lowest.  Without one, and
\* with a path or a mode that file_open refuses, the call changes nothing.
isr80h_command_file_open(p, n, mode) ==
  /\ idle
  /\ p \in processes
  /\ \E h \in Handles :
       /\ files[p][h] = 0
       /\ \A g \in 1 .. h - 1 : files[p][g] # 0
       /\ files' = [files EXCEPT ![p][h] = RESERVED]
       /\ call' = [Quiet EXCEPT !.at = "root", !.proc = p, !.handle = h, !.name = n, !.mode = mode]
  /\ before' = [contents |-> contents, broken |-> mutation_disabled]
  /\ UNCHANGED <<processes, file_descriptors, heap, descriptors, contents, mutation_disabled>>

\* elf_load and process_load_binary open the program's file to read it.
load_open(n) ==
  /\ idle
  /\ call' = [Quiet EXCEPT !.at = "root", !.name = n, !.mode = "READ"]
  /\ before' = [contents |-> contents, broken |-> mutation_disabled]
  /\ UNCHANGED <<processes, files, file_descriptors, heap, descriptors, contents,
                 mutation_disabled>>

onlyMemory == <<processes, files, file_descriptors, descriptors, contents, mutation_disabled, before>>

pathparser_create_root ==
  /\ At("root")
  /\ \/ /\ heap' = heap \cup {Block("root", 0)}
        /\ call' = [call EXCEPT !.at = "name", !.part = 1]
     \/ /\ Goto("refused")
        /\ UNCHANGED heap
  /\ UNCHANGED onlyMemory

pathparser_get_path_part ==
  /\ At("name")
  /\ kzalloc(Block("name", call.part), "part", "refused", pathparser_free)
  /\ UNCHANGED onlyMemory

\* Mutant: the descriptor is taken after the file is open, whatever the mode.
pathparser_parse_path_part_LateDescriptor ==
  /\ At("part")
  /\ \/ /\ heap' = heap \cup {Block("part", call.part)}
        /\ call' = IF call.part < Parts(call.name)
                   THEN [call EXCEPT !.at = "name", !.part = @ + 1]
                   ELSE [call EXCEPT !.at = IF call.mode = "READ" THEN "fat" ELSE "prepare"]
     \/ kfree(pathparser_free \cup {Block("name", call.part)}, "refused")
  /\ UNCHANGED onlyMemory

\* The part, linked to the one before it; then the next one, if there is one.
pathparser_parse_path_part ==
  /\ At("part")
  /\ \/ /\ heap' = heap \cup {Block("part", call.part)}
        /\ call' = IF call.part < Parts(call.name)
                   THEN [call EXCEPT !.at = "name", !.part = @ + 1]
                   ELSE [call EXCEPT !.at = IF call.mode = "READ" THEN "fat" ELSE "reserve"]
     \/ kfree(pathparser_free \cup {Block("name", call.part)}, "refused")
  /\ UNCHANGED onlyMemory

-------------------------------------------------------------------------------
(* fopen_status: the descriptor.  To write, it is reserved before the file system *)
(* opens the file; to read, it is taken after.                                    *)

FreeFds == {fd \in Fds : file_descriptors[fd] = Unused}

\* Mutant: the loop runs one past the end of the table.
file_new_descriptor_PastEnd(next, failed) ==
  LET fd == Min(FreeFds \cup {MaxDescriptors + 1})
  IN  /\ heap' = heap \cup {<<"descriptor", 0, fd>>}
      /\ file_descriptors' = [f \in Fds |-> IF f = fd THEN [name |-> call.name, mode |-> call.mode]
                                           ELSE file_descriptors[f]]
      /\ call' = [call EXCEPT !.at = next, !.fd = fd]

\* file_new_descriptor: the lowest free one, and memory for it.
file_new_descriptor(next, failed) ==
  \/ /\ FreeFds # {}
     /\ LET fd == Min(FreeFds)
        IN  /\ heap' = heap \cup {<<"descriptor", 0, fd>>}
            /\ file_descriptors' = [file_descriptors EXCEPT ![fd] = [name |-> call.name, mode |-> call.mode]]
            /\ call' = [call EXCEPT !.at = next, !.fd = fd]
  \/ /\ Goto(failed)
     /\ UNCHANGED <<heap, file_descriptors>>

ReserveDescriptor ==
  /\ At("reserve")
  /\ file_new_descriptor("prepare", "out")
  /\ UNCHANGED <<processes, files, descriptors, contents, mutation_disabled, before>>

-------------------------------------------------------------------------------
(* fat16_open *)

fat16_prepare_write ==
  /\ At("prepare")
  /\ \/ ~ mutation_disabled /\ Goto("fat")
     \/ Goto("err_out")
  /\ UNCHANGED <<heap, onlyMemory>>

NewFatDescriptor ==
  /\ At("fat")
  /\ \/ /\ heap' = heap \cup {Block("fat", 0)}
        /\ call' = [call EXCEPT !.at = "find", !.part = 1]
     \/ /\ Goto("err_out")
        /\ UNCHANGED heap
  /\ UNCHANGED onlyMemory

IsLast == call.part = Parts(call.name)
IsDirectory == IF IsLast THEN call.name \in Directories ELSE call.name \notin UnderFile

\* The item of the directory before this part of the path.
Parent == fat16_fat_item_free(call.part - 1, CALL)

\* fat16_find_item_in_directory.  The disk may fail, as it does when what was found before
\* is not a directory; the last part of the path may not be there.  On the way to a file that is to be created only its directory is looked for.
fat16_find_item_in_directory ==
  /\ At("find")
  /\ \/ kfree(Parent, "err_out")
     \/ /\ ~ IsLast \/ (contents[call.name] # "absent" /\ call.name \notin UnderFile)
        /\ Goto("item")
        /\ UNCHANGED heap
     \/ /\ IsLast /\ contents[call.name] = "absent" /\ call.name \notin UnderFile
        /\ heap' = heap \ Parent
        /\ call' = IF call.mode = "READ" THEN [call EXCEPT !.at = "err_out"]
                   ELSE [call EXCEPT !.at = IF Parts(call.name) = 1 THEN "create" ELSE "find",
                                     !.part = 1, !.creating = TRUE]
  /\ UNCHANGED onlyMemory

\* fat16_new_fat_item_for_directory_item, and fat16_load_fat_directory.  The directory
\* the item was found in is freed after it, whether it worked or not.
fat16_new_fat_item ==
  /\ At("item")
  /\ kzalloc(Block("item", call.part), IF IsDirectory THEN "directory" ELSE "entry", "err_out", Parent)
  /\ UNCHANGED onlyMemory

fat16_load_fat_directory ==
  /\ At("directory")
  /\ kzalloc(Block("directory", call.part), "items", "err_out",
             Parent \cup {Block("item", call.part)})
  /\ UNCHANGED onlyMemory

\* Mutant: the directory is freed, the item that was to hold it is not.
LoadItems_KeepsItem ==
  /\ At("items")
  /\ \/ /\ heap' = (heap \cup {Block("items", call.part)}) \ Parent
        /\ call' = IF IsLast THEN [call EXCEPT !.at = "found"]
                   ELSE IF call.creating THEN [call EXCEPT !.at = "create", !.part = @ + 1]
                   ELSE [call EXCEPT !.at = "find", !.part = @ + 1]
     \/ kfree(Parent \cup {Block("directory", call.part)}, "err_out")
  /\ UNCHANGED onlyMemory

LoadItems ==
  /\ At("items")
  /\ \/ /\ heap' = (heap \cup {Block("items", call.part)}) \ Parent
        /\ call' = IF IsLast THEN [call EXCEPT !.at = "found"]
                   ELSE IF call.creating THEN [call EXCEPT !.at = "create", !.part = @ + 1]
                   ELSE [call EXCEPT !.at = "find", !.part = @ + 1]
     \/ kfree(Parent \cup fat16_fat_item_free(call.part, CALL), "err_out")
  /\ UNCHANGED onlyMemory

fat_16_clone_directory_item ==
  /\ At("entry")
  /\ \/ /\ heap' = (heap \cup {Block("entry", call.part)}) \ Parent
        /\ call' = IF IsLast THEN [call EXCEPT !.at = "found"]
                   ELSE [call EXCEPT !.at = "find", !.part = @ + 1]
     \/ kfree(Parent \cup {Block("item", call.part)}, "err_out")
  /\ UNCHANGED onlyMemory

\* fat16_open, once it has the item of an existing name.
fat16_open_existing ==
  /\ At("found")
  /\ \/ call.mode = "READ" /\ Goto("push")
     \/ call.mode # "READ" /\ call.name \in Directories \cup ReadOnly /\ Goto("err_item")
     \/ call.mode # "READ" /\ call.name \notin Directories \cup ReadOnly /\ Goto("chain")
  /\ UNCHANGED <<heap, onlyMemory>>

\* fat16_collect_chain takes memory for the chain; a chain that does not fit the file is
\* refused.  Only fat16_check_file_chain (APPEND) is then done.
fat16_collect_chain ==
  /\ At("chain")
  /\ \/ /\ call.mode = "APPEND"
        /\ Goto("push") \/ Goto("err_item")
        /\ UNCHANGED heap
     \/ /\ call.mode = "WRITE"
        /\ kzalloc(Block("chain", 0), "truncate", "err_item", {})
  /\ UNCHANGED onlyMemory

\* A change of the call's file on the disk: it is made, or the disk fails, whether or not
\* the change is on it, and there are no more writes until the next boot.
Commit(now, freed, failed_freed, failed) ==
  \/ /\ contents' = [contents EXCEPT ![call.name] = now]
     /\ kfree(freed, "push")
     /\ UNCHANGED mutation_disabled
  \/ /\ contents' \in {contents, [contents EXCEPT ![call.name] = now]}
     /\ kfree(failed_freed, failed)
     /\ mutation_disabled' = TRUE

fat16_truncate ==
  /\ At("truncate")
  /\ Commit("empty", {Block("chain", 0)}, {Block("chain", 0)}, "err_item")
  /\ UNCHANGED <<processes, files, file_descriptors, descriptors, before>>

\* fat16_create: without a free slot in the directory there is no space.  The item of the
\* new file is allocated before anything is written.
FindSlot ==
  /\ At("create")
  /\ \/ /\ Goto("create_item")
        /\ UNCHANGED heap
     \/ kfree(Parent, "err_out")
  /\ UNCHANGED onlyMemory

CreateItem ==
  /\ At("create_item")
  /\ kzalloc(Block("item", call.part), "create_entry", "err_out", Parent)
  /\ UNCHANGED onlyMemory

CreateEntry ==
  /\ At("create_entry")
  /\ kzalloc(Block("entry", call.part), "commit", "err_out", Parent \cup {Block("item", call.part)})
  /\ UNCHANGED onlyMemory

fat16_create ==
  /\ At("commit")
  /\ Commit("empty", Parent, Parent \cup fat16_fat_item_free(call.part, CALL), "err_out")
  /\ UNCHANGED <<processes, files, file_descriptors, descriptors, before>>

\* Mutant: only a file that was opened to write enters the list.
fat16_open_push_Writers ==
  /\ At("push")
  /\ descriptors' = IF call.mode = "READ" THEN descriptors ELSE descriptors \cup {CALL}
  /\ Goto(IF call.fd = 0 THEN "descriptor" ELSE "open")
  /\ UNCHANGED <<processes, files, file_descriptors, heap, contents, mutation_disabled, before>>

\* The open file enters the list that fat16_publish keeps up to date.
fat16_open_push ==
  /\ At("push")
  /\ descriptors' = descriptors \cup {CALL}
  /\ Goto(IF call.fd = 0 THEN "descriptor" ELSE "open")
  /\ UNCHANGED <<processes, files, file_descriptors, heap, contents, mutation_disabled, before>>

\* err_out of fat16_open, with the item that was found or without one.
fat16_open_err_out ==
  /\ \/ At("err_out") /\ kfree({Block("fat", 0)}, "out")
     \/ At("err_item") /\ kfree(PrivateData(call.name, CALL), "out")
  /\ UNCHANGED onlyMemory

-------------------------------------------------------------------------------
(* fopen_status: the end *)

\* The descriptor of a file opened to read; without one the file system closes the file.
TakeDescriptor ==
  /\ At("descriptor")
  /\ \/ /\ file_new_descriptor("open", "descriptor")
        /\ call' # call
        /\ UNCHANGED descriptors
     \/ /\ kfree(PrivateData(call.name, CALL), "out")
        /\ descriptors' = descriptors \ {CALL}
        /\ UNCHANGED file_descriptors
  /\ UNCHANGED <<processes, files, contents, mutation_disabled, before>>

\* The blocks of the private data, which are the descriptor's from now on.
HandOver == LET mine == heap \cap PrivateData(call.name, CALL)
            IN  (heap \ mine) \cup {<<b[1], b[2], call.fd>> : b \in mine}

\* The descriptor gets the file system's private data, and the path is freed.
DescriptorOpen ==
  /\ At("open")
  /\ heap' = HandOver \ pathparser_free
  /\ descriptors' = {IF d = CALL THEN call.fd ELSE d : d \in descriptors}
  /\ Goto(IF call.proc = KERNEL THEN "loader" ELSE "stat")
  /\ UNCHANGED <<processes, files, file_descriptors, contents, mutation_disabled, before>>

\* Mutant: a reserved descriptor is not given back.
fopen_status_out_KeepsDescriptor ==
  /\ At("out")
  /\ kfree(pathparser_free, "refused")
  /\ UNCHANGED onlyMemory

\* out: with an error.
fopen_status_out ==
  /\ At("out")
  /\ kfree(pathparser_free \cup {<<"descriptor", 0, call.fd>>}, "refused")
  /\ file_descriptors' = [fd \in Fds |-> IF fd = call.fd THEN Unused ELSE file_descriptors[fd]]
  /\ UNCHANGED <<processes, files, descriptors, contents, mutation_disabled, before>>

\* What fclose of these descriptors leaves: fat16_close takes the file from the list and
\* frees the private data, file_free_descriptor the rest.
fclose(fds) ==
  /\ descriptors' = descriptors \ fds
  /\ heap' = heap \ UNION {PrivateData(file_descriptors[fd].name, fd) \cup {<<"descriptor", 0, fd>>} :
                             fd \in fds}
  /\ file_descriptors' = [fd \in Fds |-> IF fd \in fds THEN Unused ELSE file_descriptors[fd]]

\* file_open asks for the file's size, which a directory has not, and closes it again.
file_open_stat ==
  /\ At("stat")
  /\ \/ /\ call.name \notin Directories
        /\ files' = [files EXCEPT ![call.proc][call.handle] = call.fd]
        /\ call' = Quiet
        /\ UNCHANGED <<file_descriptors, heap, descriptors>>
     \/ /\ call.name \in Directories
        /\ fclose({call.fd})
        /\ Goto("refused")
        /\ UNCHANGED files
  /\ UNCHANGED <<processes, contents, mutation_disabled, before>>

\* The error reaches process_open_file, or the loader.
Refused ==
  /\ At("refused")
  /\ files' = IF call.proc = KERNEL THEN files ELSE [files EXCEPT ![call.proc][call.handle] = 0]
  /\ call' = Quiet
  /\ UNCHANGED <<processes, file_descriptors, heap, descriptors, contents, mutation_disabled,
                 before>>

\* The loader closes its file on every path.
load_close ==
  /\ At("loader")
  /\ fclose({call.fd})
  /\ call' = Quiet
  /\ UNCHANGED <<processes, files, contents, mutation_disabled, before>>

-------------------------------------------------------------------------------
(* Using and closing files *)

Open(p, h) == p \in processes /\ h \in Handles /\ files[p][h] > 0

\* isr80h_file_transfer: a buffer is taken, used and freed again.  A write through a
\* handle that was opened to read is refused before that.  Reads and seeks change a
\* position only.
isr80h_file_transfer(p, h) ==
  /\ idle
  /\ Open(p, h)
  /\ file_descriptors[files[p][h]].mode # "READ"
  /\ heap' = heap \cup {Block("buffer", 0)}
  /\ call' = [Quiet EXCEPT !.at = "transfer", !.proc = p, !.handle = h,
                           !.name = file_descriptors[files[p][h]].name]
  /\ before' = [contents |-> contents, broken |-> mutation_disabled]
  /\ UNCHANGED <<processes, files, file_descriptors, descriptors, contents, mutation_disabled>>

\* file_write with a failure before anything is written, a success, or a failing disk.
file_write ==
  /\ At("transfer")
  /\ \/ UNCHANGED <<contents, mutation_disabled>>
     \/ /\ ~ mutation_disabled
        /\ contents' = [contents EXCEPT ![call.name] = "data"]
        /\ UNCHANGED mutation_disabled
     \/ /\ ~ mutation_disabled
        /\ contents' \in {contents, [contents EXCEPT ![call.name] = "data"]}
        /\ mutation_disabled' = TRUE
  /\ heap' = heap \ {Block("buffer", 0)}
  /\ call' = Quiet
  /\ UNCHANGED <<processes, files, file_descriptors, descriptors, before>>

process_close_file(p, h) ==
  /\ idle
  /\ Open(p, h)
  /\ files' = [files EXCEPT ![p][h] = 0]
  /\ fclose({files[p][h]})
  /\ UNCHANGED <<processes, contents, mutation_disabled, call, before>>

\* process_close_files, at the end of a process.
process_terminate(p) ==
  /\ idle
  /\ p \in processes
  /\ fclose({files[p][h] : h \in {g \in Handles : files[p][g] > 0}})
  /\ files' = [files EXCEPT ![p] = [h \in Handles |-> 0]]
  /\ processes' = processes \ {p}
  /\ UNCHANGED <<contents, mutation_disabled, call, before>>

\* process_init: no handles.
process_load(p) ==
  /\ idle
  /\ p \notin processes
  /\ processes' = processes \cup {p}
  /\ files' = [files EXCEPT ![p] = [h \in Handles |-> 0]]
  /\ UNCHANGED <<file_descriptors, heap, descriptors, contents, mutation_disabled, call, before>>

-------------------------------------------------------------------------------
Init ==
  /\ processes = {}
  /\ files = [p \in Processes |-> [h \in Handles |-> 0]]
  /\ file_descriptors = [fd \in Fds |-> Unused]
  /\ heap = {}
  /\ descriptors = {}
  /\ \E names \in Programs : contents \in [names -> {"absent", "data"}]
  /\ \A n \in Names :
       /\ n \in Directories \cup ReadOnly => contents[n] = "data"
       /\ n \in UnderFile => contents[n] = "absent"
  /\ mutation_disabled = FALSE
  /\ call = Quiet
  /\ before = [contents |-> contents, broken |-> mutation_disabled]

fopen_status ==
  \/ pathparser_create_root
  \/ pathparser_get_path_part
  \/ pathparser_parse_path_part
  \/ ReserveDescriptor
  \/ TakeDescriptor
  \/ DescriptorOpen
  \/ fopen_status_out

fat16_open ==
  \/ fat16_prepare_write
  \/ NewFatDescriptor
  \/ fat16_find_item_in_directory
  \/ fat16_new_fat_item
  \/ fat16_load_fat_directory
  \/ LoadItems
  \/ fat_16_clone_directory_item
  \/ fat16_open_existing
  \/ fat16_collect_chain
  \/ fat16_truncate
  \/ FindSlot
  \/ CreateItem
  \/ CreateEntry
  \/ fat16_create
  \/ fat16_open_push
  \/ fat16_open_err_out

Next ==
  \/ \E p \in Processes :
       \/ process_load(p)
       \/ process_terminate(p)
       \/ \E n \in Names, mode \in Modes : isr80h_command_file_open(p, n, mode)
       \/ \E h \in Handles : isr80h_file_transfer(p, h) \/ process_close_file(p, h)
  \/ \E n \in Names : load_open(n)
  \/ fopen_status
  \/ fat16_open
  \/ file_open_stat
  \/ Refused
  \/ load_close
  \/ file_write

Spec == Init /\ [][Next]_vars

-------------------------------------------------------------------------------
(* Properties *)

\* Types of the handles, the descriptors, and the blocks of memory.
TypeOK ==
  /\ processes \subseteq Processes
  /\ files \in [Processes -> [Handles -> {RESERVED, 0} \cup Fds]]
  /\ file_descriptors \in [Fds -> [name : Names \cup {"none"}, mode : Modes \cup {"none"}]]
  /\ \A b \in heap : b[3] \in {CALL} \cup Fds
  /\ descriptors \subseteq {CALL} \cup Fds
  /\ contents \in [Names -> {"absent", "empty", "data"}]
  /\ mutation_disabled \in BOOLEAN
  /\ call.fd \in {0} \cup Fds /\ call.handle \in {0} \cup Handles

InUse == {fd \in Fds : file_descriptors[fd] # Unused}

\* Between calls the memory in use is exactly that of the open files: their descriptor,
\* the file system's descriptor, and the item with its entry.  Whatever failed in an
\* open, nothing leaks, and nothing an open file needs is gone.
OnlyOpenFilesHoldMemory ==
  idle => heap = {<<"descriptor", 0, fd>> : fd \in InUse}
                 \cup {<<"fat", 0, fd>> : fd \in InUse}
                 \cup {<<kind, Parts(file_descriptors[fd].name), fd>> : kind \in {"item", "entry"}, fd \in InUse}

\* Between calls every descriptor in use is held by one handle of one live process, and
\* every handle holds a descriptor in use: no open, close or end of a process leaves a
\* descriptor without a holder, two holders, or a handle to a descriptor that was freed
\* and may be somebody else's by now.
OneHolder ==
  idle =>
    /\ \A p \in Processes, h \in Handles :
         files[p][h] # 0 => p \in processes /\ files[p][h] \in InUse
    /\ \A fd \in InUse :
         Cardinality({ph \in Processes \X Handles : files[ph[1]][ph[2]] = fd}) = 1

\* Memory, descriptors and handles account for each other: what is not reached from a handle
\* of a live process is free.
NothingLeaks == TypeOK /\ OnlyOpenFilesHoldMemory /\ OneHolder

\* The list through which fat16_publish reaches the open files has all of them and no
\* freed one, between calls and whenever a call is about to change a file on the disk.
ListedWhenPublishing ==
  idle \/ At("truncate") \/ At("commit") \/ At("transfer") =>
    descriptors = {fd \in InUse : fd # call.fd}

\* What a process sees of its handles.
Held == [p \in Processes |-> [h \in Handles |->
           IF files[p][h] > 0 THEN file_descriptors[files[p][h]] ELSE Unused]]

Promised == INSTANCE FileTable WITH
  contents <- IF idle THEN contents ELSE before.contents,
  held     <- Held,
  broken   <- IF idle THEN mutation_disabled ELSE before.broken

\* An open succeeds and does what its mode says, or changes nothing at all, short of a
\* disk that fails: a file is never created or truncated by an open that is then refused
\* for want of memory or of a descriptor.  And a write through a handle reaches the file
\* that this process opened with it, whatever the other processes open and close.
ImplementsFileTable == Promised!Spec
================================================================================
