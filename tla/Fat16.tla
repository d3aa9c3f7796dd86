--------------------------------- MODULE Fat16 ---------------------------------
(***************************************************************************)
(* Writing files: kernel/fs/fat/fat16.c over the streamer, the ATA driver  *)
(* and a drive with a volatile write cache.                                *)
(*                                                                         *)
(* A system call runs with interrupts off and reads all it needs before it *)
(* changes anything, so the changes it makes are known when it starts: its *)
(* script, a sequence of sector writes, cache flushes and updates of the   *)
(* driver's memory.  Each command of the script is a step; between any two *)
(* the machine may stop, and each command to the drive may fail.           *)
(*                                                                         *)
(* A FAT entry, a directory entry and a cell of file data are each written *)
(* and lost on their own.  Entries that share a sector on the disk can be  *)
(* lost in fewer ways than that.                                           *)
(***************************************************************************)
EXTENDS Integers, Sequences, FiniteSets, SequencesExt

CONSTANTS
  Files,        \* names, each with a directory slot of its own
  InRoot,       \* those in the root directory; the others are in a subdirectory
  MaxCluster,   \* clusters are 2 .. MaxCluster
  Cells,        \* cells of data in a cluster
  Values,       \* what programs write
  MaxSize,      \* bound on a file's size, in cells
  Descriptors,  \* descriptors of the driver's list
  MaxCrashes,   \* bound on the number of crashes
  MaxFailures   \* bound on the number of failed commands

Clusters == 2 .. MaxCluster
EOC  == 65535    \* the end of a chain
Zero == 0        \* zero-filled data
Junk == -1       \* what a free cluster holds from the past

ASSUME FatAssumption ==
  /\ IsFiniteSet(Files) /\ InRoot \subseteq Files
  /\ MaxCluster \in 2 .. 65524
  /\ Cells \in Nat \ {0}
  /\ Values \cap {Zero, Junk} = {}
  /\ {MaxSize, MaxCrashes, MaxFailures} \subseteq Nat

FatAt(copy, c)  == <<"fat", copy, c>>
DirAt(f)        == <<"dir", f, 0>>
DataAt(c, i)    == <<"data", c, i>>

Locations == {FatAt(copy, c) : copy \in {0, 1}, c \in Clusters}
             \cup {DirAt(f) : f \in Files}
             \cup {DataAt(c, i) : c \in Clusters, i \in 0 .. Cells - 1}

Item(first, size) == [used |-> TRUE, first |-> first, size |-> size]
NoItem == [used |-> FALSE, first |-> 0, size |-> 0]

VARIABLES
  latest,             \* what a read of the disk gives
  media,              \* what is on the disk for certain
  pending,            \* the writes that may or may not have reached it
  root,               \* the root directory's items, kept in memory
  desc,               \* open descriptors: file, mode, pos, and a copy of the item
  write_ready,        \* the FATs have been compared since boot
  mutation_disabled,  \* a write or a flush has failed since boot
  script,             \* what is left to do of the call in progress
  told,               \* history: the contents the callers know of, per file
  goal,               \* history: the contents the call in progress is to leave
  crashes,            \* history: crashes so far
  failures            \* history: failed commands so far

diskVars == <<latest, media, pending>>
memVars  == <<root, desc, write_ready, mutation_disabled>>
history  == <<told, goal, crashes, failures>>
vars     == <<latest, media, pending, root, desc, write_ready, mutation_disabled,
              script, told, goal, crashes, failures>>

Modes  == {"READ", "WRITE", "APPEND"}
Closed == [file |-> 0, mode |-> "closed", pos |-> 0, item |-> NoItem]
Absent == <<Junk>>       \* the contents of a file that does not exist

-------------------------------------------------------------------------------
(* Chains *)

\* The clusters met on the way from first, in one of the FATs of a disk; the walk
\* stands still once it leaves the clusters.
Walk(disk, copy, first) ==
  LET walk[k \in 0 .. MaxCluster] ==
        IF k = 0 THEN first
        ELSE IF walk[k - 1] \in Clusters THEN disk[FatAt(copy, walk[k - 1])] ELSE walk[k - 1]
  IN  walk

\* The chain from first, and whether it ends as a chain should.
Chain(disk, copy, first) ==
  LET walk == Walk(disk, copy, first)
      n    == Cardinality({k \in DOMAIN walk : walk[k] \in Clusters})
  IN  [i \in 1 .. n |-> walk[i - 1]]

ChainEnds(disk, copy, first) ==
  \/ first = 0
  \/ first # EOC /\ Walk(disk, copy, first)[MaxCluster] = EOC

Needed(size) == (size + Cells - 1) \div Cells

\* fat16_collect_chain, which reads FAT 1.
fat16_collect_chain_ok(item) ==
  /\ ChainEnds(latest, 0, item.first)
  /\ Len(Chain(latest, 0, item.first)) >= Needed(item.size)

fat16_check_file_chain(item) ==
  /\ fat16_collect_chain_ok(item)
  /\ Len(Chain(latest, 0, item.first)) = Needed(item.size)

FreeClusters == {c \in Clusters : \A copy \in {0, 1} : latest[FatAt(copy, c)] = 0}

\* The lowest n of the clusters that both FATs call free; there must be as many.
fat16_allocate(n) == SubSeq(SetToSortSeq(FreeClusters, <), 1, n)

\* What reading an item through one FAT of a disk gives; Junk where the chain is too
\* short for the size.
Contents(disk, copy, item) ==
  IF ~ item.used THEN Absent
  ELSE LET chain == Chain(disk, copy, item.first)
       IN  [i \in 1 .. item.size |->
              IF Needed(i) <= Len(chain)
              THEN disk[DataAt(chain[Needed(i)], (i - 1) % Cells)] ELSE Junk]

-------------------------------------------------------------------------------
(* Scripts *)

Write(at, val)   == <<[op |-> "write", at |-> at, val |-> val]>>
Flush            == <<[op |-> "flush"]>>
Publish(f, item) == <<[op |-> "publish", file |-> f, item |-> item]>>
Return(d, new)   == <<[op |-> "return", d |-> d, new |-> new]>>

\* The commands of a loop that does cmd(i) for each i in 1 .. n.
Each(n, cmd(_)) == FlattenSeq([i \in 1 .. n |-> cmd(i)])

fat16_set_entry(copy, c, val) == Write(FatAt(copy, c), val)

\* Mutant: the entry is published before it is known to be on the disk.
fat16_commit_item_Unflushed(f, item) == Write(DirAt(f), item) \o Publish(f, item)

fat16_commit_item(f, item) == Write(DirAt(f), item) \o Flush \o Publish(f, item)

\* One of the FATs marks the clusters of a chain free.
FreeChain(copy, chain) ==
  Each(Len(chain), LAMBDA i : fat16_set_entry(copy, chain[i], 0)) \o Flush

\* Mutant: the clusters are freed while the entry still names them.
fat16_truncate_FreeFirst(f, chain) ==
  FreeChain(0, chain) \o FreeChain(1, chain) \o fat16_commit_item(f, Item(0, 0))

\* Mutant: the loop starts with the second cluster.
fat16_truncate_KeepFirst(f, chain) ==
  fat16_commit_item(f, Item(0, 0))
    \o IF chain = <<>> THEN <<>> ELSE FreeChain(0, Tail(chain)) \o FreeChain(1, Tail(chain))

\* The entry loses its clusters first; then FAT 1 and FAT 2 free them.
fat16_truncate(f, chain) ==
  fat16_commit_item(f, Item(0, 0))
    \o IF chain = <<>> THEN <<>> ELSE FreeChain(0, chain) \o FreeChain(1, chain)

fat16_create(f) == fat16_commit_item(f, Item(0, 0))

\* The data of a write at position start: the clusters new are zeroed, the values go
\* where they belong in the chain.
PutData(chain, new, start, data) ==
  Each(Len(new), LAMBDA i : Each(Cells, LAMBDA j : Write(DataAt(new[i], j - 1), Zero)))
    \o Each(Len(data), LAMBDA i :
         LET p == start + i - 1
         IN  Write(DataAt(chain[p \div Cells + 1], p % Cells), data[i]))

\* Mutant: the data is not flushed before the clusters that hold it are chained.
WriteData_Unflushed(chain, new, start, data) == PutData(chain, new, start, data)

WriteData(chain, new, start, data) == PutData(chain, new, start, data) \o Flush

\* The clusters new are chained in each FAT, and then hung on the end of the chain old.
GrowChain(old, new) ==
  LET extend(copy) == Each(Len(new), LAMBDA i :
                        fat16_set_entry(copy, new[i], IF i < Len(new) THEN new[i + 1] ELSE EOC))
                      \o Flush
      link(copy)   == fat16_set_entry(copy, Last(old), new[1]) \o Flush
  IN  IF new = <<>> THEN <<>>
      ELSE extend(0) \o extend(1) \o IF old = <<>> THEN <<>> ELSE link(0) \o link(1)

\* Mutant: the directory entry is written before the data.
fat16_write_bytes_EntryFirst(f, size, old, new, start, data) ==
  GrowChain(old, new)
    \o fat16_commit_item(f, Item((old \o new)[1], size))
    \o WriteData(old \o new, new, start, data)

\* A write of the values data at position start of a file of the given size after the
\* write, whose chain old the clusters new extend.
fat16_write_bytes(f, size, old, new, start, data) ==
  WriteData(old \o new, new, start, data)
    \o GrowChain(old, new)
    \o fat16_commit_item(f, Item((old \o new)[1], size))

-------------------------------------------------------------------------------
(* System calls.  All start when no other is in progress. *)

Idle == script = <<>>

FatsEqual(disk) == \A c \in Clusters : disk[FatAt(0, c)] = disk[FatAt(1, c)]

\* Mutant: the FATs are not compared.
fat16_prepare_write_Trusting == ~ mutation_disabled /\ write_ready' = TRUE

\* fat16_prepare_write succeeds.
fat16_prepare_write ==
  /\ ~ mutation_disabled
  /\ write_ready \/ FatsEqual(latest)
  /\ write_ready' = TRUE

\* fat16_get_directory_entry: the root directory is searched in memory, a
\* subdirectory on the disk.
Lookup(f) == IF f \in InRoot THEN root[f] ELSE latest[DirAt(f)]

Open(f, mode, item) ==
  [file |-> f, mode |-> mode, pos |-> IF mode = "APPEND" THEN item.size ELSE 0, item |-> item]

\* A call begins: its script, and what it is to leave in the file f.
Begin(s, f, contents) ==
  /\ script' = s
  /\ goal' = [goal EXCEPT ![f] = contents]
  /\ UNCHANGED <<diskVars, root, desc, mutation_disabled, told, crashes, failures>>

OpenRead(d, f) ==
  /\ Idle
  /\ desc[d] = Closed
  /\ Lookup(f).used
  /\ desc' = [desc EXCEPT ![d] = Open(f, "READ", Lookup(f))]
  /\ UNCHANGED <<diskVars, root, write_ready, mutation_disabled, script, history>>

OpenCreate(d, f, mode) ==
  /\ Idle
  /\ desc[d] = Closed
  /\ mode # "READ"
  /\ fat16_prepare_write
  /\ ~ Lookup(f).used
  /\ Begin(fat16_create(f) \o Return(d, Open(f, mode, Item(0, 0))), f, <<>>)

OpenWrite(d, f) ==
  /\ Idle
  /\ desc[d] = Closed
  /\ fat16_prepare_write
  /\ Lookup(f).used
  /\ fat16_collect_chain_ok(Lookup(f))
  /\ Begin(fat16_truncate(f, Chain(latest, 0, Lookup(f).first))
             \o Return(d, Open(f, "WRITE", Item(0, 0))), f, <<>>)

OpenAppend(d, f) ==
  /\ Idle
  /\ desc[d] = Closed
  /\ fat16_prepare_write
  /\ Lookup(f).used
  /\ fat16_check_file_chain(Lookup(f))
  /\ desc' = [desc EXCEPT ![d] = Open(f, "APPEND", Lookup(f))]
  /\ UNCHANGED <<diskVars, root, mutation_disabled, script, history>>

\* A call that refuses (a chain that does not fit its file, no space, a bad position,
\* writes disabled) leaves nothing behind but fat16_prepare_write's verdict.
Refused ==
  /\ Idle
  /\ fat16_prepare_write \/ UNCHANGED write_ready
  /\ UNCHANGED <<diskVars, root, desc, mutation_disabled, script, history>>

WriteBytes(d, n, v) ==
  LET f     == desc[d].file
      item  == desc[d].item
      start == IF desc[d].mode = "APPEND" THEN item.size ELSE desc[d].pos
      end   == start + n
      size  == IF end > item.size THEN end ELSE item.size
      old   == Chain(latest, 0, item.first)
      more  == Needed(size) - Len(old)
      new   == fat16_allocate(more)
      data  == [i \in 1 .. n |-> v]
  IN  /\ Idle
      /\ desc[d].mode \in {"WRITE", "APPEND"}
      /\ end <= MaxSize
      /\ fat16_prepare_write
      /\ start <= item.size
      /\ fat16_check_file_chain(item)
      /\ more <= Cardinality(FreeClusters)
      /\ Begin(fat16_write_bytes(f, size, old, new, start, data)
                 \o Return(d, [desc[d] EXCEPT !.pos = end,
                                              !.item = Item((old \o new)[1], size)]),
               f,
               [i \in 1 .. size |-> CASE i \in start + 1 .. end -> v
                                      [] i \notin start + 1 .. end /\ i <= Len(told[f]) -> told[f][i]
                                      [] OTHER -> Zero])

\* Mutant: a read is not cut short at the end of the file.
ReadBytes_PastEnd(d, n) ==
  /\ Idle
  /\ desc[d].mode = "READ"
  /\ desc[d].pos < desc[d].item.size
  /\ desc' = [desc EXCEPT ![d].pos = @ + n]
  /\ UNCHANGED <<diskVars, root, write_ready, mutation_disabled, script, history>>

ReadBytes(d, n) ==
  LET left == desc[d].item.size - desc[d].pos
  IN  /\ Idle
      /\ desc[d].mode = "READ"
      /\ left > 0
      /\ desc' = [desc EXCEPT ![d].pos = @ + IF n > left THEN left ELSE n]
      /\ UNCHANGED <<diskVars, root, write_ready, mutation_disabled, script, history>>

Seek(d, p) ==
  /\ Idle
  /\ desc[d] # Closed
  /\ p \in 0 .. desc[d].item.size
  /\ desc' = [desc EXCEPT ![d].pos = p]
  /\ UNCHANGED <<diskVars, root, write_ready, mutation_disabled, script, history>>

Close(d) ==
  /\ Idle
  /\ desc[d] # Closed
  /\ desc' = [desc EXCEPT ![d] = Closed]
  /\ UNCHANGED <<diskVars, root, write_ready, mutation_disabled, script, history>>

-------------------------------------------------------------------------------
(* The commands of a script *)

Do(op) == script # <<>> /\ Head(script).op = op

fat16_write_at ==
  /\ Do("write")
  /\ LET c == Head(script)
     IN  /\ latest' = [latest EXCEPT ![c.at] = c.val]
         /\ pending' = pending \cup {<<c.at, c.val>>}
  /\ script' = Tail(script)
  /\ UNCHANGED <<media, memVars, history>>

fat16_flush ==
  /\ Do("flush")
  /\ media' = latest
  /\ pending' = {}
  /\ script' = Tail(script)
  /\ UNCHANGED <<latest, memVars, history>>

\* The drive reports an error, or the wait for it times out: the call returns -EIO,
\* nothing is undone, and there are no more writes until the next boot.  Whether
\* the sector was written is unknown.
CommandFails ==
  /\ Do("write") \/ Do("flush")
  /\ failures < MaxFailures
  /\ failures' = failures + 1
  /\ IF Do("write")
     THEN LET c == Head(script)
          IN  /\ latest' \in {latest, [latest EXCEPT ![c.at] = c.val]}
              /\ pending' = pending \cup {<<c.at, c.val>>}
     ELSE UNCHANGED <<latest, pending>>
  /\ mutation_disabled' = TRUE
  /\ script' = <<>>
  /\ UNCHANGED <<media, root, desc, write_ready, told, goal, crashes>>

\* Mutant: the copies held by open descriptors are not brought up to date.
fat16_publish_RootOnly ==
  /\ Do("publish")
  /\ LET c == Head(script)
     IN  root' = [f \in InRoot |-> IF f = c.file THEN c.item ELSE root[f]]
  /\ script' = Tail(script)
  /\ UNCHANGED <<diskVars, desc, write_ready, mutation_disabled, history>>

\* Mutant: the root directory in memory is not brought up to date.
fat16_publish_NotRoot ==
  /\ Do("publish")
  /\ LET c == Head(script)
     IN  desc' = [d \in Descriptors |->
                    IF desc[d] # Closed /\ desc[d].file = c.file
                    THEN [desc[d] EXCEPT !.item = c.item] ELSE desc[d]]
  /\ script' = Tail(script)
  /\ UNCHANGED <<diskVars, root, write_ready, mutation_disabled, history>>

fat16_publish ==
  /\ Do("publish")
  /\ LET c == Head(script)
     IN  /\ root' = [f \in InRoot |-> IF f = c.file THEN c.item ELSE root[f]]
         /\ desc' = [d \in Descriptors |->
                       IF desc[d] # Closed /\ desc[d].file = c.file
                       THEN [desc[d] EXCEPT !.item = c.item] ELSE desc[d]]
  /\ script' = Tail(script)
  /\ UNCHANGED <<diskVars, write_ready, mutation_disabled, history>>

\* The call returns its success.
ReturnOk ==
  /\ Do("return")
  /\ LET c == Head(script)
     IN  desc' = [desc EXCEPT ![c.d] = c.new]
  /\ script' = <<>>
  /\ told' = goal
  /\ UNCHANGED <<diskVars, root, write_ready, mutation_disabled, goal, crashes, failures>>

\* Power is lost.  Of the writes since the last flush any may have reached the
\* media, each with any of the values written there.  The next boot finds the rest.
Crash ==
  /\ crashes < MaxCrashes
  /\ crashes' = crashes + 1
  /\ \E kept \in SUBSET pending :
       /\ \A w, x \in kept : w[1] = x[1] => w = x
       /\ media' = [l \in Locations |->
                      IF \E w \in kept : w[1] = l
                      THEN (CHOOSE w \in kept : w[1] = l)[2] ELSE media[l]]
  /\ latest' = media'
  /\ pending' = {}
  /\ root' = [f \in InRoot |-> media'[DirAt(f)]]
  /\ desc' = [d \in Descriptors |-> Closed]
  /\ write_ready' = FALSE
  /\ mutation_disabled' = FALSE
  /\ script' = <<>>
  /\ told' = [f \in Files |-> Contents(media', 0, media'[DirAt(f)])]
  /\ goal' = told'
  /\ UNCHANGED failures

-------------------------------------------------------------------------------
\* A freshly made volume, booted; what its free clusters hold is left over.
Init ==
  /\ media = [l \in Locations |-> CASE l[1] = "fat" -> 0
                                    [] l[1] = "dir" -> NoItem
                                    [] l[1] = "data" -> Junk]
  /\ latest = media
  /\ pending = {}
  /\ root = [f \in InRoot |-> NoItem]
  /\ desc = [d \in Descriptors |-> Closed]
  /\ write_ready = FALSE
  /\ mutation_disabled = FALSE
  /\ script = <<>>
  /\ told = [f \in Files |-> Absent]
  /\ goal = told
  /\ crashes = 0
  /\ failures = 0

Call ==
  \E d \in Descriptors :
    \/ \E f \in Files :
         \/ OpenRead(d, f)
         \/ \E mode \in Modes : OpenCreate(d, f, mode)
         \/ OpenWrite(d, f)
         \/ OpenAppend(d, f)
    \/ \E n \in 1 .. MaxSize, v \in Values : WriteBytes(d, n, v)
    \/ \E n \in 1 .. MaxSize : ReadBytes(d, n)
    \/ \E p \in 0 .. MaxSize : Seek(d, p)
    \/ Close(d)

Next ==
  \/ Call
  \/ Refused
  \/ fat16_write_at
  \/ fat16_flush
  \/ CommandFails
  \/ fat16_publish
  \/ ReturnOk
  \/ Crash

Spec == Init /\ [][Next]_vars
-------------------------------------------------------------------------------
(* Properties *)

Items == [used : BOOLEAN, first : {0} \cup Clusters, size : 0 .. MaxSize]

DiskOK(disk) ==
  /\ DOMAIN disk = Locations
  /\ \A copy \in {0, 1}, c \in Clusters : disk[FatAt(copy, c)] \in {0, EOC} \cup Clusters
  /\ \A f \in Files : disk[DirAt(f)] \in Items
  /\ \A c \in Clusters, i \in 0 .. Cells - 1 :
       disk[DataAt(c, i)] \in Values \cup {Zero, Junk}

\* The type invariant.  Among the types: a descriptor's position never passes what
\* a file may hold, and a write that has not been flushed is one to a real place.
TypeOK ==
  /\ DiskOK(latest) /\ DiskOK(media)
  /\ \A w \in pending : w[1] \in Locations
  /\ root \in [InRoot -> Items]
  /\ \A d \in Descriptors :
       \/ desc[d] = Closed
       \/ desc[d] \in [file : Files, mode : Modes, pos : 0 .. MaxSize, item : Items]
  /\ write_ready \in BOOLEAN /\ mutation_disabled \in BOOLEAN
  /\ \A i \in DOMAIN script : script[i].op \in {"write", "flush", "publish", "return"}
  /\ crashes \in 0 .. MaxCrashes /\ failures \in 0 .. MaxFailures

Entry(f) == latest[DirAt(f)]

\* At every moment of a write, create or truncate, and after a crash or a failed
\* command at any of them, every file has in both FATs a chain that ends and covers
\* the file's size.
ChainsCover ==
  \A f \in Files, copy \in {0, 1} :
    Entry(f).used =>
      /\ ChainEnds(latest, copy, Entry(f).first)
      /\ Len(Chain(latest, copy, Entry(f).first)) >= Needed(Entry(f).size)

\* No cluster is in the chains of two files, in either FAT, nor in the chain of one
\* file in FAT 1 and of another in FAT 2, whatever was interrupted.
NoClusterShared ==
  \A f, g \in Files, i, j \in {0, 1} :
    f # g => ToSet(Chain(latest, i, Entry(f).first)) \cap ToSet(Chain(latest, j, Entry(g).first)) = {}

\* The files own their chains: each has all it needs, and none of another's.
ChainsSound == TypeOK /\ ChainsCover /\ NoClusterShared

\* fat16_prepare_write compares the FATs once in a boot and the driver trusts them
\* from then on: while it does, and between calls, they are equal.
FatsAgree == Idle /\ write_ready /\ ~ mutation_disabled => FatsEqual(latest)

\* A call that has returned success is on the media: nothing it wrote is left in the
\* drive's cache, and a crash at any later time finds what the callers were told.
Durable ==
  Idle /\ ~ mutation_disabled =>
    /\ pending = {} /\ media = latest
    /\ \A f \in Files, copy \in {0, 1} : Contents(media, copy, media[DirAt(f)]) = told[f]

\* As long as nothing has crashed or failed, no cluster is lost between calls: both
\* FATs mark exactly the clusters of the files, each file has as many as its size
\* takes, and appending to it is not refused.
NothingLost ==
  Idle /\ crashes = 0 /\ failures = 0 =>
    /\ \A f \in Files : Len(Chain(latest, 0, Entry(f).first)) = Needed(Entry(f).size)
    /\ \A c \in Clusters, copy \in {0, 1} :
         latest[FatAt(copy, c)] # 0 <=>
           \E f \in Files : Contains(Chain(latest, copy, Entry(f).first), c)

\* What a file may hold while a call changes it from old to new: it has the length of
\* one of them; where the call overwrites, each cell is the old or the new one; and
\* a file that has grown, shrunk or come to exist is the new one throughout.
Between(old, new) ==
  {old, new} \cup
  IF Len(old) > Len(new) \/ old = Absent THEN {}
  ELSE {c \in [1 .. Len(old) -> Values \cup {Zero}] : \A i \in DOMAIN c : c[i] \in {old[i], new[i]}}

\* A crash leaves every file as it was before the call it interrupts or as that call
\* would have left it, except that cells being overwritten may be either; files the
\* call was not about are as they were.  In particular no file ever shows what a free
\* cluster held before.
CrashKeepsFiles ==
  [][crashes' > crashes =>
       \A f \in Files : told'[f] \in Between(told[f], goal[f])]_vars

\* An open file always reads as a file: through the copy of its item that the
\* descriptor holds, whatever other descriptors have done since and whatever failed,
\* the chain in FAT 1 covers the size and gives the file's contents.
ReadersSeeFile ==
  Idle => \A d \in Descriptors :
    desc[d] # Closed =>
      LET item == desc[d].item
      IN  /\ ChainEnds(latest, 0, item.first)
          /\ Len(Chain(latest, 0, item.first)) >= Needed(item.size)
          /\ Contents(latest, 0, item) \in Between(told[desc[d].file], goal[desc[d].file])

\* Between calls every copy of a directory entry in memory equals the one on the disk,
\* unless a command has failed.
CopiesAgree ==
  Idle /\ ~ mutation_disabled =>
    /\ \A f \in InRoot : root[f] = Entry(f)
    /\ \A d \in Descriptors : desc[d] # Closed => desc[d].item = Entry(desc[d].file)
================================================================================
