------------------------------- MODULE AtaDriver -------------------------------
(***************************************************************************)
(* The ATA driver (disk/disk.c) and the drive it talks to.  The driver polls *)
(* the status register a limited number of times; the drive works on its     *)
(* own, answers late or never, fails, and loses its cache when the power     *)
(* goes.                                                                     *)
(*                                                                           *)
(* One driver step is one read of the status register with the straight-line *)
(* code that follows it: writing the task file or moving one sector.  The    *)
(* drive may do anything between two steps.  The drive is external: it is    *)
(* modelled from what the driver expects of it.                              *)
(***************************************************************************)
EXTENDS Integers, Sequences, FiniteSetsExt

CONSTANTS
  LbaLimit,        \* ATA_LBA28_LIMIT
  MaxSectors,      \* ATA_MAX_SECTORS: a sector count of 0 means that many
  PollLimit,       \* ATA_POLL_LIMIT
  FlushPollLimit,  \* ATA_FLUSH_POLL_LIMIT
  SectorWords,     \* RORTHOX_SECTOR_SIZE / 2
  Values,          \* what a sector may hold
  Drives           \* the drives there may be: what they answer to IDENTIFY

ASSUME AtaAssumption ==
  /\ {LbaLimit, MaxSectors, PollLimit, FlushPollLimit} \subseteq Nat \ {0}
  /\ \A d \in Drives :
       /\ DOMAIN d = {"kind", "complete", "lba", "sectors", "flush", "size_valid", "words"}
       /\ d.kind \in {"ata", "atapi", "absent", "floating"}

VARIABLES
  model,     \* which drive it is
  drive,     \* its phase and the command it works on
  media,     \* what the sectors hold
  cache,     \* what it has taken and not yet put on the media; None if nothing
  checked,   \* disk.write_checked, write_status and write_sectors
  call,      \* the call in progress and its local variables
  possible,  \* history, of each sector: what a read may return
  since      \* history: the same after a power failure

vars == <<model, drive, media, cache, checked, call, possible, since>>

Lbas == 0 .. LbaLimit - 1
None == "none"

Resting   == [phase |-> "idle", cmd |-> None, lba |-> 0, left |-> 0, pending |-> None,
              identified |-> FALSE]
Unchecked == [done |-> FALSE, status |-> None, sectors |-> 0]
Idle      == [at |-> "idle", polls |-> 0, op |-> None, lba |-> 0, total |-> 0, b |-> 0,
              buf |-> <<>>]

idle == call.at = "idle"

-------------------------------------------------------------------------------
(* The drive *)

\* What a read of a sector gives, now.
Visible(s) == IF cache[s] # None THEN cache[s] ELSE media[s]

\* What the status register may show.  While BSY is set the other bits mean nothing.
Bits(bsy, drq, err, df, drdy) ==
  [bsy |-> bsy, drq |-> drq, err |-> err, df |-> df, drdy |-> drdy]
Status ==
  IF model.kind = "absent" THEN {Bits(FALSE, FALSE, FALSE, FALSE, FALSE)}
  ELSE IF model.kind = "floating" THEN {Bits(TRUE, TRUE, TRUE, TRUE, TRUE)}
  ELSE CASE drive.phase \in {"idle", "taking"} -> {Bits(FALSE, FALSE, FALSE, FALSE, TRUE)}
         [] drive.phase = "data"  -> {Bits(FALSE, TRUE, FALSE, FALSE, TRUE)}
         [] drive.phase = "error" -> {Bits(FALSE, FALSE, TRUE, FALSE, TRUE)}
         [] drive.phase = "fault" -> {Bits(FALSE, FALSE, FALSE, TRUE, TRUE)}
         [] OTHER -> {Bits(TRUE, any, any, any, any) : any \in BOOLEAN}

\* A write of the command register.  A drive that is at work does not expect one.  The
\* status takes a while to show that the drive is busy.
Command(cmd, lba, count) ==
  IF model.kind \in {"absent", "floating"} THEN drive
  ELSE IF drive.phase \in {"busy", "data", "confused"} THEN [drive EXCEPT !.phase = "confused"]
  ELSE [drive EXCEPT !.phase = "taking", !.cmd = cmd, !.lba = lba, !.left = count,
                     !.pending = None]

\* The task file's sector count.
Count(register) == IF register = 0 THEN MaxSectors ELSE register

\* It is at work, whether or not the status shows it yet.
Working == drive.phase \in {"taking", "busy"}

\* Does the drive have what its command needs?
Serves == CASE drive.cmd \in {"READ", "WRITE"} -> model.kind = "ata" /\ drive.lba < model.sectors
            [] OTHER -> model.kind = "ata"

\* The next sector, from the drive or to it.
DriveAsks ==
  /\ Working
  /\ drive.left > 0
  /\ drive.pending = None
  /\ Serves
  /\ drive' = [drive EXCEPT !.phase = "data"]
  /\ UNCHANGED <<media, cache>>

\* The sector that was sent is taken.
DriveStores ==
  /\ Working
  /\ drive.pending # None
  /\ cache' = [cache EXCEPT ![drive.lba] = drive.pending]
  /\ drive' = [drive EXCEPT !.pending = None, !.lba = @ + 1, !.left = @ - 1]
  /\ UNCHANGED media

\* The command is done; FLUSH CACHE not before everything is on the media.
DriveEnds ==
  /\ Working
  /\ drive.left = 0
  /\ drive.cmd = "FLUSH" => \A s \in Lbas : cache[s] = None
  /\ drive' = [Resting EXCEPT !.identified = drive.identified \/ drive.cmd = "IDENTIFY"]
  /\ UNCHANGED <<media, cache>>

DriveFails ==
  /\ Working
  /\ \E p \in {"error", "fault"} :
       drive' = [Resting EXCEPT !.phase = p, !.identified = drive.identified]
  /\ UNCHANGED <<media, cache>>

DriveWritesBack ==
  /\ \E s \in Lbas : /\ cache[s] # None
                     /\ media' = [media EXCEPT ![s] = cache[s]]
                     /\ cache' = [cache EXCEPT ![s] = None]
  /\ UNCHANGED drive

Drive ==
  /\ DriveAsks \/ DriveStores \/ DriveEnds \/ DriveFails \/ DriveWritesBack
  /\ UNCHANGED <<model, checked, call, possible, since>>

\* The power goes, the cache with it, and the kernel starts again.
PowerFails ==
  /\ drive' = Resting
  /\ cache' = [s \in Lbas |-> None]
  /\ checked' = Unchecked
  /\ call' = Idle
  /\ possible' = since
  /\ UNCHANGED <<model, media, since>>

-------------------------------------------------------------------------------
(* Waiting *)

\* What one status read makes of the wait: it is over, it has failed, or neither.

\* Mutant: only BSY is looked at.
ata_wait_idle_Busy(s) == IF ~ s.bsy THEN "over" ELSE "again"

ata_wait_idle(s) == IF ~ s.bsy /\ ~ s.drq THEN "over" ELSE "again"

ata_wait_ready(s) == IF ~ s.bsy /\ ~ s.drq /\ s.drdy THEN "over" ELSE "again"

ata_wait_data(s) == IF s.bsy THEN "again"
                    ELSE IF s.err \/ s.df THEN "failed"
                    ELSE IF s.drq THEN "over" ELSE "again"

ata_wait_end(s) == IF s.bsy THEN "again"
                   ELSE IF s.err \/ s.df \/ s.drq THEN "failed" ELSE "over"

Limit == IF call.at = "flush_end" THEN FlushPollLimit ELSE PollLimit

Wait(s) ==
  CASE call.at \in {"select", "read_head", "id_select"} -> ata_wait_idle(s)
    [] call.at \in {"ready", "id_ready"}                -> ata_wait_ready(s)
    [] call.at \in {"data", "id_data"}                  -> ata_wait_data(s)
    [] call.at \in {"end", "flush_end", "id_end"}       -> ata_wait_end(s)
    [] OTHER                                            -> "none"

\* The next wait of the call.
Goto(label) == call' = [call EXCEPT !.at = label, !.polls = 0]

\* Mutant: there is no pause, and the status may still be the old one.
ata_pause_None(d) == d

\* The pause after a command or a drive select: from now on the status is valid.
ata_pause(d) == [d EXCEPT !.phase = IF @ = "taking" THEN "busy" ELSE @]

outb(cmd, lba, register) == drive' = ata_pause(Command(cmd, lba, Count(register)))

-------------------------------------------------------------------------------
(* The calls.  A request that is refused for its arguments changes nothing. *)

ValidRequest(lba, total) ==
  /\ total >= 1 /\ total <= MaxSectors
  /\ lba < LbaLimit /\ total - 1 <= LbaLimit - 1 - lba

Request(op, lba, total, buf) ==
  [Idle EXCEPT !.op = op, !.lba = lba, !.total = total, !.buf = buf]

\* Mutant: the end of a write is not compared with the size of the drive.
Proceed_FirstSector(c, verdict) ==
  call' = IF \/ verdict.status # "ok"
             \/ c.op = "capacity"
             \/ c.op = "write" /\ c.lba >= verdict.sectors
          THEN Idle ELSE [c EXCEPT !.at = "select", !.polls = 0]

\* A call goes on after the check, if the drive may be written and has these sectors.
Proceed(c, verdict) ==
  call' = IF \/ verdict.status # "ok"
             \/ c.op = "capacity"
             \/ c.op = "write" /\ (c.lba >= verdict.sectors \/ c.total > verdict.sectors - c.lba)
          THEN Idle ELSE [c EXCEPT !.at = "select", !.polls = 0]

\* disk_check_writable: the drive is asked once.
disk_check_writable(c) ==
  IF checked.done THEN Proceed(c, checked) ELSE call' = [c EXCEPT !.at = "id_select"]

\* The answer is kept, a failure too, and the call that wanted it goes on.
Verdict(status, sectors) ==
  /\ checked' = [done |-> TRUE, status |-> status, sectors |-> sectors]
  /\ Proceed(call, checked')

disk_read_block(lba, total) ==
  /\ idle
  /\ ValidRequest(lba, total)
  /\ call' = [Request("read", lba, total, <<>>) EXCEPT !.at = "select"]

disk_write_block(lba, total, buf) ==
  /\ idle
  /\ ValidRequest(lba, total)
  /\ disk_check_writable(Request("write", lba, total, buf))

disk_flush == idle /\ disk_check_writable(Request("flush", 0, 0, <<>>))

disk_write_capacity == idle /\ disk_check_writable(Request("capacity", 0, 0, <<>>))

Call ==
  /\ \/ \E lba \in 0 .. LbaLimit, total \in 0 .. MaxSectors + 1 :
          \/ disk_read_block(lba, total)
          \/ \E buf \in [1 .. total -> Values] : disk_write_block(lba, total, buf)
     \/ disk_flush
     \/ disk_write_capacity
  /\ UNCHANGED <<model, drive, media, cache, checked, possible, since>>

-------------------------------------------------------------------------------
(* What follows a wait that is over *)

history == <<possible, since>>

\* ata_select, and the same in disk_read_sector: the drive/head register is written and
\* the drive waited for once more.
ata_select ==
  /\ call.at = "select"
  /\ Goto(IF call.op = "read" THEN "read_head" ELSE "ready")
  /\ UNCHANGED <<drive, checked, history>>

disk_read_sector ==
  /\ call.at = "read_head"
  /\ outb("READ", call.lba, call.total % MaxSectors)
  /\ Goto("data")
  /\ UNCHANGED <<checked, history>>

ata_write_sectors ==
  /\ call.at = "ready" /\ call.op = "write"
  /\ outb("WRITE", call.lba, call.total % MaxSectors)
  /\ Goto("data")
  /\ UNCHANGED <<checked, history>>

FlushCache ==
  /\ call.at = "ready" /\ call.op = "flush"
  /\ drive' = ata_pause(Command("FLUSH", 0, 0))
  /\ Goto("flush_end")
  /\ UNCHANGED <<checked, history>>

AfterSector(buf) ==
  call' = [call EXCEPT !.at = IF call.b + 1 < call.total THEN "data" ELSE "end",
                       !.polls = 0, !.b = @ + 1, !.buf = buf]

\* One sector comes in.
ReadSector ==
  /\ call.at = "data" /\ call.op = "read"
  /\ \E v \in IF drive.cmd = "READ" THEN {Visible(drive.lba)} ELSE Values :
       AfterSector(Append(call.buf, v))
  /\ drive' = [drive EXCEPT !.phase = "busy", !.lba = @ + 1, !.left = @ - 1]
  /\ UNCHANGED <<checked, history>>

\* One sector goes out.
WriteSector ==
  /\ call.at = "data" /\ call.op = "write"
  /\ AfterSector(call.buf)
  /\ LET s == call.lba + call.b
         v == call.buf[call.b + 1]
     IN  /\ drive' = [drive EXCEPT !.phase = "busy", !.pending = v]
         /\ possible' = [possible EXCEPT ![s] = @ \cup {v}]
         /\ since' = [since EXCEPT ![s] = @ \cup {v}]
  /\ UNCHANGED checked

\* The call returns 0.
Done ==
  /\ call.at \in {"end", "flush_end"}
  /\ call' = Idle
  /\ IF call.op = "flush" THEN since' = possible /\ UNCHANGED possible
     ELSE /\ possible' = [s \in Lbas |-> IF s \in call.lba .. call.lba + call.total - 1
                                       THEN {call.buf[s - call.lba + 1]} ELSE possible[s]]
          /\ UNCHANGED since
  /\ UNCHANGED <<drive, checked>>

ata_identify_select ==
  /\ call.at = "id_select"
  /\ Goto("id_status")
  /\ UNCHANGED <<drive, checked, history>>

ata_identify_command ==
  /\ call.at = "id_ready"
  /\ drive' = ata_pause(Command("IDENTIFY", 0, 1))
  /\ Goto("id_data")
  /\ UNCHANGED <<checked, history>>

ata_identify_words ==
  /\ call.at = "id_data"
  /\ drive' = [drive EXCEPT !.phase = "busy", !.left = 0]
  /\ Goto("id_end")
  /\ UNCHANGED <<checked, history>>

\* Mutant: the size is not cut to what 28 bits reach.
ata_identify_end_AnySize ==
  /\ call.at = "id_end"
  /\ IF /\ model.complete /\ model.lba /\ model.sectors # 0 /\ model.flush
        /\ model.size_valid => model.words = SectorWords
     THEN Verdict("ok", model.sectors)
     ELSE Verdict("ERDONLY", 0)
  /\ UNCHANGED <<drive, history>>

\* What the words of IDENTIFY DEVICE say of the drive.
ata_identify_end ==
  /\ call.at = "id_end"
  /\ IF /\ model.complete /\ model.lba /\ model.sectors # 0 /\ model.flush
        /\ model.size_valid => model.words = SectorWords
     THEN Verdict("ok", Min({model.sectors, LbaLimit - 1}))
     ELSE Verdict("ERDONLY", 0)
  /\ UNCHANGED <<drive, history>>

Continue ==
  \/ ata_select
  \/ disk_read_sector
  \/ ata_write_sectors
  \/ FlushCache
  \/ ReadSector
  \/ WriteSector
  \/ Done
  \/ ata_identify_select
  \/ ata_identify_command
  \/ ata_identify_words
  \/ ata_identify_end

\* Mutant: a wait that was too short for the drive is started again.
GiveUp_Retries(s) ==
  /\ IF call.at \in {"id_select", "id_ready", "id_data", "id_end"}
     THEN Verdict(IF call.at = "id_data" /\ ~ s.bsy /\ ~ s.df /\ s.err /\ model.kind = "atapi"
                  THEN "ERDONLY" ELSE "EIO", 0)
     ELSE Goto(IF s.bsy THEN call.at ELSE "idle") /\ UNCHANGED checked
  /\ UNCHANGED <<drive, history>>

\* The wait has failed.  An ATAPI drive aborts IDENTIFY DEVICE.
GiveUp(s) ==
  /\ IF call.at \in {"id_select", "id_ready", "id_data", "id_end"}
     THEN Verdict(IF call.at = "id_data" /\ ~ s.bsy /\ ~ s.df /\ s.err /\ model.kind = "atapi"
                  THEN "ERDONLY" ELSE "EIO", 0)
     ELSE call' = Idle /\ UNCHANGED checked
  /\ UNCHANGED <<drive, history>>

\* One turn of a wait's loop.
Poll ==
  /\ ~ idle
  /\ \E s \in Status :
       \/ /\ Wait(s) = "again" /\ call.polls + 1 < Limit
          /\ call' = [call EXCEPT !.polls = @ + 1]
          /\ UNCHANGED <<drive, checked, history>>
       \/ /\ Wait(s) = "failed" \/ (Wait(s) = "again" /\ call.polls + 1 >= Limit)
          /\ GiveUp(s)
       \/ /\ Wait(s) = "over"
          /\ Continue

\* ata_identify's look at the status: a channel without a drive shows 0x00 or 0xFF.
ata_identify_status ==
  /\ call.at = "id_status"
  /\ \E s \in Status :
       LET bits == {s.bsy, s.drq, s.err, s.df, s.drdy}
       IN  IF Cardinality(bits) = 1 THEN Verdict("ERDONLY", 0)
           ELSE Goto("id_ready") /\ UNCHANGED checked
  /\ UNCHANGED <<drive, history>>

Driver == (Poll \/ ata_identify_status) /\ UNCHANGED <<model, media, cache>>

-------------------------------------------------------------------------------
Init ==
  /\ model \in Drives
  /\ drive = Resting
  /\ \E blank \in Values : media = [s \in Lbas |-> blank]
  /\ cache = [s \in Lbas |-> None]
  /\ checked = Unchecked
  /\ call = Idle
  /\ possible = [s \in Lbas |-> {media[s]}]
  /\ since = possible

Next == Call \/ Driver \/ Drive \/ PowerFails

Spec == Init /\ [][Next]_vars

-------------------------------------------------------------------------------
(* Properties *)

\* Types; the sectors remembered by the check of a drive are ones that 28 bits can name.
TypeOK ==
  /\ model \in Drives
  /\ drive.phase \in {"idle", "taking", "busy", "data", "error", "fault", "confused"}
  /\ drive.lba \in 0 .. LbaLimit /\ drive.left \in 0 .. MaxSectors
  /\ media \in [Lbas -> Values]
  /\ cache \in [Lbas -> Values \cup {None}]
  /\ checked.status \in {None, "ok", "EIO", "ERDONLY"} /\ checked.sectors \in 0 .. LbaLimit
  /\ call.polls \in 0 .. Max({PollLimit, FlushPollLimit}) /\ call.b \in 0 .. call.total
  /\ possible \in [Lbas -> SUBSET Values] /\ since \in [Lbas -> SUBSET Values]

\* A command never reaches a drive that is still at work on another, or that waits for
\* data of another, however late it is with a command whose wait was given up.
NeverInterrupted == drive.phase # "confused"

\* A drive is written only after it has said, since the power came on, that it is a disk
\* with LBA, a cache that can be flushed and sectors of 512 bytes, and only where it has
\* sectors.
OnlyCheckedWrites ==
  drive.cmd \in {"WRITE", "FLUSH"} =>
    /\ drive.identified
    /\ model.kind = "ata" /\ model.complete /\ model.lba /\ model.flush
    /\ model.size_valid => model.words = SectorWords
    /\ drive.lba + drive.left <= model.sectors

\* A drive gets a command only when it is at rest, and one that changes the media only when
\* it has been found fit for it: NeverInterrupted and OnlyCheckedWrites.
OnlySafeCommands == TypeOK /\ NeverInterrupted /\ OnlyCheckedWrites

Promised == INSTANCE SectorDisk

\* A sector holds what was last written to it; after a write that failed, which may have
\* been given up while the drive was still at it, the old or the new data, and every read
\* agrees with the one before it.  After a power failure it holds what it held at the
\* last flush that succeeded, or something written since.
ImplementsSectorDisk == Promised!Spec

\* How many status reads the call in progress has left at most.
StepsLeft ==
  LET p    == PollLimit
      rest == CASE call.op = "capacity" -> 0
                [] call.op = "flush"    -> 2 * p + FlushPollLimit
                [] OTHER                -> (3 + call.total) * p
  IN  CASE call.at = "idle"      -> 0
        [] call.at = "id_select" -> rest + 4 * p + 1 - call.polls
        [] call.at = "id_status" -> rest + 3 * p + 1
        [] call.at = "id_ready"  -> rest + 3 * p - call.polls
        [] call.at = "id_data"   -> rest + 2 * p - call.polls
        [] call.at = "id_end"    -> rest + p - call.polls
        [] call.at = "select"    -> rest - call.polls
        [] call.at \in {"read_head", "ready"} -> rest - p - call.polls
        [] call.at = "data"      -> (1 + call.total - call.b) * p - call.polls
        [] call.at = "end"       -> p - call.polls
        [] call.at = "flush_end" -> FlushPollLimit - call.polls

\* Every call returns, whatever the drive does: each step of the driver leaves it fewer
\* status reads, and while there is a call there is a step.
CallsReturn ==
  /\ [](idle \/ (StepsLeft > 0 /\ ENABLED Driver))
  /\ [][idle \/ call' = call \/ StepsLeft' < StepsLeft]_vars
================================================================================
