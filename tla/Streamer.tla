------------------------------- MODULE Streamer --------------------------------
(***************************************************************************)
(* The disk streamer (disk/streamer.c): reads and writes of bytes at any     *)
(* position, made of reads and writes of whole sectors.  A part of a sector  *)
(* is written by reading the sector, changing the bytes and writing it back. *)
(* One step is one turn of the loop, in which each of the two may fail.      *)
(***************************************************************************)
EXTENDS Integers

CONSTANTS
  SectorSize,   \* RORTHOX_SECTOR_SIZE
  DiskBytes,    \* bytes on the disk
  IntMax,       \* INT_MAX
  Byte,         \* values of a byte
  Old,          \* what is on the disk at first
  Data,         \* what is in the buffer of a write
  MaxCalls      \* bound: calls made

Positions == 0 .. DiskBytes - 1

ASSUME StreamerAssumption ==
  /\ SectorSize \in Nat \ {0}
  /\ DiskBytes \in Nat /\ DiskBytes % SectorSize = 0
  /\ IntMax \in Nat
  /\ MaxCalls \in Nat
  /\ Old \in [Positions -> Byte]
  /\ Data \in [0 .. IntMax -> Byte]

VARIABLES
  bytes,   \* of each position on the disk: the byte there
  stream,  \* stream->pos, and the last call: its arguments and local variables
  out,     \* the buffer of a read
  before,  \* history: the disk when the call began
  calls    \* bound: how many there were

streamVars == <<bytes, stream, out, before, calls>>

-------------------------------------------------------------------------------
\* diskstreamer_new, and diskstreamer_seek where the position is not negative.
diskstreamer_seek(pos) ==
  /\ ~ stream.running
  /\ stream' = [op |-> "seek", running |-> FALSE, pos |-> pos, total |-> 0, start |-> pos, asked |-> 0]
  /\ UNCHANGED <<bytes, out, before, calls>>

\* A read or a write begins, unless it would end past INT_MAX.
diskstreamer_call(op, total) ==
  /\ ~ stream.running
  /\ calls < MaxCalls
  /\ ~ (total > IntMax - stream.pos)
  /\ stream' = [op |-> op, running |-> TRUE, pos |-> stream.pos, total |-> total,
                start |-> stream.pos, asked |-> total]
  /\ before' = bytes
  /\ calls' = calls + 1
  /\ UNCHANGED <<bytes, out>>

sector == stream.pos \div SectorSize
offset == stream.pos % SectorSize

\* The bytes of this turn: to the end of the sector, or of the call.
Chunk == IF SectorSize - offset > stream.total THEN stream.total ELSE SectorSize - offset

\* The sector is on the disk, and there is something left to do.
Turn == stream.running /\ stream.total > 0 /\ sector * SectorSize < DiskBytes

\* What disk_read_block gives, and the disk after disk_write_block.
Block == [k \in 0 .. SectorSize - 1 |-> bytes[sector * SectorSize + k]]
WithBlock(buf) ==
  [a \in Positions |-> IF a \div SectorSize = sector THEN buf[a % SectorSize] ELSE bytes[a]]

Advance == stream' = [stream EXCEPT !.pos = @ + Chunk, !.total = @ - Chunk]

\* The call is over: everything is done, or the disk has failed.
Return ==
  /\ stream.running
  /\ stream' = [stream EXCEPT !.running = FALSE]
  /\ UNCHANGED <<bytes, out, before, calls>>

\* The place in the buffer of this turn's first byte.
Place == stream.pos - stream.start

diskstreamer_read ==
  /\ Turn
  /\ stream.op = "read"
  /\ out' = [i \in 0 .. IntMax |->
               IF i >= Place /\ i < Place + Chunk THEN Block[offset + i - Place] ELSE out[i]]
  /\ Advance
  /\ UNCHANGED <<bytes, before, calls>>

\* Mutant: a sector is read first only if the write does not begin with it.
Merged_Begins ==
  [k \in 0 .. SectorSize - 1 |->
     IF k >= offset /\ (offset = 0 \/ k < offset + Chunk) THEN Data[Place + k - offset] ELSE Block[k]]

\* The sector to write: the bytes of the buffer in their place, the others as they are.
Merged ==
  [k \in 0 .. SectorSize - 1 |->
     IF k >= offset /\ k < offset + Chunk THEN Data[Place + k - offset] ELSE Block[k]]

\* The sector may be written and the disk fail all the same.
diskstreamer_write ==
  /\ Turn
  /\ stream.op = "write"
  /\ bytes' = WithBlock(Merged)
  /\ Advance \/ stream' = [stream EXCEPT !.running = FALSE]
  /\ UNCHANGED <<out, before, calls>>

StreamInit ==
  /\ bytes = Old
  /\ stream = [op |-> "seek", running |-> FALSE, pos |-> 0, total |-> 0, start |-> 0, asked |-> 0]
  /\ out = Data
  /\ before = Old
  /\ calls = 0

StreamNext ==
  \/ \E pos \in 0 .. IntMax : diskstreamer_seek(pos)
  \/ \E op \in {"read", "write"}, total \in 0 .. IntMax : diskstreamer_call(op, total)
  \/ diskstreamer_read
  \/ diskstreamer_write
  \/ Return

StreamSpec == StreamInit /\ [][StreamNext]_streamVars

-------------------------------------------------------------------------------
(* Properties *)

\* The position never leaves the range of an int, whatever calls moved it, nor do the counts.
StreamTypeOK ==
  /\ bytes \in [Positions -> Byte] /\ before \in [Positions -> Byte]
  /\ out \in [0 .. IntMax -> Byte]
  /\ stream \in [op : {"seek", "read", "write"}, running : BOOLEAN, pos : 0 .. IntMax,
                 total : 0 .. IntMax, start : 0 .. IntMax, asked : 0 .. IntMax]
  /\ calls \in Nat

\* A call that has got to pos has moved the bytes from where it began up to there, each to
\* its place, across any number of sectors; and a write has changed no byte outside the
\* bytes it was asked to write, even in the sectors that it rewrites and when it fails.
ExactlyTheBytes ==
  /\ stream.pos + stream.total = stream.start + stream.asked
  /\ stream.op = "read" => \A i \in 0 .. Place - 1 : out[i] = bytes[stream.start + i]
  /\ stream.op = "write" =>
       \A a \in Positions :
         /\ a \in stream.start .. stream.pos - 1 => bytes[a] = Data[a - stream.start]
         /\ a \notin stream.start .. stream.start + stream.asked - 1 => bytes[a] = before[a]
================================================================================
