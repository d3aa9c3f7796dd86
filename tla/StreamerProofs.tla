---------------------------- MODULE StreamerProofs -----------------------------
(***************************************************************************)
(* ExactlyTheBytes for every size of a sector, of the disk and of INT_MAX.   *)
(* The invariant is strengthened by its bounds: a call stays between where   *)
(* it began and the end it was checked for.  The argument is about a turn of *)
(* the loop: the bytes of the sector that the turn copies are those from     *)
(* pos to pos + Chunk, which is the arithmetic of the first lemmas.          *)
(***************************************************************************)
EXTENDS Streamer, TLAPS

\* Division, and what is left of it.
LEMMA DivMod ==
  ASSUME NEW a \in Nat, NEW S \in Nat \ {0}
  PROVE  /\ a \div S \in Nat /\ a % S \in 0 .. S - 1
         /\ a = ((a \div S) * S) + (a % S)
  OBVIOUS

\* Within a sector, positions differ as their offsets do.
LEMMA InBlock ==
  ASSUME NEW a \in Nat, NEW p \in Nat, NEW S \in Nat \ {0}, a \div S = p \div S
  PROVE  a - p = (a % S) - (p % S)
<1> DEFINE base == (p \div S) * S
<1>1. base \in Int /\ a % S \in Int /\ p % S \in Int
  BY DivMod
<1>2. p = base + (p % S)
  BY DivMod
<1>3. a = base + (a % S)
  BY DivMod
<1> HIDE DEF base
<1> QED BY <1>1, <1>2, <1>3

\* A position with the offset moved by less than what is left of the sector is still in it.
LEMMA StaysInBlock ==
  ASSUME NEW a \in Nat, NEW p \in Nat, NEW S \in Nat \ {0},
         a >= p, a - p < S - (p % S)
  PROVE  a \div S = p \div S
<1> DEFINE q == p \div S
           r == p % S
           k == a - p
<1>1. q \in Nat /\ r \in 0 .. S - 1 /\ p = q * S + r
  BY DivMod
<1>2. a = q * S + (r + k) /\ r + k \in 0 .. S - 1
  BY <1>1
<1> HIDE DEF q, r, k
<1>3. (q * S + (r + k)) \div S = q
  <2> DEFINE j == r + k
  <2>1. j \in 0 .. S - 1 BY <1>2
  <2> HIDE DEF j
  <2>2. (q * S + j) \div S = q BY <1>1, <2>1, Z3
  <2> QED BY <2>2 DEF j
<1> QED BY <1>2, <1>3 DEF q

\* A disk ends with a whole sector.
LEMMA WholeSectors ==
  ASSUME NEW q \in Nat, NEW S \in Nat \ {0}, NEW D \in Nat, D % S = 0, q * S < D
  PROVE  q * S + S <= D
<1> DEFINE d == D \div S
<1>1. d \in Nat /\ D = d * S
  BY DivMod
<1> HIDE DEF d
<1>2. q < d
  BY <1>1, Z3
<1>3. (q + 1) * S <= d * S
  BY <1>1, <1>2, Z3
<1>4. (q + 1) * S = q * S + S
  BY Z3
<1> QED BY <1>1, <1>3, <1>4

\* The bounds of a call.
Bounded ==
  /\ stream.start <= stream.pos
  /\ stream.start + stream.asked <= IntMax

IInv == StreamTypeOK /\ Bounded /\ ExactlyTheBytes

\* What a turn of the loop works on.
LEMMA TurnFacts ==
  ASSUME StreamTypeOK, Bounded, Turn
  PROVE  /\ sector \in Nat /\ offset \in 0 .. SectorSize - 1
         /\ stream.pos = sector * SectorSize + offset
         /\ Chunk \in 1 .. stream.total /\ offset + Chunk <= SectorSize
         /\ sector * SectorSize \in Nat
         /\ \A k \in 0 .. SectorSize - 1 : sector * SectorSize + k \in Positions
<1> USE StreamerAssumption
<1>1. stream.pos \in Nat /\ stream.total \in Nat /\ stream.total > 0
  BY DEF StreamTypeOK, Turn
<1>2. sector \in Nat /\ offset \in 0 .. SectorSize - 1 /\ stream.pos = sector * SectorSize + offset
  BY <1>1, DivMod DEF sector, offset
<1>3. Chunk \in 1 .. stream.total /\ offset + Chunk <= SectorSize
  BY <1>1, <1>2 DEF Chunk
<1>4. sector * SectorSize \in Nat
  BY <1>2, Z3
<1>5. sector * SectorSize + SectorSize <= DiskBytes
  BY <1>2, WholeSectors DEF Turn
<1>6. \A k \in 0 .. SectorSize - 1 : sector * SectorSize + k \in Positions
  BY <1>4, <1>5 DEF Positions
<1> QED BY <1>2, <1>3, <1>4, <1>6

\* The disk after a sector is written back: the bytes of the turn, and no others.
LEMMA WrittenBack ==
  ASSUME StreamTypeOK, Bounded, Turn, NEW a \in Positions
  PROVE  WithBlock(Merged)[a] = IF a \in stream.pos .. stream.pos + Chunk - 1
                                THEN Data[a - stream.start] ELSE bytes[a]
<1> USE StreamerAssumption
<1>1. a \in Nat /\ stream.pos \in Nat /\ stream.start \in Nat
  BY DEF Positions, StreamTypeOK
<1>2. /\ sector \in Nat /\ offset \in 0 .. SectorSize - 1
      /\ Chunk \in Nat /\ offset + Chunk <= SectorSize
  BY TurnFacts DEF StreamTypeOK
<1>3. CASE a \div SectorSize = sector
  <2> DEFINE k == a % SectorSize
  <2>1. k \in 0 .. SectorSize - 1
    BY <1>1, DivMod
  <2>2. a - stream.pos = k - offset
    <3>1. a \div SectorSize = stream.pos \div SectorSize
      BY <1>3 DEF sector
    <3>2. a - stream.pos = (a % SectorSize) - (stream.pos % SectorSize)
      <4>1. a \in Nat /\ stream.pos \in Nat /\ SectorSize \in Nat \ {0} BY <1>1
      <4> QED BY ONLY <4>1, <3>1, InBlock
    <3> QED BY <3>2 DEF offset
  <2>3. a = sector * SectorSize + k
    BY <1>1, <1>3, DivMod
  <2> HIDE DEF k
  <2>4. Block[k] = bytes[a]
    BY <2>1, <2>3 DEF Block
  <2>5. Merged[k] = IF k >= offset /\ k < offset + Chunk
                    THEN Data[Place + k - offset] ELSE bytes[a]
    BY <2>1, <2>4 DEF Merged
  <2>6. Place \in Int /\ Place = stream.pos - stream.start
    BY <1>1 DEF Place
  <2>7. Place + k - offset = a - stream.start
    BY <1>1, <1>2, <2>1, <2>2, <2>6
  <2>8. k >= offset /\ k < offset + Chunk <=> a \in stream.pos .. stream.pos + Chunk - 1
    BY <1>1, <1>2, <2>1, <2>2
  <2>9. WithBlock(Merged)[a] = Merged[k]
    BY <1>3 DEF WithBlock, k
  <2> QED BY <2>5, <2>7, <2>8, <2>9
<1>4. CASE a \div SectorSize # sector
  <2>1. WithBlock(Merged)[a] = bytes[a]
    BY <1>4 DEF WithBlock
  <2>2. ASSUME a \in stream.pos .. stream.pos + Chunk - 1
        PROVE  FALSE
    <3>1. a >= stream.pos /\ a - stream.pos < SectorSize - offset
      BY <1>1, <1>2, <2>2
    <3>2. a \div SectorSize = stream.pos \div SectorSize
      <4>1. a \in Nat /\ stream.pos \in Nat /\ SectorSize \in Nat \ {0} BY <1>1
      <4>2. a >= stream.pos /\ a - stream.pos < SectorSize - (stream.pos % SectorSize) BY <3>1 DEF offset
      <4> QED BY ONLY <4>1, <4>2, StaysInBlock
    <3> QED BY <1>4, <3>2 DEF sector
  <2> QED BY <2>1, <2>2
<1> QED BY <1>3, <1>4

\* The whole state after a write's turn has its type.
LEMMA WrittenBackType ==
  ASSUME StreamTypeOK, Bounded, Turn, stream.pos + stream.total = stream.start + stream.asked
  PROVE  WithBlock(Merged) \in [Positions -> Byte]
<1> USE StreamerAssumption
<1>1. Chunk \in 1 .. stream.total
  BY TurnFacts
<1>2. ASSUME NEW a \in Positions
      PROVE  WithBlock(Merged)[a] \in Byte
  <2>1. a \in stream.pos .. stream.pos + Chunk - 1 => a - stream.start \in 0 .. IntMax
    BY <1>1 DEF StreamTypeOK, Bounded, Positions
  <2> QED BY <1>2, <2>1, WrittenBack DEF StreamTypeOK
<1>3. WithBlock(Merged) = [a \in Positions |-> WithBlock(Merged)[a]]
  BY DEF WithBlock
<1> QED BY <1>2, <1>3

\* The numbers of a call.
LEMMA Numbers ==
  ASSUME IInv
  PROVE  /\ stream.pos \in Nat /\ stream.total \in Nat /\ stream.start \in Nat /\ stream.asked \in Nat
         /\ stream.start <= stream.pos /\ stream.pos + stream.total = stream.start + stream.asked
         /\ stream.start + stream.asked <= IntMax
         /\ Place = stream.pos - stream.start /\ Place \in Nat
<1>1. stream.pos \in Nat /\ stream.total \in Nat /\ stream.start \in Nat /\ stream.asked \in Nat
  BY StreamerAssumption DEF IInv, StreamTypeOK
<1>2. /\ stream.start <= stream.pos /\ stream.pos + stream.total = stream.start + stream.asked
      /\ stream.start + stream.asked <= IntMax
  BY DEF IInv, Bounded, ExactlyTheBytes
<1> QED BY <1>1, <1>2 DEF Place

Streams == [op : {"seek", "read", "write"}, running : BOOLEAN, pos : 0 .. IntMax,
            total : 0 .. IntMax, start : 0 .. IntMax, asked : 0 .. IntMax]

\* How a turn moves the position.
LEMMA Advanced ==
  ASSUME IInv, Turn, Advance
  PROVE  /\ stream'.pos = stream.pos + Chunk /\ stream'.total = stream.total - Chunk
         /\ stream'.start = stream.start /\ stream'.asked = stream.asked /\ stream'.op = stream.op
         /\ stream' \in Streams
<1>1. Chunk \in 1 .. stream.total
  BY TurnFacts DEF IInv
<1>2. stream \in Streams
  BY DEF IInv, StreamTypeOK, Streams
<1>3. stream.pos + Chunk \in 0 .. IntMax /\ stream.total - Chunk \in 0 .. IntMax
  <2>1. /\ IntMax \in Nat /\ stream.pos \in Nat /\ stream.total \in Nat
        /\ stream.start \in Nat /\ stream.asked \in Nat
    BY Numbers, StreamerAssumption
  <2>2. stream.pos + stream.total <= IntMax BY Numbers
  <2> QED BY ONLY <1>1, <2>1, <2>2
<1>4. stream' = [stream EXCEPT !.pos = stream.pos + Chunk, !.total = stream.total - Chunk]
  BY DEF Advance
<1> QED BY <1>2, <1>3, <1>4 DEF Streams

\* The invariant holds of every state.
LEMMA Invariant == StreamSpec => []IInv
<1>a. IntMax \in Nat /\ SectorSize \in Nat \ {0}
  BY StreamerAssumption
<1> USE <1>a
<1>1. StreamInit => IInv
  BY StreamerAssumption DEF StreamInit, IInv, StreamTypeOK, Bounded, ExactlyTheBytes, Place
<1>2. IInv /\ [StreamNext]_streamVars => IInv'
  <2> SUFFICES ASSUME IInv, [StreamNext]_streamVars PROVE IInv'
    OBVIOUS
  <2>a. StreamTypeOK /\ Bounded /\ ExactlyTheBytes
    BY DEF IInv
  <2>b. /\ stream.pos \in Nat /\ stream.total \in Nat /\ stream.start \in Nat /\ stream.asked \in Nat
        /\ stream.start <= stream.pos /\ stream.pos + stream.total = stream.start + stream.asked
        /\ stream.start + stream.asked <= IntMax
        /\ Place = stream.pos - stream.start /\ Place \in Nat
    BY Numbers
  <2>1. CASE UNCHANGED streamVars
    BY <2>a, <2>1 DEF IInv, streamVars, StreamTypeOK, Bounded, ExactlyTheBytes, Place
  <2>2. ASSUME NEW pos \in 0 .. IntMax, diskstreamer_seek(pos) PROVE IInv'
    BY <2>a, <2>2 DEF IInv, diskstreamer_seek, StreamTypeOK, Bounded, ExactlyTheBytes, Place
  <2>3. ASSUME NEW op \in {"read", "write"}, NEW total \in 0 .. IntMax, diskstreamer_call(op, total)
        PROVE  IInv'
    BY <2>a, <2>3, SMTT(30) DEF IInv, diskstreamer_call, StreamTypeOK, Bounded, ExactlyTheBytes, Place
  <2>4. CASE diskstreamer_read
    <3> DEFINE base == sector * SectorSize
    <3>0. /\ offset \in 0 .. SectorSize - 1 /\ SectorSize \in Nat
          /\ stream.pos = base + offset /\ base \in Nat
      BY <2>a, <2>4, TurnFacts DEF diskstreamer_read
    <3>8. \A k \in 0 .. SectorSize - 1 : base + k \in Positions
      BY <2>a, <2>4, TurnFacts DEF diskstreamer_read
    <3>1. Chunk \in Nat /\ Chunk >= 1 /\ Chunk <= stream.total /\ offset + Chunk <= SectorSize
      BY <2>a, <2>b, <2>4, TurnFacts DEF diskstreamer_read
    <3>9. Block = [k \in 0 .. SectorSize - 1 |-> bytes[base + k]]
      BY DEF Block
    <3> HIDE DEF base
    <3>2. /\ stream'.pos = stream.pos + Chunk /\ stream'.total = stream.total - Chunk
          /\ stream'.start = stream.start /\ stream'.asked = stream.asked /\ stream'.op = stream.op
          /\ stream' \in Streams
      BY <2>4, Advanced DEF diskstreamer_read
    <3>3. ASSUME NEW i \in Place .. Place + Chunk - 1
          PROVE  /\ Block[offset + i - Place] = bytes[stream.start + i]
                 /\ stream.start + i \in Positions
      <4>0. i \in Int /\ i >= Place /\ i < Place + Chunk
        BY <2>b, <3>1, <3>3
      <4>1. offset + i - Place \in 0 .. SectorSize - 1
        BY <2>b, <3>0, <3>1, <4>0
      <4>2. base + (offset + i - Place) = stream.start + i
        BY <2>b, <3>0, <3>1, <4>0
      <4>3. base + (offset + i - Place) \in Positions
        BY <3>8, <4>1
      <4> QED BY <3>9, <4>1, <4>2, <4>3
    <3>4. out' \in [0 .. IntMax -> Byte]
      <4>1. ASSUME NEW i \in 0 .. IntMax
            PROVE  (IF i >= Place /\ i < Place + Chunk THEN Block[offset + i - Place] ELSE out[i]) \in Byte
        <5>1. CASE i >= Place /\ i < Place + Chunk
          <6>1. i \in Place .. Place + Chunk - 1
            BY <3>1, <5>1, <2>b
          <6> QED BY <2>a, <3>3, <5>1, <6>1 DEF StreamTypeOK
        <5>2. CASE ~ (i >= Place /\ i < Place + Chunk)
          BY <2>a, <5>2 DEF StreamTypeOK
        <5> QED BY <5>1, <5>2
      <4> QED BY <2>4, <4>1 DEF diskstreamer_read
    <3>5. ASSUME NEW i \in 0 .. Place' - 1
          PROVE  out'[i] = bytes[stream.start + i]
      <4>1. i \in 0 .. Place + Chunk - 1 /\ i \in 0 .. IntMax /\ Place \in Nat
        <5>1. Place' = Place + Chunk
          BY <3>1, <3>2, <2>b DEF Place
        <5>2. Chunk \in Nat /\ Place + Chunk <= IntMax
          BY <3>1, <2>b
        <5> QED BY <3>5, <5>1, <5>2, <2>b
      <4>2. out'[i] = IF i >= Place /\ i < Place + Chunk THEN Block[offset + i - Place] ELSE out[i]
        BY <2>4, <4>1 DEF diskstreamer_read
      <4>3. CASE i < Place
        BY <2>a, <2>4, <4>1, <4>2, <4>3 DEF diskstreamer_read, ExactlyTheBytes
      <4>4. CASE i >= Place
        BY <3>1, <3>3, <4>1, <4>2, <4>4
      <4> QED BY <4>1, <4>3, <4>4
    <3>6. StreamTypeOK' /\ Bounded'
      <4>1. stream'.start <= stream'.pos /\ stream'.start + stream'.asked <= IntMax
        BY <2>b, <3>1, <3>2
      <4> QED BY <2>a, <2>4, <3>2, <3>4, <4>1 DEF diskstreamer_read, StreamTypeOK, Bounded, Streams
    <3>7. ExactlyTheBytes'
      <4>1. stream'.pos + stream'.total = stream'.start + stream'.asked
        BY <3>1, <3>2, <2>b
      <4>2. stream'.op = "read" /\ bytes' = bytes /\ stream'.start = stream.start
        BY <2>4, <3>2 DEF diskstreamer_read
      <4> QED BY <2>a, <3>5, <4>1, <4>2 DEF ExactlyTheBytes
    <3> QED BY <3>6, <3>7 DEF IInv
  <2>5. CASE diskstreamer_write
    <3>1. Chunk \in Nat /\ Chunk >= 1 /\ Chunk <= stream.total
      BY <2>a, <2>b, <2>5, TurnFacts DEF diskstreamer_write
    <3>2. /\ stream'.pos \in stream.pos .. stream.pos + Chunk
          /\ stream'.pos + stream'.total = stream.pos + stream.total
          /\ stream'.start = stream.start /\ stream'.asked = stream.asked /\ stream'.op = "write"
          /\ stream' \in Streams
      <4>1. CASE Advance
        <5>1. /\ stream'.pos = stream.pos + Chunk /\ stream'.total = stream.total - Chunk
              /\ stream'.start = stream.start /\ stream'.asked = stream.asked
              /\ stream'.op = stream.op /\ stream' \in Streams
          BY <2>5, <4>1, Advanced DEF diskstreamer_write
        <5>2. stream.op = "write"
          BY <2>5 DEF diskstreamer_write
        <5> QED BY <2>b, <3>1, <5>1, <5>2
      <4>2. CASE stream' = [stream EXCEPT !.running = FALSE]
        <5>1. stream \in Streams
          BY <2>a DEF StreamTypeOK, Streams
        <5>2. /\ stream'.pos = stream.pos /\ stream'.total = stream.total
              /\ stream'.start = stream.start /\ stream'.asked = stream.asked
              /\ stream'.op = stream.op /\ stream' \in Streams
          BY <4>2, <5>1 DEF Streams
        <5> QED BY <2>b, <2>5, <3>1, <5>2 DEF diskstreamer_write
      <4> QED BY <2>5, <4>1, <4>2 DEF diskstreamer_write
    <3>3. bytes' \in [Positions -> Byte]
      BY <2>a, <2>5, WrittenBackType DEF diskstreamer_write, ExactlyTheBytes
    <3>4. StreamTypeOK' /\ Bounded'
      <4>1. stream'.start <= stream'.pos /\ stream'.start + stream'.asked <= IntMax
        BY <2>b, <3>1, <3>2
      <4> QED BY <2>a, <2>5, <3>2, <3>3, <4>1 DEF diskstreamer_write, StreamTypeOK, Bounded, Streams
    <3>5. ASSUME NEW a \in Positions
          PROVE  bytes'[a] = IF a \in stream.pos .. stream.pos + Chunk - 1
                             THEN Data[a - stream.start] ELSE bytes[a]
      BY <2>a, <2>5, WrittenBack DEF diskstreamer_write
    <3>6. ASSUME NEW a \in Positions
          PROVE  /\ a \in stream'.start .. stream'.pos - 1 => bytes'[a] = Data[a - stream'.start]
                 /\ a \notin stream'.start .. stream'.start + stream'.asked - 1 => bytes'[a] = before'[a]
      <4>1. /\ a \in stream.start .. stream.pos - 1 => bytes[a] = Data[a - stream.start]
            /\ a \notin stream.start .. stream.start + stream.asked - 1 => bytes[a] = before[a]
        BY <2>a, <2>5, <3>6 DEF diskstreamer_write, ExactlyTheBytes
      <4>2. a \in Int /\ before' = before
        BY <2>5, <3>6 DEF diskstreamer_write, Positions
      <4>3. stream'.pos \in Nat /\ stream'.pos <= stream.pos + Chunk
        BY <2>b, <3>1, <3>2
      <4>4. CASE a \in stream.pos .. stream.pos + Chunk - 1
        <5>1. bytes'[a] = Data[a - stream.start]
          BY <3>5, <4>4
        <5>2. a \in stream.start .. stream.start + stream.asked - 1
          BY <2>b, <3>1, <4>2, <4>4
        <5> QED BY <3>2, <5>1, <5>2
      <4>5. CASE a \notin stream.pos .. stream.pos + Chunk - 1
        BY <2>b, <3>1, <3>2, <3>5, <4>1, <4>2, <4>3, <4>5
      <4> QED BY <4>4, <4>5
    <3>7. ExactlyTheBytes'
      BY <2>a, <3>2, <3>6 DEF ExactlyTheBytes
    <3> QED BY <3>4, <3>7 DEF IInv
  <2>6. CASE Return
    BY <2>a, <2>6 DEF IInv, Return, StreamTypeOK, Bounded, ExactlyTheBytes, Place
  <2> QED BY <2>1, <2>2, <2>3, <2>4, <2>5, <2>6 DEF StreamNext
<1> QED BY <1>1, <1>2, PTL DEF StreamSpec

\* For every size of a sector, of the disk and of INT_MAX, a read or a write through the
\* streamer moves exactly the bytes it was asked to move, as far as it got, and leaves
\* every other byte of the disk alone.
THEOREM StreamerExact == StreamSpec => []ExactlyTheBytes
<1>1. IInv => ExactlyTheBytes
  BY DEF IInv
<1> QED BY <1>1, Invariant, PTL
================================================================================
