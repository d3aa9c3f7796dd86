--------------------------------- MODULE MCDisk --------------------------------
(* The ATA driver and the streamer, each on its own, in one state space. *)
EXTENDS AtaDriver, Streamer, TLC

VARIABLE which

Symmetry == Permutations(Values)

Disk == [kind |-> "ata", complete |-> TRUE, lba |-> TRUE, sectors |-> 2, flush |-> TRUE,
         size_valid |-> FALSE, words |-> 0]

AllDrives ==
  {Disk, [Disk EXCEPT !.sectors = 4, !.size_valid = TRUE, !.words = SectorWords],
   [Disk EXCEPT !.size_valid = TRUE, !.words = 8 * SectorWords],
   [Disk EXCEPT !.complete = FALSE], [Disk EXCEPT !.lba = FALSE],
   [Disk EXCEPT !.sectors = 0], [Disk EXCEPT !.flush = FALSE],
   [Disk EXCEPT !.kind = "atapi"], [Disk EXCEPT !.kind = "absent"],
   [Disk EXCEPT !.kind = "floating"]}

MCByte == ({"old"} \X Positions) \cup ({"new"} \X (0 .. IntMax))
MCOld  == [a \in Positions |-> <<"old", a>>]
MCData == [a \in 0 .. IntMax |-> <<"new", a>>]

MCInit ==
  /\ Init /\ StreamInit
  /\ which \in {"driver", "streamer"}
  /\ which = "streamer" => model = Disk

MCNext ==
  /\ UNCHANGED which
  /\ \/ which = "driver" /\ Next /\ UNCHANGED streamVars
     \/ which = "streamer" /\ StreamNext /\ UNCHANGED vars

MCSpec == MCInit /\ [][MCNext]_<<vars, streamVars, which>>
================================================================================
