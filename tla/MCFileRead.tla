----------------------------- MODULE MCFileRead -----------------------------
(***************************************************************************)
(* An instance of FileRead: sectors of two bytes, CMD_READ reaching four   *)
(* of them, one file below that limit and one across it.                   *)
(***************************************************************************)
EXTENDS FileRead

MCFiles == {[lba |-> 1, size |-> 6], [lba |-> 3, size |-> 5]}
\* Blocks of a sector, of half a sector and of four.
MCDrives == {[read64 |-> {"nsd"}, scsi |-> "none", block |-> 2],
             [read64 |-> {}, scsi |-> "yes", block |-> 2],
             [read64 |-> {}, scsi |-> "yes", block |-> 1],
             [read64 |-> {"td64"}, scsi |-> "yes", block |-> 8]}

\* A drive that SectorsOrRead64 leaves out.
LargeBlocks == {[read64 |-> {}, scsi |-> "yes", block |-> 8]}
MCFaults == {[bad |-> {}, quirk |-> FALSE], [bad |-> {}, quirk |-> TRUE],
             [bad |-> {3, 5}, quirk |-> FALSE]}
Swap == Permutations(Discs)
=============================================================================
