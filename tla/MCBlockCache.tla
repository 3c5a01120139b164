---------------------------- MODULE MCBlockCache ----------------------------
(***************************************************************************)
(* The block cache with its two kinds of callers: those that ask for       *)
(* sectors (metadata, the file read path) and odfs_cache_read_bytes(),     *)
(* whose partial and single sectors go through cache_copy_sector() and so  *)
(* through odfs_cache_read(), while its long runs bypass the cache.        *)
(*                                                                         *)
(* A call of odfs_cache_read_bytes() starts with an empty cache; after one *)
(* call that asks for nothing the cache belongs to the others.             *)
(***************************************************************************)
EXTENDS BlockCache, ReadBytes

ASSUME SameWidth == MaxLba = LastLba

allVars == <<vars, readVars>>

Idle == pc = "end" /\ <<start_lba, offset, want>> = <<0, 0, 0>>

\* odfs_cache_read() of a sector that can be read.
SectorRead(l) == ReadHit(l) \/ ReadCluster(l) \/ ReadSingle(l)

\* The steps of odfs_cache_read_bytes() with what they do to the cache.
ByteStep ==
  \/ (Enter \/ StreamDone \/ Stream) /\ UNCHANGED vars
  \/ (HeadSector \/ Full) /\ SectorRead(lba)
  \/ TailSector /\ IF done < want THEN SectorRead(lba) ELSE UNCHANGED vars

ByteError == ReadError /\ IF pc = "stream" THEN UNCHANGED vars ELSE ReadFails(lba)

MCInit == Init /\ ReadInit
MCNext == \/ ByteStep \/ ByteError
          \/ Idle /\ Next /\ UNCHANGED readVars
MCSpec == MCInit /\ [][MCNext]_allVars /\ WF_readVars(ReadStep)
=============================================================================
