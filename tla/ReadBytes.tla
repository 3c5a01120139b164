------------------------------ MODULE ReadBytes ------------------------------
(***************************************************************************)
(* odfs_cache_read_bytes() (core/cache_block.c): a byte range of an extent *)
(* is cut into a partial first sector, runs of whole sectors that bypass   *)
(* the cache, whole sectors through the cache and a partial last one.      *)
(*                                                                         *)
(* Sector numbers have a width: the cut must stop at the last sector, not  *)
(* wrap to the first.  A byte of the medium is named by its address        *)
(* sector * SectorSize + offset, so what arrives can be compared with what *)
(* was asked for.  The names that every specification has carry a prefix,  *)
(* so that BlockCacheProofs can extend this module and BlockCache.         *)
(*                                                                         *)
(* An operator that is used nowhere and stands right before another one is *)
(* a faulty variant of it (README.md, "Faulty variants").                  *)
(***************************************************************************)
EXTENDS Naturals, Sequences

CONSTANTS
  SectorSize,   \* bytes in a sector
  LastLba,      \* UINT32_MAX
  StreamMin,    \* ODFS_CACHE_STREAM_MIN_SECTORS
  MaxOffset,    \* bound on the offset asked for
  MaxWant       \* bound on the length asked for

ASSUME ReadAssumption ==
  /\ SectorSize \in Nat \ {0} /\ LastLba \in Nat \ {0} /\ StreamMin \in Nat \ {0}
  /\ MaxOffset \in Nat /\ MaxWant \in Nat

VARIABLES
  start_lba, offset, want, \* start_lba, offset and *len as called
  pc,                      \* the loop the function is in
  lba,                     \* the next sector
  done,                    \* bytes delivered
  out,                     \* the addresses of the bytes in the caller's buffer
  len,                     \* *len
  err                      \* the result

args == <<start_lba, offset, want>>
readVars == <<args, pc, lba, done, out, len, err>>

Least(a, b) == IF a < b THEN a ELSE b
Bytes(first, n) == [k \in 1..n |-> first + k - 1]
Sectors == (want - done) \div SectorSize

\* Return with *len telling how far the read got.
Return(result, n) == pc' = "end" /\ err' = result /\ len' = n

\* The checks and the first sector number; the sum is taken in 64 bits.
Enter ==
  /\ pc = "enter"
  /\ LET lba64 == start_lba + offset \div SectorSize IN
     IF want = 0 THEN Return("ok", len) /\ UNCHANGED lba
     ELSE IF lba64 > LastLba THEN Return("range", len) /\ UNCHANGED lba
     ELSE /\ lba' = lba64
          /\ pc' = IF offset % SectorSize # 0 THEN "head" ELSE "stream"
          /\ UNCHANGED <<len, err>>
  /\ UNCHANGED <<args, done, out>>

\* There is more to read behind the next count sectors, and no sector number.
BeyondEarly(n, count) == done + n < want /\ lba + count >= LastLba
Beyond(n, count) == done + n < want /\ lba + count > LastLba

\* n bytes from byte from of the next sector arrive; the sector number moves on
\* by count sectors, or the range is exhausted first.
DeliverWrapping(from, n, count, then) ==
  /\ out' = out \o Bytes(lba * SectorSize + from, n)
  /\ done' = done + n
  /\ lba' = (lba + count) % (LastLba + 1)
  /\ pc' = then
  /\ UNCHANGED <<len, err, args>>
Deliver(from, n, count, then) ==
  /\ out' = out \o Bytes(lba * SectorSize + from, n)
  /\ done' = done + n
  /\ IF Beyond(n, count)
     THEN Return("range", done + n) /\ UNCHANGED lba
     ELSE /\ lba' = (lba + count) % (LastLba + 1)
          /\ pc' = then /\ UNCHANGED <<len, err>>
  /\ UNCHANGED args

\* The partial first sector.
HeadSector ==
  /\ pc = "head"
  /\ LET off == offset % SectorSize
     IN  Deliver(off, Least(SectorSize - off, want), 1, "stream")

\* Long runs of whole sectors go straight to the medium.
RunClampedShort == Least(Sectors, LastLba - lba)
Run == Least(Least(LastLba, Sectors), LastLba - lba + 1)
Stream ==
  /\ pc = "stream" /\ Sectors >= StreamMin
  /\ Deliver(0, Run * SectorSize, Run, "stream")

StreamDone ==
  /\ pc = "stream" /\ Sectors < StreamMin
  /\ pc' = "full"
  /\ UNCHANGED <<args, lba, done, out, len, err>>

\* Single whole sectors go through the cache.
Full ==
  /\ pc = "full" /\ Sectors >= 1
  /\ Deliver(0, SectorSize, 1, "full")

\* The partial last sector, if any, and the end.
TailSector ==
  /\ pc = "full" /\ Sectors = 0
  /\ LET tail == want - done IN
     /\ out' = out \o Bytes(lba * SectorSize, tail)
     /\ done' = want
  /\ Return("ok", want)
  /\ UNCHANGED <<args, lba>>

\* The cache or the medium fails; *len tells how far the read got.
ReadError ==
  /\ pc \in {"head", "stream", "full"}
  /\ done < want
  /\ pc = "stream" => Sectors >= StreamMin
  /\ Return("io", done)
  /\ UNCHANGED <<args, lba, done, out>>

ReadInit ==
  /\ start_lba \in 0..LastLba /\ offset \in 0..MaxOffset /\ want \in 0..MaxWant
  /\ pc = "enter" /\ lba = 0 /\ done = 0 /\ out = <<>> /\ len = want /\ err = "none"

ReadStep == Enter \/ HeadSector \/ Stream \/ StreamDone \/ Full \/ TailSector
ReadNext == ReadStep \/ ReadError

\* The function runs on; no read has to fail.
ReadSpec == ReadInit /\ [][ReadNext]_readVars /\ WF_readVars(ReadStep)

-----------------------------------------------------------------------------
(* Properties.                                                             *)

\* Address of the first byte asked for, and the end of what can be addressed.
First == start_lba * SectorSize + offset
Limit == (LastLba + 1) * SectorSize

\* Every variable stays in its range.
ReadTypeOK ==
  /\ start_lba \in 0..LastLba /\ offset \in Nat /\ want \in Nat /\ lba \in 0..LastLba
  /\ pc \in {"enter", "head", "stream", "full", "end"} /\ done \in 0..want
  /\ out \in Seq(Nat) /\ len \in 0..want /\ err \in {"none", "ok", "range", "io"}

\* At every moment the caller's buffer holds the bytes asked for, in order,
\* without a gap, a repetition or a byte from behind a wrapped sector number.
BytesExact == out = Bytes(First, done)

\* Success means all the bytes; a range error means that exactly the bytes up to
\* the last addressable sector have been delivered, and that more were wanted;
\* *len is the number of bytes delivered (a range that starts behind the last
\* sector is refused with *len untouched).
ResultExact ==
  /\ err = "ok" => done = want
  /\ pc = "end" => len = IF First < Limit THEN done ELSE want
  /\ err = "range" => /\ First + want > Limit
                      /\ First < Limit => First + done = Limit

\* The call comes to an end: every pass of its loops makes progress, also in the
\* last sector of the address space, where the run is clamped.
Terminates == <>(pc = "end")
=============================================================================
