------------------------------ MODULE FileRead ------------------------------
(***************************************************************************)
(* Reads of an open file (platform/amiga/handler_main.c): the sector       *)
(* read-ahead started by Seek, the quick paths of Read, the general path   *)
(* through the block cache, and the device requests below and beyond the   *)
(* byte offset that CMD_READ can express.                                  *)
(*                                                                         *)
(* The handler runs one packet at a time; beside it run the device, which  *)
(* completes the read-ahead whenever it likes, and the user, who changes   *)
(* the disc.  A sector's content is named by its disc and its number, a    *)
(* byte by its disc and its address, so that what a caller receives can be *)
(* compared with what the file holds.                                      *)
(*                                                                         *)
(* An operator that is used nowhere and stands right before another one is *)
(* a faulty variant of it (README.md, "Faulty variants").                  *)
(***************************************************************************)
EXTENDS Integers, Sequences, FiniteSets, SequencesExt

CONSTANTS
  Null,          \* no handle, no data
  Discs,         \* the discs the user has
  SectorSize,    \* bytes in a sector (2048)
  Limit,         \* first sector CMD_READ cannot address (0x200000)
  Files,         \* [lba, size] of the files of every disc
  PfSectors,     \* ODFS_PF_SECTORS
  MaxTransfer,   \* max_transfer_blocks
  DmaSectors,    \* sectors of the bounce buffer
  CacheSlots,    \* sectors the block cache holds
  StreamMin,     \* ODFS_CACHE_STREAM_MIN_SECTORS
  ProbeSector,   \* the sector probe_scsi_reads() compares (16)
  Drives,        \* the drivers: the commands each implements
  Faults,        \* what may go wrong during one packet: bad sectors, a SCSI quirk
  Lengths,       \* the lengths read
  Offsets,       \* the positions sought
  MaxMounts      \* bound on the mounts

ASSUME FileReadAssumption ==
  /\ SectorSize \in Nat \ {0} /\ Limit \in Nat \ {0} /\ PfSectors \in Nat \ {0, 1}
  /\ MaxTransfer \in Nat \ {0} /\ DmaSectors \in Nat \ {0} /\ MaxMounts \in Nat \ {0}
  /\ CacheSlots \in Nat \ {0} /\ StreamMin \in Nat \ {0}
ASSUME MediaAssumption ==
  /\ Files \subseteq [lba : Nat, size : Nat] /\ ProbeSector \in 1..Limit - 1
  /\ \A d \in Drives : d.block \in Nat \ {0}
  /\ Lengths \subseteq Nat /\ Offsets \subseteq Nat

VARIABLES
  aros,          \* the build: AROS, or OS3
  drive,         \* the driver's commands
  disc,          \* the disc in the drive
  changed,       \* the disc was changed and the handler has not noticed
  mount,         \* the disc mounted and the number of the mount; 0: shut down
  scsiReads,     \* scsi_reads
  read64Mode,    \* read64_mode
  cache,         \* the block cache, most recently used sector first
  pf,            \* pf_state, pf_lba, pf_count and pf_buf
  req,           \* pf_req as the device has it: idle, sent, done or failed
  fh,            \* the handle, Null when none is open
  wrong          \* reads that delivered something else than the file

medium == <<aros, drive, disc, changed>>
vars == <<medium, mount, scsiReads, read64Mode, cache, pf, req, fh, wrong>>

Least(a, b) == IF a < b THEN a ELSE b
SectorsOf(size) == (size + SectorSize - 1) \div SectorSize

-----------------------------------------------------------------------------
(* Device requests.  An answer is the sectors read, or an error.           *)

Content(lba, n) == [k \in 1..n |-> [disc |-> disc, at |-> lba + k - 1]]
Answer(lba, n) == [err |-> "ok", data |-> Content(lba, n)]
Error(e) == [err |-> e, data |-> <<>>]
Spoiled(f, lba, n) == \E k \in 0..n - 1 : lba + k \in f.bad

\* CMD_READ: the offset is 32 bits of bytes and wraps.
CmdRead(f, lba, n) ==
  IF Spoiled(f, lba % Limit, n) THEN Error("io") ELSE Answer(lba % Limit, n)

\* READ(10): the drive counts in its own blocks, of block bytes each, and scsi_Actual
\* tells the bytes of n of them that went into the buffer.  A larger block is as
\* many whole sectors.
ScsiActual(n) == n * Least(drive.block, SectorSize)
ScsiSector(lba) == lba * (drive.block \div SectorSize)
ScsiRead10(f, lba, n) ==
  CASE drive.scsi = "none" -> Error("nocmd")
    [] drive.scsi # "none" /\ ( \/ f.quirk \/ Spoiled(f, ScsiSector(lba), n)
                               \/ ScsiActual(n) # n * SectorSize) -> Error("io")
    [] OTHER -> Answer(ScsiSector(lba), n)

\* TD_READ64 and NSCMD_TD_READ64 take the whole offset.
Read64(f, m, lba, n) ==
  CASE m = "scsi" -> ScsiRead10(f, lba, n)
    [] m # "scsi" /\ m \notin drive.read64 -> Error("nocmd")
    [] OTHER -> IF Spoiled(f, lba, n) THEN Error("io") ELSE Answer(lba, n)

\* amiga_read_hi(): the first method the driver does not reject is kept, once it
\* has worked; a kept method's failure is reported.
Methods == <<"td64", "nsd", "scsi">>
ReadHi(f, mode, lba, n) ==
  LET Took(m) == Read64(f, m, lba, n).err # "nocmd"
      Kept(m, a) == [mode |-> IF a.err = "ok" THEN m ELSE mode, answer |-> a]
      Try(m) == Kept(m, Read64(f, m, lba, n))
      tried == {i \in DOMAIN Methods : Took(Methods[i])}
  IN  CASE mode = "none" -> [mode |-> mode, answer |-> Error("unsupported")]
        [] mode \notin {"none", "unprobed"} -> [mode |-> mode, answer |-> Read64(f, mode, lba, n)]
        [] OTHER -> IF tried = {} THEN [mode |-> "none", answer |-> Error("unsupported")]
                    ELSE Try(Methods[Min(tried)])

\* amiga_read_lo(): READ(10) when the probe chose it, CMD_READ when that fails.
ReadLo(f, scsi, lba, n) ==
  IF scsi /\ ScsiRead10(f, lba, n).err = "ok" THEN ScsiRead10(f, lba, n)
  ELSE CmdRead(f, lba, n)

\* probe_scsi_reads(): both ways must give the same sector.
ProbeScsiReads(f) ==
  LET a == ReadLo(f, FALSE, ProbeSector, 1)
      b == ScsiRead10(f, ProbeSector, 1)
  IN  a.err = "ok" /\ b.err = "ok" /\ a.data = b.data

\* The buffer can take the transfer itself.
CanReadDirect(direct, n) == direct /\ n >= 2

\* One request of amiga_read_sectors() or amiga_read_direct(): a chunk that starts
\* beyond the limit takes the 64-bit way.  r is what the call has so far.
ReadChunk(f, r, lba, n) ==
  LET Add(a, mode) == [r EXCEPT !.err = a.err, !.data = @ \o a.data, !.mode = mode]
      AddHi(hi) == Add(hi.answer, hi.mode)
  IN  IF lba >= Limit THEN AddHi(ReadHi(f, r.mode, lba, n))
      ELSE Add(ReadLo(f, scsiReads, lba, n), r.mode)

\* The chunks of a transfer: as long as the driver allows, and through the bounce
\* buffer no longer than it is.
ChunkLength(n, direct) ==
  IF CanReadDirect(direct, n) THEN MaxTransfer ELSE Least(DmaSectors, MaxTransfer)
Chunks(lba, n, max) ==
  [k \in 1..(n + max - 1) \div max |->
     [lba |-> lba + (k - 1) * max, n |-> Least(max, n - (k - 1) * max)]]
ReadSectors(f, mode, lba, n, direct) ==
  LET Turn(r, c) == IF r.err = "ok" THEN ReadChunk(f, r, c.lba, c.n) ELSE r
  IN  FoldLeft(Turn, [err |-> "ok", data |-> <<>>, mode |-> mode],
               Chunks(lba, n, ChunkLength(n, direct)))

-----------------------------------------------------------------------------
(* The block cache and odfs_cache_read_bytes() (BlockCache and ReadBytes   *)
(* model them in detail).                                                  *)

Cached(c, lba) == \E k \in DOMAIN c : c[k].lba = lba
SlotOf(c, lba) == (CHOOSE k \in DOMAIN c : c[k].lba = lba)
Install(c, lba, s) ==
  LET others == IF Cached(c, lba) THEN RemoveAt(c, SlotOf(c, lba)) ELSE c
      all == <<[lba |-> lba, data |-> s]>> \o others
  IN  SubSeq(all, 1, Least(CacheSlots, Len(all)))
Touch(c, lba) == Install(c, lba, c[SlotOf(c, lba)].data)

\* Bytes from..from+n-1 of a sequence of sectors.
Cut(sectors, from, n) ==
  [k \in 1..n |-> LET p == from + k - 1
                      s == sectors[p \div SectorSize + 1]
                  IN  [disc |-> s.disc, at |-> s.at * SectorSize + (p % SectorSize)]]

\* A part of one sector, through the cache.
CopyRead(r, p, a) ==
  IF a.err # "ok" THEN [r EXCEPT !.err = a.err, !.mode = a.mode]
  ELSE [r EXCEPT !.out = @ \o Cut(a.data, p.from, p.n), !.mode = a.mode,
                 !.cache = Install(@, p.lba, a.data[1])]
CopySector(f, r, p) ==
  IF Cached(r.cache, p.lba)
  THEN [r EXCEPT !.out = @ \o Cut(<<r.cache[SlotOf(r.cache, p.lba)].data>>, p.from, p.n),
                 !.cache = Touch(@, p.lba)]
  ELSE CopyRead(r, p, ReadSectors(f, r.mode, p.lba, 1, FALSE))

\* A run of whole sectors, past the cache.
StreamSectors(f, r, p, direct) ==
  LET Add(a) == IF a.err # "ok" THEN [r EXCEPT !.err = a.err, !.mode = a.mode]
                ELSE [r EXCEPT !.out = @ \o Cut(a.data, 0, p.n), !.mode = a.mode]
  IN  Add(ReadSectors(f, r.mode, p.lba, p.n \div SectorSize, direct))

\* The pieces a byte range is cut into.
Pieces(start, offset, want) ==
  LET lba == start + offset \div SectorSize
      off == offset % SectorSize
      head == IF off = 0 THEN 0 ELSE Least(SectorSize - off, want)
      next == IF off = 0 THEN lba ELSE lba + 1
      full == (want - head) \div SectorSize
      tail == (want - head) % SectorSize
      Piece(l, from, n, s) == [lba |-> l, from |-> from, n |-> n, stream |-> s]
  IN  (IF head = 0 THEN <<>> ELSE <<Piece(lba, off, head, FALSE)>>) \o
      (IF full >= StreamMin THEN <<Piece(next, 0, full * SectorSize, TRUE)>>
       ELSE [k \in 1..full |-> Piece(next + k - 1, 0, SectorSize, FALSE)]) \o
      (IF tail = 0 THEN <<>> ELSE <<Piece(next + full, 0, tail, FALSE)>>)

\* odfs_read() of a contiguous file: the range is clipped to the file.
ReadFile(f, c, file, pos, len, direct) ==
  LET want == IF pos >= file.size THEN 0 ELSE Least(len, file.size - pos)
      Turn(r, p) == IF r.err # "ok" THEN r
                    ELSE IF p.stream THEN StreamSectors(f, r, p, direct)
                    ELSE CopySector(f, r, p)
  IN  FoldLeft(Turn, [err |-> "ok", out |-> <<>>, cache |-> c, mode |-> read64Mode],
               Pieces(file.lba, pos, want))

-----------------------------------------------------------------------------
(* Read-ahead.                                                             *)

\* alloc_fh(): the quick paths serve contiguous files that end below the limit.
DirectSize(file) ==
  IF file.size # 0 /\ file.lba < Limit /\ SectorsOf(file.size) <= Limit - file.lba
  THEN file.size ELSE 0

NoRequest == [state |-> "idle", lba |-> 0, n |-> 0, data |-> <<>>]
\* pf_lba, pf_count and pf_buf mean nothing while pf_state is none.
NoPrefetch == [state |-> "none", lba |-> 0, count |-> 0, buf |-> <<>>]

\* prefetch_cancel(): AbortIO() and WaitIO(), whatever the device answers.
CancelRequestOnly ==
  pf' = (IF pf.state = "busy" THEN NoPrefetch ELSE pf) /\ req' = NoRequest
PrefetchCancel == pf' = NoPrefetch /\ req' = NoRequest

\* The device's answer to the read-ahead at this moment: pf_req is on a sector
\* below the limit, so the command does not matter to what it reads.
PrefetchAnswer(f) ==
  IF scsiReads THEN ScsiRead10(f, req.lba, req.n) ELSE CmdRead(f, req.lba, req.n)

\* A sector of the window goes into the block cache: the k-th from its end.
RetainedForward(c, data, k) ==
  LET lba == pf.lba + pf.count - k
  IN  IF Cached(c, lba) THEN c ELSE Install(c, lba, data[k])
Retained(c, data, k) ==
  LET lba == pf.lba + pf.count - k
  IN  IF Cached(c, lba) THEN c ELSE Install(c, lba, data[pf.count - k + 1])

\* prefetch_wait(): WaitIO() on a request in flight; on AROS a small window is
\* kept in the block cache, its first sector last.
Waited(f) ==
  LET a == CASE req.state = "sent" -> PrefetchAnswer(f)
             [] req.state = "done" -> [err |-> "ok", data |-> req.data]
             [] OTHER -> Error("io")
      Keep(c, k) == Retained(c, a.data, k)
  IN  IF pf.state # "busy" THEN [pf |-> pf, cache |-> cache]
      ELSE IF a.err # "ok" THEN [pf |-> NoPrefetch, cache |-> cache]
      ELSE [pf |-> [pf EXCEPT !.state = "valid", !.buf = a.data],
            cache |-> IF aros /\ pf.count <= 2
                      THEN FoldLeft(Keep, cache, [k \in 1..pf.count |-> k]) ELSE cache]

\* The read-ahead window holds sectors lba..lba+n-1.
Holds(lba, n) ==
  /\ pf.state # "none" /\ pf.lba <= lba /\ lba < pf.lba + pf.count
  /\ n <= pf.count - (lba - pf.lba)
\* The sectors the next read of the handle's last length would want (AROS); OS3
\* looks at the first alone.
Wanted(file, pos, last) ==
  IF aros
  THEN SectorsOf((pos % SectorSize) + Least(DirectSize(file) - pos, last))
  ELSE 1

\* The sectors worth reading: inside the file, in one request, in the buffer.
SectorCountUnclipped(file, pos, sequential) ==
  IF aros THEN Least(IF sequential THEN PfSectors ELSE 2, MaxTransfer) ELSE PfSectors
SectorCount(file, pos, sequential) ==
  LET rest == (DirectSize(file) - 1) \div SectorSize - pos \div SectorSize + 1
  IN  IF aros
      THEN Least(Least(IF sequential THEN PfSectors ELSE 2, MaxTransfer), rest)
      ELSE Least(PfSectors, rest)

\* Whether prefetch_start() sends a request for the position the handle is at.
ReadsAhead(file, pos, last) ==
  /\ DirectSize(file) # 0 /\ last # 0 /\ last <= 2 * SectorSize
  /\ pos < DirectSize(file)
  /\ LET lba == file.lba + pos \div SectorSize
         wanted == Wanted(file, pos, last)
     IN  /\ ~Holds(lba, wanted)
         /\ \E k \in 0..wanted - 1 : ~Cached(cache, lba + k)

\* prefetch_start(): a request in flight is aborted before its successor is sent.
\* open says whether prefetch_open() finds a port and a request.
PrefetchStart(file, pos, last, sequential, open) ==
  IF ReadsAhead(file, pos, last) /\ open
  THEN LET lba == file.lba + pos \div SectorSize
           n == SectorCount(file, pos, sequential)
       IN  /\ pf' = [state |-> "busy", lba |-> lba, count |-> n, buf |-> <<>>]
           /\ req' = [state |-> "sent", lba |-> lba, n |-> n, data |-> <<>>]
  ELSE UNCHANGED <<pf, req>>

-----------------------------------------------------------------------------
(* Packets.                                                                *)

Serving == mount.number # 0
Active == Serving /\ fh # Null /\ fh.mount = mount.number

\* The bytes the file holds from pos on.
FileBytes(file, pos, n) ==
  LET have == IF pos >= file.size THEN 0 ELSE Least(n, file.size - pos)
  IN  [k \in 1..have |-> [disc |-> mount.disc, at |-> file.lba * SectorSize + pos + k - 1]]

\* What a caller receives is compared with the file while the disc in the drive
\* is known to be the mounted one.
Judge(file, pos, len, out, err, moved) ==
  LET want == FileBytes(file, pos, len)
      good == /\ IsPrefix(out, want)
              /\ err = "ok" => out = want
              /\ moved = Len(out)
  IN  wrong' = IF changed \/ good THEN wrong ELSE wrong \cup {[pos |-> pos, len |-> len]}

\* action_findinput().
Open(file) ==
  /\ Serving /\ fh = Null
  /\ fh' = [file |-> file, pos |-> 0, last |-> 0, mount |-> mount.number]
  /\ UNCHANGED <<medium, mount, scsiReads, read64Mode, cache, pf, req, wrong>>

\* action_end().
Close ==
  /\ Serving /\ fh # Null
  /\ fh' = Null
  /\ UNCHANGED <<medium, mount, scsiReads, read64Mode, cache, pf, req, wrong>>

\* fh_read_direct(): whole sectors in one request into the caller's buffer.
DirectRead(f, len, direct) ==
  LET size == DirectSize(fh.file)
      want == Least(size - fh.pos, len)
  IN  IF /\ size # 0 /\ fh.pos < size
         /\ fh.pos % SectorSize = 0 /\ want % SectorSize = 0 /\ want >= 2 * SectorSize
         /\ want <= MaxTransfer * SectorSize /\ direct
      THEN LET a == ReadLo(f, scsiReads, fh.file.lba + fh.pos \div SectorSize,
                           want \div SectorSize)
           IN  IF a.err = "ok" THEN Cut(a.data, 0, want) ELSE <<>>
      ELSE <<>>

\* prefetch_read(): what the read-ahead window has of the range.
PrefetchRead(w, len) ==
  LET size == DirectSize(fh.file)
      off == fh.file.lba + fh.pos \div SectorSize - pf.lba
      from == off * SectorSize + (fh.pos % SectorSize)
      n == Least(Least(w.pf.count * SectorSize - from, size - fh.pos), len)
  IN  IF w.pf.state = "valid" THEN Cut(w.pf.buf, from, n) ELSE <<>>
\* It is asked at all: the window reaches over the position.
AsksPrefetch == /\ pf.state # "none" /\ fh.pos < DirectSize(fh.file)
                /\ LET lba == fh.file.lba + fh.pos \div SectorSize
                   IN  pf.lba <= lba /\ lba < pf.lba + pf.count

\* fh_read_cached(): a range inside one cached sector.
CachedRead(c, pos, len) ==
  LET size == DirectSize(fh.file)
      n == Least(len, size - pos)
      lba == fh.file.lba + pos \div SectorSize
  IN  IF pos < size /\ n # 0 /\ n <= SectorSize - (pos % SectorSize) /\ Cached(c, lba)
      THEN Cut(<<c[SlotOf(c, lba)].data>>, pos % SectorSize, n) ELSE <<>>

\* The end of a Read: out arrives in the caller's buffer and the position moves.
Deliver(len, out, err) ==
  /\ fh' = [fh EXCEPT !.pos = @ + Len(out), !.last = len]
  /\ Judge(fh.file, fh.pos, len, out, err, fh'.pos - fh.pos)
  /\ UNCHANGED <<medium, mount, scsiReads>>

\* The general path's answer g, behind what a quick path had already.
DeliverRest(len, pre, g) ==
  /\ Deliver(len, pre \o g.out, g.err)
  /\ cache' = g.cache /\ read64Mode' = g.mode

\* action_read(): a large read goes to the device in one request if it can.
ReadLarge(f, len, direct) ==
  /\ Active /\ DirectSize(fh.file) # 0 /\ len >= 2 * SectorSize
  /\ \E d \in {DirectRead(f, len, direct)} :
       IF d # <<>> THEN Deliver(len, d, "ok") /\ UNCHANGED <<cache, read64Mode>>
       ELSE \E g \in {ReadFile(f, cache, fh.file, fh.pos, len, direct)} : DeliverRest(len, <<>>, g)
  /\ UNCHANGED <<pf, req>>

\* After the pre bytes of the read-ahead: a cached sector, or the general path.
\* Less than two sectors never go into the caller's buffer directly.
ReadPastPrefetch(f, len, c, pre) ==
  LET pos == fh.pos + Len(pre)
  IN  \E hit \in {CachedRead(c, pos, len - Len(pre))} :
        IF hit # <<>>
        THEN /\ Deliver(len, pre \o hit, "ok")
             /\ cache' = Touch(c, fh.file.lba + pos \div SectorSize)
             /\ UNCHANGED read64Mode
        ELSE \E g \in {ReadFile(f, c, fh.file, pos, len - Len(pre), FALSE)} :
               DeliverRest(len, pre, g)

\* A small one takes what the read-ahead has, then the block cache, and leaves the
\* rest to the general path.
ReadSmall(f, len) ==
  /\ Active /\ DirectSize(fh.file) # 0 /\ len < 2 * SectorSize
  /\ \E w \in {IF AsksPrefetch /\ len > 0 THEN Waited(f) ELSE [pf |-> pf, cache |-> cache]} :
     \E pre \in {IF AsksPrefetch /\ len > 0 THEN PrefetchRead(w, len) ELSE <<>>} :
       /\ pf' = w.pf
       /\ req' = IF w.pf.state = pf.state THEN req ELSE NoRequest
       /\ IF pre # <<>> /\ (Len(pre) = len \/ fh.pos + Len(pre) >= DirectSize(fh.file))
          THEN Deliver(len, pre, "ok") /\ cache' = w.cache /\ UNCHANGED read64Mode
          ELSE ReadPastPrefetch(f, len, w.cache, pre)

\* A file beyond the limit has the general path alone.
ReadBeyond(f, len, direct) ==
  /\ Active /\ DirectSize(fh.file) = 0
  /\ \E g \in {ReadFile(f, cache, fh.file, fh.pos, len, direct)} : DeliverRest(len, <<>>, g)
  /\ UNCHANGED <<pf, req>>

Read(f, len) ==
  \/ ReadSmall(f, len)
  \/ \E direct \in BOOLEAN : ReadLarge(f, len, direct) \/ ReadBeyond(f, len, direct)

\* action_seek() to a position in the file, followed by the read-ahead.
Seek(newpos, open) ==
  /\ Active /\ newpos <= fh.file.size
  /\ fh' = [fh EXCEPT !.pos = newpos]
  /\ PrefetchStart(fh.file, newpos, fh.last, newpos = fh.pos, open)
  /\ UNCHANGED <<medium, mount, scsiReads, read64Mode, cache, wrong>>

\* The device completes the read-ahead.
PrefetchCompletes(f) ==
  /\ req.state = "sent"
  /\ LET a == PrefetchAnswer(f)
     IN  req' = [req EXCEPT !.state = IF a.err = "ok" THEN "done" ELSE "failed",
                            !.data = a.data]
  /\ UNCHANGED <<medium, mount, scsiReads, read64Mode, cache, pf, fh, wrong>>

\* The user changes the disc.
ChangeDisc(d) ==
  /\ Serving /\ ~changed /\ d # disc /\ mount.number < MaxMounts
  /\ disc' = d /\ changed' = TRUE
  /\ UNCHANGED <<aros, drive, mount, scsiReads, read64Mode, cache, pf, req, fh, wrong>>

\* The handler notices: unmount_volume() cancels the read-ahead and frees the
\* cache, mount_volume() probes the drive again and starts an empty one.
Remount(f) ==
  /\ Serving /\ changed
  /\ PrefetchCancel
  /\ cache' = <<>>
  /\ scsiReads' = ProbeScsiReads(f)
  /\ mount' = [disc |-> disc, number |-> mount.number + 1]
  /\ changed' = FALSE
  /\ UNCHANGED <<aros, drive, disc, read64Mode, fh, wrong>>

\* The handler ends; pf_req and the buffer are freed.
Shutdown ==
  /\ Serving /\ fh = Null
  /\ PrefetchCancel
  /\ cache' = <<>> /\ mount' = [mount EXCEPT !.number = 0]
  /\ UNCHANGED <<medium, scsiReads, read64Mode, fh, wrong>>

Init ==
  /\ aros \in BOOLEAN /\ drive \in Drives
  /\ disc \in Discs /\ changed = FALSE /\ mount = [disc |-> disc, number |-> 1]
  /\ \E f \in Faults : scsiReads = ProbeScsiReads(f)
  /\ read64Mode = "unprobed" /\ cache = <<>>
  /\ pf = NoPrefetch /\ req = NoRequest /\ fh = Null /\ wrong = {}

Packet ==
  \/ \E file \in Files : Open(file)
  \/ Close
  \/ \E f \in Faults, len \in Lengths : Read(f, len)
  \/ \E newpos \in Offsets, open \in BOOLEAN : Seek(newpos, open)
Device == \E f \in Faults : PrefetchCompletes(f)
User == \E d \in Discs : ChangeDisc(d)
Next == Packet \/ Device \/ User \/ (\E f \in Faults : Remount(f)) \/ Shutdown

Spec == Init /\ [][Next]_vars

-----------------------------------------------------------------------------
(* Properties.                                                             *)

\* Whatever mix of read-ahead, cached sectors, direct and bounced transfers
\* serves it, Read delivers the bytes the file has at the handle's position on the
\* mounted disc, all of them unless it fails, and moves the position by just
\* their number: after a failed request, after another disc was mounted, beyond
\* the byte offsets CMD_READ can express and on drives that count other blocks.
ReadExact == wrong = {}

\* What ReadExact is proved for: READ(10) is the last resort of amiga_read_hi(), which
\* does not compare what it reads with CMD_READ as probe_scsi_reads() does, so a
\* drive that counts in more than sectors has a 64-bit command.
SectorsOrRead64 ==
  \A d \in Drives : \/ d.block <= SectorSize \/ d.scsi = "none"
                    \/ \E m \in {"td64", "nsd"} : m \in d.read64

\* The read-ahead request is with the device exactly while pf_state says so, it
\* stays inside its buffer and the addressable sectors, and none is in flight when
\* the handler has ended and freed them.
RequestOwned ==
  /\ (req.state # "idle") = (pf.state = "busy")
  /\ ~Serving => req.state = "idle"
  /\ req.state # "idle" => /\ req.lba = pf.lba /\ req.n = pf.count
                           /\ req.n \in 1..PfSectors /\ req.lba + req.n <= Limit

\* A sector of the block cache is the mounted disc's sector of that number as
\* long as no change is pending, wherever it came from.
CacheHoldsDisc ==
  ~changed /\ Serving =>
    \A k \in DOMAIN cache : cache[k].data = [disc |-> mount.disc, at |-> cache[k].lba]
=============================================================================
