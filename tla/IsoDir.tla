------------------------------ MODULE IsoDir ------------------------------
(***************************************************************************)
(* The ISO 9660 backend (backends/iso9660/iso9660.c), which also serves    *)
(* High Sierra, Joliet and Rock Ridge discs: the walk over the records of  *)
(* a directory, the files of several extents, soft links, and the way up   *)
(* through the ".." records.                                               *)
(*                                                                         *)
(* A disc d gives its volume descriptors, d.vds, with the root directory   *)
(* each of them names, says whether the Joliet tree is mounted, and gives  *)
(* the sectors that hold directories, d.dirs: every sector is a sequence   *)
(* of SectorSlots slots, a slot a record or padding.  An offset in a       *)
(* directory is counted in slots.  A record says what it is of: its        *)
(* identifier (a name and a version), its extent, its flags, its System    *)
(* Use Area, and, for the properties, the object it stands for.  `bad` is  *)
(* the sector that cannot be read, 0 for none.                             *)
(***************************************************************************)
EXTENDS RockRidge

CONSTANTS
  MaxVds,        \* volume descriptors looked at (34)
  SectorSlots,   \* records a directory sector holds
  SectorBytes    \* bytes of a sector (2048)

ASSUME IsoDirAssumption ==
  MaxVds \in Nat \ {0} /\ SectorSlots \in Nat \ {0} /\ SectorBytes \in Nat \ {0}

Pad == [t |-> "pad"]
Dot == <<<<".">>, 0>>
DotDot == <<<<"..">>, 0>>

\* joliet_find_svd: the first Joliet descriptor before the terminator.
JolietFindSvd(d) ==
  LET ends == {i \in DOMAIN d.vds : d.vds[i].t = "term" \/ i > MaxVds} \cup {Len(d.vds) + 1}
      svds == {i \in DOMAIN d.vds : d.vds[i].t = "joliet" /\ i < Min(ends)}
  IN  IF svds = {} THEN 0 ELSE Min(svds)
IsoVd(d) == d.vds[IF d.joliet THEN JolietFindSvd(d) ELSE 1]

\* odfs_iso_mount_vd: where the root is, and what is added to every other
\* extent.
IsoRootLba(d) == IF IsoVd(d).root < d.session THEN IsoVd(d).root + d.session ELSE IsoVd(d).root
IsoBase(d) ==
  IF d.session > 0 /\ IsoRootLba(d) >= d.session THEN 0 ELSE d.session
IsoRoot(d) == [id |-> d.root, key |-> IsoRootLba(d), size |-> IsoVd(d).size,
               name |-> <<"/">>, kind |-> "dir"]

\* Sectors without a record are data: what is read there is no record either.
Slot(d, lba, off) ==
  LET l == lba + off \div SectorSlots
  IN  IF l \in DOMAIN d.dirs THEN d.dirs[l][(off % SectorSlots) + 1] ELSE Pad
IsoHasRr(d) == ~d.joliet /\ RrDetect(Slot(d, IsoRootLba(d), 0).sua)
NextSector(off) == (off \div SectorSlots + 1) * SectorSlots
Unreadable(lba, off, bad) == lba + off \div SectorSlots = bad

Continues(first, rec) == rec.ident = first.ident

\* odfs_iso_merge_multi_extent: the records that continue `first` from the slot
\* behind it.  A part that does not follow on the disc ends the data, not the
\* walk; a record of another file ends the walk.
Merged(d, loc, first, from, bad) ==
  LET States == [off : Nat, len : Nat, contig : BOOLEAN, more : BOOLEAN]
      merge[s \in States] ==
        LET rec == Slot(d, loc.key, s.off)
            follows == /\ s.contig /\ s.len % SectorBytes = 0
                       /\ rec.lba + IsoBase(d) = first.lba + IsoBase(d) + s.len \div SectorBytes
        IN  IF ~s.more \/ s.off >= loc.size THEN [next |-> s.off, len |-> s.len, err |-> "ok"]
            ELSE IF Unreadable(loc.key, s.off, bad) THEN [next |-> s.off, len |-> s.len, err |-> "io"]
            ELSE IF rec.t = "pad" THEN merge[[s EXCEPT !.off = NextSector(s.off)]]
            ELSE IF rec.t = "bad" \/ ~Continues(first, rec)
                   THEN [next |-> s.off, len |-> s.len, err |-> "ok"]
            ELSE merge[[off |-> s.off + 1, more |-> rec.more, contig |-> follows,
                        len |-> IF follows THEN s.len + rec.len ELSE s.len]]
  IN  merge[[off |-> from, len |-> first.len, contig |-> TRUE, more |-> first.more]]

\* iso_parse_dir_record and iso_apply_rr: the display name has no version; the
\* Rock Ridge name, kind and child link take the place of the record's own.
IsoInfo(d, rec, bad) == IF IsoHasRr(d) THEN RrParse(d, rec.sua, bad) ELSE NoInfo
IsoName(rec, rr) == IF rr.named /\ rr.name # <<>> THEN rr.name ELSE rec.ident[1]
IsoKind(rec, rr) == IF rr.mode # "none" THEN rr.mode ELSE IF rec.dir THEN "dir" ELSE "file"
IsoEntry(d, rec, rr, off, part) ==
  [id |-> rec.id, name |-> IsoName(rec, rr), kind |-> IsoKind(rec, rr),
   key |-> (IF rr.cl # 0 THEN rr.cl ELSE rec.lba) + IsoBase(d),
   size |-> part.len, start |-> off, next |-> part.next]
IsoHidden(rec, rr) == rr.re \/ IsoName(rec, rr) \in {Dot[1], DotDot[1]}

\* odfs_iso_readdir, up to the names.
IsoExtent(d, loc, rec, off, bad) ==
  IF ~rec.dir /\ rec.more THEN Merged(d, loc, rec, off + 1, bad)
  ELSE [next |-> off + 1, len |-> rec.len, err |-> "ok"]
IsoWalk(d, loc, bad) ==
  LET scan[off \in Nat] ==
        LET Add(rec, rr, part) ==
              IF part.err # "ok" THEN [items |-> <<>>, err |-> part.err]
              ELSE IF IsoHidden(rec, rr) THEN scan[part.next]
              ELSE [scan[part.next] EXCEPT !.items = <<IsoEntry(d, rec, rr, off, part)>> \o @]
            Visit(rec) ==
              IF rec.t # "rec" THEN scan[NextSector(off)]
              ELSE Add(rec, IsoInfo(d, rec, bad), IsoExtent(d, loc, rec, off, bad))
        IN  IF off >= loc.size THEN [items |-> <<>>, err |-> "ok"]
            ELSE IF Unreadable(loc.key, off, bad) THEN [items |-> <<>>, err |-> "io"]
            ELSE Visit(Slot(d, loc.key, off))
  IN  Named(scan[0])

\* The callback takes n entries and stops the walk at the last of them.
IsoReaddir(d, dir, cookie, n, bad) ==
  LET Take(todo, err) ==
        IF Len(todo) >= n
        THEN [out |-> SubSeq(todo, 1, n), cookie |-> todo[n].next, err |-> "stop"]
        ELSE [out |-> todo, err |-> err, cookie |-> IF err = "ok" THEN dir.size ELSE cookie]
      Resume(walk) == Take(SelectSeq(walk.items, LAMBDA e : e.start >= cookie), walk.err)
  IN  Resume(IsoWalk(d, [key |-> dir.key, size |-> dir.size], bad))

IsoLookup(d, dir, name, bad) ==
  FirstNamed(IsoWalk(d, [key |-> dir.key, size |-> dir.size], bad), name)

\* iso_readlink: the record of that name, before any suffix, and its target.
IsoReadlink(d, dir, name, bad) ==
  LET Failed(err) == [err |-> err, target |-> <<>>]
      scan[off \in Nat] ==
        LET Match(rec, rr) ==
              IF rr.re \/ Folded(IsoName(rec, rr)) # Folded(name) THEN scan[off + 1]
              ELSE IF rr.target = <<>> THEN Failed("unsupported")
              ELSE [err |-> "ok", target |-> rr.target]
            Visit(rec) == IF rec.t # "rec" THEN scan[NextSector(off)]
                          ELSE Match(rec, IsoInfo(d, rec, bad))
        IN  IF off >= dir.size THEN Failed("notfound")
            ELSE IF Unreadable(dir.key, off, bad) THEN Failed("io")
            ELSE Visit(Slot(d, dir.key, off))
  IN  IF IsoHasRr(d) THEN scan[0] ELSE Failed("unsupported")

\* odfs_iso_read_parent_extent: the record behind ".".
IsoUp(d, loc, bad) ==
  LET rec == Slot(d, loc.key, 1)
      none == [err |-> "badformat", loc |-> [key |-> 0, size |-> 0]]
  IN  IF loc.key = bad THEN [none EXCEPT !.err = "io"]
      ELSE IF Slot(d, loc.key, 0).t # "rec" \/ rec.t # "rec" THEN none
      ELSE IF rec.ident # DotDot THEN none
      ELSE [err |-> "ok", loc |-> [key |-> rec.lba + IsoBase(d), size |-> rec.len]]

IsoResolveParent(d, dir, bad) ==
  LET Locs == [key : Nat, size : Nat]
      none == [err |-> "notfound", parent |-> <<>>, grand |-> <<>>]
      From(p) ==
        IF p.err # "ok" THEN [none EXCEPT !.err = p.err]
        ELSE IF p.loc.key = dir.key \/ dir.key = IsoRootLba(d) THEN none
        ELSE Ancestors(IsoRoot(d), p.loc, [l \in Locs |-> IsoUp(d, l, bad)],
                       [l \in Locs |-> IsoWalk(d, l, bad)])
  IN  From(IsoUp(d, [key |-> dir.key, size |-> dir.size], bad))

\* The bytes from an offset into an extent, each named by its sector and its
\* place there; the read ends at the bad sector.  Which sectors before it are
\* lost with the request they share is in ReadBytes (core/cache_block.c).
DeviceBytes(lba, off, n, bad) ==
  LET all == [i \in 1..n |-> <<lba + (off + i - 1) \div SectorBytes, (off + i - 1) % SectorBytes>>]
      upto == {i \in 1..n : all[i][1] = bad}
  IN  IF upto = {} THEN [err |-> "ok", bytes |-> all]
      ELSE [err |-> "io", bytes |-> SubSeq(all, 1, Min(upto) - 1)]

\* odfs_iso_read
IsoRead(d, file, off, n, bad) ==
  IF off >= file.size THEN [err |-> "ok", bytes |-> <<>>]
  ELSE DeviceBytes(file.key, off, Least(n, file.size - off), bad)
=============================================================================
