------------------------------- MODULE UdfDir -------------------------------
(***************************************************************************)
(* The UDF backend (backends/udf/udf.c): objects described by file entries *)
(* (ICBs), data in extents listed by chains of allocation descriptors,     *)
(* directories that are lists of file identifiers (FIDs), soft links of    *)
(* path components.                                                        *)
(*                                                                         *)
(* A disc d gives the ICBs and the blocks of further allocation            *)
(* descriptors by their place on the disc, and what a FID or a soft link   *)
(* says by the byte it begins with; what the disc itself refers to is      *)
(* relative to the partition.  `bad` is the block that cannot be read, 0   *)
(* for none.                                                               *)
(***************************************************************************)
EXTENDS IsoDir

CONSTANTS
  MaxAeds,      \* blocks of allocation descriptors followed (4096)
  FidBytes,     \* bytes of a FID before its name (38)
  LinkBytes     \* bytes of a soft link that can be read, and of a path (512)

ASSUME UdfDirAssumption ==
  MaxAeds \in Nat \ {0} /\ FidBytes \in Nat \ {0} /\ LinkBytes \in Nat \ {0}

PhysLba(d, lba) == d.part + lba
UdfRoot(d) == [id |-> d.root, key |-> PhysLba(d, d.rootIcb), size |-> d.rootSize,
               name |-> <<"/">>, kind |-> "dir"]

\* udf_read_icb_ex: a file entry that lists no extent though its data are not
\* embedded is refused.
ReadIcb(d, lba, bad) ==
  IF lba = bad THEN "io"
  ELSE IF lba \notin DOMAIN d.icbs THEN "badformat"
  ELSE IF d.icbs[lba].alloc = "extents" /\ d.icbs[lba].ads = <<>> THEN "corrupt"
  ELSE "ok"

\* udf_read_object: the descriptors of an object's data, from the ones in its
\* file entry on into the blocks they continue in.  A descriptor of length 0
\* ends the list; a chain that cannot be followed ends it with the error.
Descriptors(d, icb, bad) ==
  LET chain[s \in [aed : Nat, left : Nat]] ==
        LET lba == PhysLba(d, s.aed)
            run == IF s.aed = 0 THEN d.icbs[icb].ads ELSE d.aeds[lba]
            ends == {i \in DOMAIN run : run[i].t = "continued" \/ run[i].len = 0}
            stop == Min(ends)
            Fail(err) == <<[t |-> err, len |-> 0, lba |-> 0]>>
        IN  IF s.aed # 0 /\ s.left = 0 THEN Fail("corrupt")
            ELSE IF s.aed # 0 /\ lba = bad THEN Fail("io")
            ELSE IF s.aed # 0 /\ lba \notin DOMAIN d.aeds THEN Fail("corrupt")
            ELSE IF ends = {} THEN run
            ELSE IF run[stop].t # "continued" THEN SubSeq(run, 1, stop - 1)
            ELSE SubSeq(run, 1, stop - 1)
                   \o chain[[aed |-> run[stop].lba,
                             left |-> IF s.aed = 0 THEN s.left ELSE s.left - 1]]
  IN  chain[[aed |-> 0, left |-> MaxAeds]]

\* Faulty: the position in the file does not move over an extent that was
\* never recorded.
TakeUnmoved(d, s, ad, bad) ==
  LET end == s.pos + ad.len
      at == s.from + Len(s.out)
      chunk == Least(end - at, s.want - Len(s.out))
      got == DeviceBytes(PhysLba(d, ad.lba), at - s.pos, chunk, bad)
  IN  IF s.err # "ok" \/ Len(s.out) >= s.want THEN s
      ELSE IF ad.t \notin {"recorded", "unrecorded"} THEN [s EXCEPT !.err = ad.t, !.out = <<>>]
      ELSE IF ad.t = "unrecorded" THEN s
      ELSE IF at >= end THEN [s EXCEPT !.pos = end]
      ELSE IF got.err # "ok" THEN [s EXCEPT !.err = got.err]
      ELSE [s EXCEPT !.pos = end, !.out = @ \o got.bytes]

\* One extent: what it holds of the bytes wanted.  An extent that was never
\* recorded reads as zeros; one that cannot be read adds nothing, and a chain
\* that breaks leaves the length at 0.
Take(d, s, ad, bad) ==
  LET end == s.pos + ad.len
      at == s.from + Len(s.out)
      chunk == Least(end - at, s.want - Len(s.out))
      Add(got) == IF got.err # "ok" THEN [s EXCEPT !.err = got.err]
                  ELSE [s EXCEPT !.pos = end, !.out = @ \o got.bytes]
  IN  IF s.err # "ok" \/ Len(s.out) >= s.want THEN s
      ELSE IF ad.t \notin {"recorded", "unrecorded"} THEN [s EXCEPT !.err = ad.t, !.out = <<>>]
      ELSE IF at >= end THEN [s EXCEPT !.pos = end]
      ELSE Add(IF ad.t = "recorded" THEN DeviceBytes(PhysLba(d, ad.lba), at - s.pos, chunk, bad)
               ELSE [err |-> "ok", bytes |-> [i \in 1..chunk |-> <<0, 0>>]])

\* Embedded data lie in the block of the file entry itself.
UdfReadObject(d, icb, from, n, bad) ==
  LET fe == d.icbs[icb]
      s0 == [pos |-> 0, from |-> from, want |-> Least(n, fe.size - from), out |-> <<>>, err |-> "ok"]
      Read(s) == [err |-> s.err, bytes |-> s.out]
  IN  IF icb = bad THEN [err |-> "io", bytes |-> <<>>]
      ELSE IF icb \notin DOMAIN d.icbs THEN [err |-> "badformat", bytes |-> <<>>]
      ELSE IF from >= fe.size \/ n = 0 THEN [err |-> "ok", bytes |-> <<>>]
      ELSE IF fe.alloc = "embedded"
             THEN [err |-> "ok", bytes |-> [i \in 1..s0.want |-> <<icb, from + i - 1>>]]
      ELSE Read(FoldLeft(LAMBDA s, ad : Take(d, s, ad, bad), s0, Descriptors(d, icb, bad)))
UdfRead(d, file, off, n, bad) == UdfReadObject(d, file.key, off, n, bad)

\* udf_read_exact: all the bytes, or an error.
UdfReadExact(d, icb, from, n, bad) ==
  LET All(r) == IF r.err = "ok" /\ Len(r.bytes) # n THEN [r EXCEPT !.err = "eof"] ELSE r
  IN  All(UdfReadObject(d, icb, from, n, bad))

\* udf_walk_fids: the FIDs of a directory are read like the bytes of a file, the
\* header first, and the whole FID when the callback wants its name.  What is not a
\* FID ends the directory, one that reaches behind its end is an error.
UdfFids(d, icb, whole, bad) ==
  LET size == d.icbs[icb].size
      Ends(err) == [items |-> <<>>, err |-> err]
      walk[off \in Nat] ==
        LET Rest(fid) == [walk[off + fid.len] EXCEPT
                            !.items = <<fid @@ [start |-> off, next |-> off + fid.len]>> \o @]
            Decode(fid, body) == IF body.err # "ok" THEN Ends(body.err) ELSE Rest(fid)
            Fid(fid) == IF fid.len > size - off THEN Ends("corrupt")
                        ELSE IF ~whole THEN Rest(fid)
                        ELSE Decode(fid, UdfReadExact(d, icb, off, fid.len, bad))
            At(head) == IF head.err # "ok" THEN Ends(head.err)
                        ELSE IF Head(head.bytes) \notin DOMAIN d.fids THEN Ends("ok")
                        ELSE Fid(d.fids[Head(head.bytes)])
        IN  IF size - off < FidBytes THEN Ends("ok")
            ELSE At(UdfReadExact(d, icb, off, FidBytes, bad))
      icbErr == ReadIcb(d, icb, bad)
  IN  IF icbErr # "ok" THEN Ends(icbErr) ELSE walk[0]

\* udf_walk_dir_entries and udf_fill_node_from_icb: all FIDs but the deleted
\* ones and the parent's are named; the ones whose ICB cannot be read are then
\* left out.
UdfEntries(d, icb, bad) ==
  LET Filled(f) == LET fe == d.icbs[PhysLba(d, f.icb)]
                   IN  [id |-> f.id, name |-> f.name, key |-> PhysLba(d, f.icb), size |-> fe.size,
                        kind |-> IF f.dir THEN "dir" ELSE IF fe.link THEN "link" ELSE "file",
                        start |-> f.start, next |-> f.next]
      All(live) == [i \in DOMAIN live |-> Filled(live[i])]
      Live(f) == ReadIcb(d, PhysLba(d, f.icb), bad) = "ok"
      Shown(f) == ~f.deleted /\ ~f.parent
  IN  [Named([UdfFids(d, icb, TRUE, bad) EXCEPT !.items = SelectSeq(@, Shown)]) EXCEPT
         !.items = All(SelectSeq(@, Live))]

\* udf_readdir
UdfReaddir(d, dir, cookie, n, bad) ==
  LET Stop(todo, err) ==
        IF Len(todo) >= n
        THEN [out |-> SubSeq(todo, 1, n), cookie |-> todo[n].next, err |-> "stop"]
        ELSE [out |-> todo, err |-> err,
              cookie |-> IF err = "ok" THEN d.icbs[dir.key].size ELSE cookie]
      Resume(walk) == Stop(SelectSeq(walk.items, LAMBDA e : e.start >= cookie), walk.err)
  IN  Resume(UdfEntries(d, dir.key, bad))

UdfLookup(d, dir, name, bad) == FirstNamed(UdfEntries(d, dir.key, bad), name)

\* udf_readlink: a path, one component after the other, unless the link holds the
\* path itself, which must leave room for its end.  Longer links are refused.
PathWith(acc, c) ==
  CASE c.t = "root" -> <<"/">>
    [] c.t = "up"   -> Append(acc, "..")
    [] c.t = "here" -> acc
    [] c.t = "name" -> Append(acc, c.n)
UdfReadlink(d, dir, name, bad) ==
  LET None(err) == [err |-> err, target |-> <<>>]
      To(path) == IF path = <<>> THEN None("unsupported") ELSE [err |-> "ok", target |-> path]
      Raw(path, len) == IF len >= LinkBytes THEN None("toolong") ELSE [err |-> "ok", target |-> path]
      Parse(link, len) == IF link.raw THEN Raw(link.path, len)
                          ELSE To(FoldLeft(PathWith, <<>>, link.components))
      Data(data) == IF data.err # "ok" THEN None(data.err)
                    ELSE Parse(d.links[Head(data.bytes)], Len(data.bytes))
      Of(node) == IF node.kind # "link" \/ node.size = 0 \/ node.size > LinkBytes
                    THEN None("unsupported")
                  ELSE Data(UdfRead(d, node, 0, node.size, bad))
      Found(f) == IF f.err # "ok" THEN None(f.err) ELSE Of(f.node[1])
  IN  Found(UdfLookup(d, dir, name, bad))

\* udf_read_parent_icb: the first parent FID that is not deleted.
UdfUp(d, icb, bad) ==
  LET First(parents, err) ==
        IF parents # <<>>
        THEN [err |-> "ok", loc |-> [key |-> PhysLba(d, Head(parents).icb), size |-> 0]]
        ELSE [err |-> IF err = "ok" THEN "unsupported" ELSE err, loc |-> [key |-> 0, size |-> 0]]
      In(walk) == First(SelectSeq(walk.items, LAMBDA f : ~f.deleted /\ f.parent), walk.err)
  IN  In(UdfFids(d, icb, FALSE, bad))

\* udf_resolve_parent
UdfResolveParent(d, dir, bad) ==
  LET Locs == [key : Nat, size : Nat]
      none == [err |-> "notfound", parent |-> <<>>, grand |-> <<>>]
      From(p) ==
        IF p.err # "ok" THEN [none EXCEPT !.err = p.err]
        ELSE IF p.loc.key = dir.key THEN none
        ELSE Ancestors(UdfRoot(d), p.loc, [l \in Locs |-> UdfUp(d, l.key, bad)],
                       [l \in Locs |-> UdfEntries(d, l.key, bad)])
  IN  IF dir.key = UdfRoot(d).key THEN none ELSE From(UdfUp(d, dir.key, bad))
=============================================================================
