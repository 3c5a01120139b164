----------------------------- MODULE HfsCatalog -----------------------------
(***************************************************************************)
(* The HFS and HFS+ backends (backends/hfs/hfs.c, hfsplus/hfsplus.c): the  *)
(* catalogue is a B-tree sorted by directory, in which a directory is its  *)
(* number (CNID), its entries the records under that number, and its       *)
(* parent what its thread record says.                                     *)
(*                                                                         *)
(* A disc d gives the place of the volume and the size of its allocation   *)
(* blocks, the extents of the catalogue file, counted in these, and the    *)
(* nodes by their sector; a node fills one.  A node is an index node, with *)
(* keys and children, a leaf with records, or anything else; `sane` says   *)
(* that its record count is possible.  A record has the directory it is    *)
(* under, its type, and a defect: its key or its data is too short.        *)
(* Malformed index records are not modelled.  `bad` is the place on the    *)
(* disc that cannot be read, 0 for none.                                   *)
(***************************************************************************)
EXTENDS IsoDir

CONSTANTS
  BlockBytes,   \* bytes of the blocks in which HFS counts its own place (512)
  Dotted,       \* stems of four characters or more that begin with a dot
  MaxDepth      \* levels the descent follows (20)

ASSUME HfsCatalogAssumption ==
  Dotted \subseteq Stems /\ MaxDepth \in Nat \ {0} /\ BlockBytes \in Nat \ {0}

RootCnid == 2
HfsRoot == [id |-> RootCnid, key |-> RootCnid, size |-> 0, name |-> <<"/">>, kind |-> "dir"]

\* hfs_ab_to_byte, hfsp_block_to_byte: the first byte of an allocation block.
HfsAbToByte(d, ab) == (ab * (d.abSize \div BlockBytes) + d.abStart + d.volStart) * BlockBytes
HfspBlockToByte(d, block) == d.volOffset + block * d.abSize

\* The extent that has node n of the catalogue file and the node's place in it,
\* empty when none has.
Place(extents, n, size) ==
  LET offset == n * SectorBytes
      Before(i) == FoldLeft(LAMBDA sum, e : sum + e.count * size, 0, SubSeq(extents, 1, i - 1))
      hit == {i \in DOMAIN extents : offset < Before(i + 1)}
  IN  IF hit = {} THEN <<>>
      ELSE <<[start |-> extents[Min(hit)].start, offset |-> offset - Before(Min(hit))]>>

ReadAt(d, byte, bad) ==
  LET lba == byte \div SectorBytes
  IN  IF lba = bad THEN [err |-> "io"]
      ELSE IF lba \in DOMAIN d.nodes THEN [err |-> "ok", node |-> d.nodes[lba]]
      ELSE [err |-> "ok", node |-> [type |-> "other"]]

\* hfs_read_node and hfsp_read_fork: the extents the volume header has room for.
HfsReadNode(d, n, bad) ==
  LET At(place) == IF place = <<>> THEN [err |-> "range"]
                   ELSE ReadAt(d, HfsAbToByte(d, place[1].start) + place[1].offset, bad)
  IN  At(Place(SubSeq(d.cat, 1, Least(3, Len(d.cat))), n, d.abSize))
HfspReadNode(d, n, bad) ==
  LET used == SubSeq(d.cat, 1, Least(8, Len(d.cat)))
      empty == {i \in DOMAIN used : used[i].count = 0}
      At(place) == IF place = <<>> THEN [err |-> "io"]
                   ELSE ReadAt(d, HfspBlockToByte(d, place[1].start) + place[1].offset, bad)
  IN  At(Place(IF empty = {} THEN used ELSE SubSeq(used, 1, Min(empty) - 1), n, d.abSize))

\* Faulty: the last child whose key is not behind the directory.
ChildForAtKey(recs, cnid) ==
  LET upto == {i \in DOMAIN recs : recs[i].key <= cnid}
  IN  IF recs = <<>> THEN 0 ELSE IF upto = {} THEN recs[1].ptr ELSE recs[Max(upto)].ptr

\* The child in which the records of a directory begin: the one before the
\* first key that is not smaller, for they can begin before the key that names
\* them.
ChildFor(recs, cnid) ==
  LET notBelow == {i \in DOMAIN recs : recs[i].key >= cnid}
  IN  IF recs = <<>> THEN 0
      ELSE IF notBelow = {} THEN Last(recs).ptr
      ELSE IF Min(notBelow) = 1 THEN recs[1].ptr
      ELSE recs[Min(notBelow) - 1].ptr

\* From the root of the tree to the leaf to begin with.
Descend(read, root, cnid) ==
  LET down[s \in [n : Nat, depth : Nat]] ==
        LET r == read[s.n]
            child == ChildFor(r.node.recs, cnid)
        IN  IF s.depth = MaxDepth THEN [err |-> "ok", n |-> s.n]
            ELSE IF r.err # "ok" THEN [err |-> r.err, n |-> 0]
            ELSE IF r.node.type = "leaf" THEN [err |-> "ok", n |-> s.n]
            ELSE IF r.node.type # "index" THEN [err |-> "corrupt", n |-> 0]
            ELSE IF ~r.node.sane THEN [err |-> "corrupt", n |-> 0]
            ELSE IF child = 0 THEN [err |-> "notfound", n |-> 0]
            ELSE down[[n |-> child, depth |-> s.depth + 1]]
  IN  down[[n |-> root, depth |-> 0]]

\* The records of a leaf the callback sees, and whether the leaf has any record
\* of the directory or reaches past it.
LeafRecords(recs, cnid) ==
  LET keyed == SelectSeq(recs, LAMBDA r : r.defect # "key")
      past == {i \in DOMAIN keyed : keyed[i].key > cnid}
      upto == IF past = {} THEN keyed ELSE SubSeq(keyed, 1, Min(past) - 1)
      here == SelectSeq(upto, LAMBDA r : r.key = cnid)
  IN  [out |-> SelectSeq(here, LAMBDA r : r.defect # "data"),
       found |-> here # <<>>, past |-> past # {}]

\* The leaves from one to the next.  Once a record of the directory was found,
\* a leaf that does not begin with another one ends the walk.  A walk that
\* reads more leaves than there are does not end at all: "endless".
LeafScan(read, first, cnid, limit) ==
  LET Ends(out, err) == [items |-> out, err |-> err]
      scan[s \in [n : Nat, found : BOOLEAN, left : Nat]] ==
        LET Rest(leaf, next) ==
              [scan[[n |-> next, found |-> s.found \/ leaf.found, left |-> s.left - 1]]
                 EXCEPT !.items = leaf.out \o @]
            GoOn(leaf, next, peek) ==
              IF peek.err # "ok" THEN Ends(leaf.out, peek.err)
              ELSE IF peek.node.type # "leaf" THEN Ends(leaf.out, "ok")
              ELSE IF peek.node.recs # <<>> /\ Head(peek.node.recs).key # cnid
                     THEN Ends(leaf.out, "ok")
              ELSE Rest(leaf, next)
            Leaf(leaf, next) ==
              IF leaf.past THEN Ends(leaf.out, "ok")
              ELSE IF ~(s.found \/ leaf.found) \/ next = 0 THEN Rest(leaf, next)
              ELSE GoOn(leaf, next, read[next])
            Visit(r) ==
              IF r.err # "ok" THEN Ends(<<>>, r.err)
              ELSE IF r.node.type # "leaf" THEN Ends(<<>>, "ok")
              ELSE IF ~r.node.sane THEN Ends(<<>>, "corrupt")
              ELSE Leaf(LeafRecords(r.node.recs, cnid), r.node.next)
        IN  IF s.n = 0 THEN Ends(<<>>, "ok")
            ELSE IF s.left = 0 THEN Ends(<<>>, "endless")
            ELSE Visit(read[s.n])
  IN  scan[[n |-> first, found |-> FALSE, left |-> limit]]

WalkCatalog(read, root, cnid, limit) ==
  LET From(first) == IF first.err # "ok" THEN [items |-> <<>>, err |-> first.err]
                     ELSE LeafScan(read, first.n, cnid, limit)
  IN  From(Descend(read, root, cnid))

HfsWalkCatalog(d, cnid, bad) ==
  WalkCatalog([n \in Nat |-> HfsReadNode(d, n, bad)], d.rootNode, cnid,
              2 * Cardinality(DOMAIN d.nodes))
HfspWalkCatalog(d, cnid, bad) ==
  WalkCatalog([n \in Nat |-> HfspReadNode(d, n, bad)], d.rootNode, cnid,
              2 * Cardinality(DOMAIN d.nodes))

\* hfs_readdir_cb: threads are no entries.  A file has the allocation block its
\* first extent begins with, a directory its number.
Entry(rec) == [id |-> rec.id, name |-> rec.name, kind |-> rec.type, key |-> rec.lba,
               size |-> rec.size, short |-> rec.defect = "short"]
Entries(recs) == [i \in DOMAIN recs |-> Entry(recs[i])]
HfsEntries(d, cnid, bad) ==
  Named([HfsWalkCatalog(d, cnid, bad) EXCEPT
           !.items = Entries(SelectSeq(@, LAMBDA r : r.type \in {"dir", "file"}))])

\* hfsp_readdir_record_cb: nor are the private directories, which have no name
\* that can be shown, nor names that begin with a dot.
HfspVisible(r) ==
  r.type \in {"dir", "file"} /\ r.name # <<"">> /\ Head(r.name) \notin Dotted
HfspEntries(d, cnid, bad) ==
  Named([HfspWalkCatalog(d, cnid, bad) EXCEPT !.items = Entries(SelectSeq(@, HfspVisible))])

\* hfs_readdir: the cookie is a number of entries.  It moves even when the walk
\* fails, though not when a name does.
HfsReaddir(d, dir, cookie, n, bad) ==
  LET Resume(walk) ==
        LET todo == SubSeq(walk.items, cookie + 1, Len(walk.items))
        IN  IF Len(todo) >= n
            THEN [out |-> SubSeq(todo, 1, n), cookie |-> cookie + n, err |-> "stop"]
            ELSE [out |-> todo, err |-> walk.err,
                  cookie |-> IF walk.err = "overflow" THEN cookie ELSE Len(walk.items)]
  IN  Resume(HfsEntries(d, dir.key, bad))

\* hfsp_readdir: a record too short to be an entry is counted while entries are
\* skipped, and is not counted, nor delivered, afterwards.
HfspReaddir(d, dir, cookie, n, bad) ==
  LET Resume(walk) ==
        LET behind == SubSeq(walk.items, cookie + 1, Len(walk.items))
            todo == SelectSeq(behind, LAMBDA e : ~e.short)
        IN  IF Len(todo) >= n
            THEN [out |-> SubSeq(todo, 1, n), cookie |-> cookie + n, err |-> "stop"]
            ELSE [out |-> todo, err |-> walk.err,
                  cookie |-> IF walk.err = "overflow" THEN cookie
                             ELSE Least(cookie, Len(walk.items)) + Len(todo)]
  IN  Resume(HfspEntries(d, dir.key, bad))

HfsLookup(d, dir, name, bad) == FirstNamed(HfsEntries(d, dir.key, bad), name)
HfspShown(d, cnid, bad) ==
  [HfspEntries(d, cnid, bad) EXCEPT !.items = SelectSeq(@, LAMBDA e : ~e.short)]
HfspLookup(d, dir, name, bad) == FirstNamed(HfspShown(d, dir.key, bad), name)

\* hfs_read_thread: the first thread record under the directory's own number.
ThreadIn(walk) ==
  LET threads == SelectSeq(walk.items, LAMBDA r : r.type = "dthread")
  IN  IF threads # <<>> THEN [err |-> "ok", loc |-> [key |-> Head(threads).lba, size |-> 0]]
      ELSE [err |-> IF walk.err = "ok" THEN "notfound" ELSE walk.err, loc |-> [key |-> 0, size |-> 0]]
HfsReadThread(d, cnid, bad) == ThreadIn(HfsWalkCatalog(d, cnid, bad))
HfspReadThread(d, cnid, bad) == ThreadIn(HfspWalkCatalog(d, cnid, bad))

\* hfs_resolve_parent, hfsp_resolve_parent
FromThread(dir, up, within) ==
  LET p == up[[key |-> dir.key, size |-> 0]]
      none == [err |-> "notfound", parent |-> <<>>, grand |-> <<>>]
  IN  IF dir.key = RootCnid THEN none
      ELSE IF p.err # "ok" THEN [none EXCEPT !.err = p.err]
      ELSE Ancestors(HfsRoot, p.loc, up, within)
HfsResolveParent(d, dir, bad) ==
  LET Locs == [key : Nat, size : Nat]
  IN  FromThread(dir, [l \in Locs |-> HfsReadThread(d, l.key, bad)],
                 [l \in Locs |-> HfsEntries(d, l.key, bad)])
HfspResolveParent(d, dir, bad) ==
  LET Locs == [key : Nat, size : Nat]
  IN  FromThread(dir, [l \in Locs |-> HfspReadThread(d, l.key, bad)],
                 [l \in Locs |-> HfspShown(d, l.key, bad)])

\* hfs_read, hfsp_read: the whole file is read behind its first extent.
HfsRead(d, file, off, n, bad) ==
  IF off >= file.size THEN [err |-> "ok", bytes |-> <<>>]
  ELSE DeviceBytes(0, HfsAbToByte(d, file.key) + off, Least(n, file.size - off), bad)
HfspRead(d, file, off, n, bad) ==
  IF off >= file.size THEN [err |-> "ok", bytes |-> <<>>]
  ELSE DeviceBytes(0, HfspBlockToByte(d, file.key) + off, Least(n, file.size - off), bad)
=============================================================================
