----------------------------- MODULE MCBackends -----------------------------
(***************************************************************************)
(* Discs for Backends: one tree, written in every format and in several    *)
(* layouts.  The tree has names that collide by their case, with a suffix  *)
(* that is on the disc, and when they are cut; directories four levels     *)
(* deep; a file of several extents; a soft link.                           *)
(***************************************************************************)
EXTENDS Backends

MCStems == {"a", "A", "b", "l", "long1", "long2", "long", ".dots", "", "v", "x", "none",
            ".", "..", "Track", "cddb", "icon"}
MCLower == [s \in MCStems |-> IF s = "A" THEN "a" ELSE s]
MCCut == [s \in MCStems |-> IF s \in {"long1", "long2"} THEN "long" ELSE s]
MCAbsent == <<"none">>
MCRanges == {<<0, 9>>, <<1, 3>>, <<3, 2>>, <<4, 9>>, <<9, 1>>, <<0, 30>>, <<14, 9>>}

Data(lba, len) == [t |-> "recorded", lba |-> lba, len |-> len]
Hole(len) == [t |-> "unrecorded", lba |-> 0, len |-> len]
Go(lba) == [t |-> "continued", lba |-> lba, len |-> 1]
End == [t |-> "recorded", lba |-> 0, len |-> 0]

Obj(id, name, kind, ext) ==
  [id |-> id, name |-> name, kind |-> kind, hidden |-> FALSE, ext |-> ext, target |-> <<>>,
   bytes |-> FoldLeft(LAMBDA acc, e : acc \o [i \in 1..e.len |->
               IF e.t = "unrecorded" THEN <<0, 0>>
               ELSE <<e.lba + (i - 1) \div SectorBytes, (i - 1) % SectorBytes>>], <<>>, ext)]
Dir(id, name) == Obj(id, name, "dir", <<>>)
File(id, name, ext) == Obj(id, name, "file", ext)
Link(id, name, target, len) ==
  [Obj(id, name, "link", <<Data(10 * id, len)>>) EXCEPT !.target = target]
Hidden(o) == [o EXCEPT !.hidden = TRUE]

\* `first` is the data of the file "a"; `dots` and `links` are what only some
\* formats have.
Tree(first, dots, links) ==
  (2 :> <<File(31, <<"a">>, first), Dir(16, <<"A">>), File(32, <<"a", 2>>, <<Data(320, 2)>>)>>
        \o dots
        \o <<File(33, <<"long1">>, <<Data(330, 3)>>), File(34, <<"long1">>, <<Data(340, 1)>>),
             File(35, <<"long2">>, <<Data(350, 1)>>), File(36, <<"long2">>, <<Data(360, 1)>>)>>)
  @@ (16 :> <<Dir(17, <<"b">>), File(37, <<"x">>, <<Data(370, 1)>>)>>)
  @@ (17 :> links \o <<Dir(18, <<"x">>)>>)
  @@ (18 :> <<Dir(19, <<"v">>), File(38, <<"v">>, <<Data(380, 1)>>)>>)
  @@ (19 :> <<>>)
Links == <<File(39, <<"l">>, <<Data(390, 1)>>), Link(40, <<"b">>, <<"/", "a">>, 1),
           Link(41, <<"l">>, <<"..", "a">>, 1)>>
\* UDF has paths as they are, too, one of them without room for its end, and a
\* link that is too long.
RawLinks == {44, 45}
UdfLinks == Links \o <<Link(44, <<"a">>, <<"..", "b">>, 2), Link(45, <<"v">>, <<"/", "v">>, 3),
                       Link(46, <<"long">>, <<"a", "b">>, 4)>>
UpIn(tree, k) ==
  IF k = 2 THEN 2 ELSE CHOOSE p \in DOMAIN tree : \E o \in ToSet(tree[p]) : o.id = k
Chunks(seq, n) ==
  [i \in 1..((Len(seq) + n - 1) \div n) |-> SubSeq(seq, (i - 1) * n + 1, Least(i * n, Len(seq)))]

\* ISO 9660: `per` records to a sector, the rest of it padding.  The disc
\* counts its sectors from `base`.  With Rock Ridge the identifiers are of no
\* account, and all alike; a name is in one field, in pieces, or in a continuation
\* area at the end of a chain of them; the disc may have moved the directory 19
\* to the directory 20.
NM(part, more) == [sig |-> "NM", part |-> part, more |-> more, dot |-> FALSE]
PX(kind) == [sig |-> "PX", mode |-> kind]
SL(path) == [sig |-> "SL", path |-> path]
CE(lba) == [sig |-> "CE", lba |-> lba]
ST == [sig |-> "ST"]
Other == [sig |-> "TF"]
\* The areas of the object o begin at sector 1000 + 10 * id: the name in the
\* last of `depth` areas, or in the record when there is none.
NameFields(o) == [i \in DOMAIN o.name |-> NM(<<o.name[i]>>, i < Len(o.name))]
LinkFields(o) == [i \in DOMAIN o.target |-> SL(<<o.target[i]>>)]
Area(o, i) == 1000 + 10 * o.id + i
Sua(o, depth) ==
  <<Other>> \o (IF depth = 0 THEN NameFields(o) ELSE <<CE(Area(o, 1))>>)
    \o <<PX(o.kind)>> \o LinkFields(o) \o <<ST, PX("none")>>
AreaFields(o, depth, i) ==
  IF i < depth THEN <<Other, CE(Area(o, i + 1))>> ELSE NameFields(o) \o <<ST, NM(<<"none">>, FALSE)>>
IsoTree(rr, moved) ==
  Tree(<<Data(310, 2 * SectorBytes), Data(312, SectorBytes), Data(313, 1)>>,
       IF moved THEN <<Dir(20, <<"l">>)>> ELSE <<>>, IF rr THEN Links ELSE <<>>)
    @@ (IF moved THEN (20 :> <<>>) ELSE <<>>)
IsoDiscOf(tree, rr, depth, per, session, base, moved) ==
  LET Lba(k) == session + 10 * k - base
      Rec(ident, sua, lba, len, kind, more) ==
        [t |-> "rec", ident |-> ident, sua |-> IF rr THEN sua ELSE <<>>, lba |-> lba, len |-> len,
         dir |-> kind = "dir", more |-> more, id |-> 0]
      Ident(o) == <<IF rr THEN <<"v">> ELSE o.name, o.id>>
      Recs(o) ==
        IF o.kind = "dir"
          THEN <<[Rec(Ident(o),
                      IF moved /\ o.id = 19 THEN <<[sig |-> "CL", lba |-> Lba(19)]>> \o Sua(o, depth)
                      ELSE Sua(o, depth), Lba(o.id), 0, "dir", FALSE) EXCEPT !.id = o.id]>>
        ELSE [i \in DOMAIN o.ext |->
                [Rec(Ident(o), Sua(o, depth), o.ext[i].lba - base, o.ext[i].len, o.kind,
                     i < Len(o.ext)) EXCEPT !.id = o.id]]
      Body(k) == IF k = 20 THEN <<Rec(<<<<"x">>, 19>>, <<[sig |-> "RE"]>>, Lba(19), 0, "dir", FALSE)>>
                 ELSE FoldLeft(LAMBDA acc, o : acc \o Recs(o), <<>>, tree[k])
      ParentOf(k) == IF moved /\ k = 19 THEN 20 ELSE UpIn(tree, k)
      Size(k) == ((Len(Body(k)) + 2 + per - 1) \div per) * SectorSlots
      Sized(r) == IF r.dir THEN [r EXCEPT !.len = Size((r.lba + base - session) \div 10)] ELSE r
      dot == [NM(<<>>, FALSE) EXCEPT !.dot = TRUE]
      All(k) == <<Rec(Dot, <<[sig |-> "SP"], dot, PX("dir")>>, Lba(k), 0, "dir", FALSE),
                  Rec(DotDot, <<dot, PX("dir")>>, Lba(ParentOf(k)), 0, "dir", FALSE)>> \o Body(k)
      Sectors(k) == Chunks([i \in DOMAIN All(k) |-> Sized(All(k)[i])], per)
      Full(s) == [i \in 1..SectorSlots |-> IF i <= Len(s) THEN s[i] ELSE Pad]
      at == UNION {{<<k, i>> : i \in DOMAIN Sectors(k)} : k \in DOMAIN tree}
      At(p) == base + Lba(p[1]) + p[2] - 1
      lbas == {At(p) : p \in at}
      dirs == [l \in lbas |-> LET p == CHOOSE q \in at : At(q) = l
                              IN  Full(Sectors(p[1])[p[2]])]
      objs == UNION {ToSet(tree[k]) : k \in DOMAIN tree}
      areas == {<<o, i>> : o \in objs, i \in 1..depth}
      AreaAt(l) == CHOOSE a \in areas : Area(a[1], a[2]) = l
  IN  [fmt |-> "iso", damaged |-> FALSE, root |-> 2, tree |-> tree, session |-> session,
       joliet |-> FALSE, vds |-> <<[t |-> "pvd", root |-> Lba(2), size |-> Size(2)]>>, dirs |-> dirs,
       areas |-> [l \in {Area(a[1], a[2]) : a \in areas} |->
                    AreaFields(AreaAt(l)[1], depth, AreaAt(l)[2])],
       blocks |-> lbas \cup {312}]

IsoDisc(rr, depth, per, session, base, moved) ==
  IsoDiscOf(IsoTree(rr, moved), rr, depth, per, session, base, moved)

\* HFS and HFS+: the catalogue in leaves of `per` records, under index nodes of
\* two children each when there are many; node numbers begin with 1, and the
\* catalogue file has two extents.  Allocation blocks are of two sectors and begin
\* at the fifth sector of the disc.
AbSize == 2 * SectorBytes
VolumeSector == 4
AbOf(lba) == ((lba - VolumeSector) * SectorBytes) \div AbSize
HfsTree(fmt, first) ==
  Tree(first,
       IF fmt = "hfsplus" THEN <<Hidden(File(42, <<".dots">>, <<>>)), Hidden(File(43, <<"">>, <<>>))>>
       ELSE <<File(42, <<".dots">>, <<Data(420, 1)>>)>>, <<>>)
Catalogue(tree) ==
  LET Rec(key, type, name, id, lba, size) ==
        [key |-> key, type |-> type, name |-> name, id |-> id, lba |-> lba, size |-> size, defect |-> "none"]
      Of(k, o) == IF o.kind = "dir" THEN Rec(k, "dir", o.name, o.id, o.id, 0)
                  ELSE Rec(k, "file", o.name, o.id, IF o.ext = <<>> THEN 0 ELSE AbOf(o.ext[1].lba), Len(o.bytes))
      Under(k) == <<Rec(k, "dthread", <<"">>, k, IF k = 2 THEN 1 ELSE UpIn(tree, k), 0)>>
                    \o [i \in DOMAIN tree[k] |-> Of(k, tree[k][i])]
  IN  <<Rec(1, "dir", <<"v">>, 2, 2, 0)>>
        \o FoldLeft(LAMBDA acc, k : acc \o Under(k), <<>>, <<2, 16, 17, 18, 19>>)
IndexOf(leaves) == Chunks([i \in DOMAIN leaves |-> [key |-> leaves[i][1].key, ptr |-> i]], 3)
HfsDiscOf(fmt, tree, leaves, index) ==
  LET n == Len(leaves)
      m == Len(index)
      Node(i) ==
        IF i <= n THEN [type |-> "leaf", sane |-> TRUE, recs |-> leaves[i], next |-> IF i = n THEN 0 ELSE i + 1]
        ELSE IF i <= n + m THEN [type |-> "index", sane |-> TRUE, recs |-> index[i - n], next |-> 0]
        ELSE [type |-> "index", sane |-> TRUE, next |-> 0,
              recs |-> [j \in 1..m |-> [key |-> index[j][1].key, ptr |-> n + j]]]
      total == IF n = 1 THEN 1 ELSE n + m + 1
      blocks == total \div 4 + 1
      Phys(i) == IF i < 2 * blocks THEN 500 + i ELSE 600 + i - 2 * blocks
  IN  [fmt |-> fmt, damaged |-> FALSE, root |-> 2, tree |-> tree, rootNode |-> total,
       abSize |-> AbSize, abStart |-> 5, volStart |-> 3, volOffset |-> VolumeSector * SectorBytes,
       cat |-> <<[start |-> AbOf(500), count |-> blocks], [start |-> AbOf(600), count |-> total]>>,
       nodes |-> [p \in {Phys(i) : i \in 1..total} |-> Node(CHOOSE i \in 1..total : Phys(i) = p)],
       blocks |-> {Phys(i) : i \in 1..total} \cup {311}]

HfsDisc(fmt, per, first) ==
  LET leaves(tree) == Chunks(Catalogue(tree), per)
      Of(tree) == HfsDiscOf(fmt, tree, leaves(tree), IndexOf(leaves(tree)))
  IN  Of(HfsTree(fmt, first))

\* UDF: the partition begins at block `part`; the file "a" has a hole, and
\* extents that are listed in a second and a third block.  The empty directory is
\* in its file entry, the others are in two extents, the first of which ends in
\* the header of a FID.
UdfDiscOf(tree, part, chained) ==
  LET objs == UNION {ToSet(tree[k]) : k \in DOMAIN tree}
      Rel(e) == [e EXCEPT !.lba = @ - part]
      Ads(o) == IF o.id = 31 /\ chained THEN <<Rel(o.ext[1]), Go(700)>>
                ELSE [i \in DOMAIN o.ext |-> Rel(o.ext[i])]
      Fid(o) == [len |-> FidBytes + Len(o.name), deleted |-> FALSE, parent |-> FALSE,
                 dir |-> o.kind = "dir", icb |-> 10 * o.id + 5, name |-> o.name, id |-> o.id]
      Gone == [Fid(File(99, <<"a">>, <<>>)) EXCEPT !.deleted = TRUE]
      Fids(k) == <<Gone, [Fid(Dir(UpIn(tree, k), <<"">>)) EXCEPT !.parent = TRUE]>>
                   \o [i \in DOMAIN tree[k] |-> Fid(tree[k][i])]
      Component(n) == CASE n = "/" -> [t |-> "root"] [] n = ".." -> [t |-> "up"] [] OTHER -> [t |-> "name", n |-> n]
      Icb(o) == [alloc |-> "extents", ads |-> Ads(o), size |-> Len(o.bytes), link |-> o.kind = "link"]
      Text(o) == IF o.id \in RawLinks THEN [raw |-> TRUE, path |-> o.target]
                 ELSE [raw |-> FALSE, components |-> <<[t |-> "here"]>> \o
                         [i \in DOMAIN o.target |-> Component(o.target[i])]]
      links == {o \in objs : o.kind = "link"}
      Size(k, n) == FoldLeft(LAMBDA sum, f : sum + f.len, 0, SubSeq(Fids(k), 1, n))
      size == [k \in DOMAIN tree |-> Size(k, Len(Fids(k)))]
      first == 3 * FidBytes + 1
      DirAds(k) == <<Data(10 * k + 6, first), Data(2000 + 20 * k, size[k] - first)>>
      DirIcb(k) == [alloc |-> IF k = 19 THEN "embedded" ELSE "extents", link |-> FALSE,
                    ads |-> IF k = 19 THEN <<>> ELSE DirAds(k), size |-> size[k]]
      \* The place of the byte at an offset of a directory.
      In(lba, off) == <<part + lba + off \div SectorBytes, off % SectorBytes>>
      FidAt(k, off) == IF k = 19 THEN <<part + 10 * k + 5, off>>
                       ELSE IF off < first THEN In(10 * k + 6, off) ELSE In(2000 + 20 * k, off - first)
      FidsOf(k) == [p \in {FidAt(k, Size(k, i - 1)) : i \in DOMAIN Fids(k)} |->
                      Fids(k)[CHOOSE i \in DOMAIN Fids(k) : FidAt(k, Size(k, i - 1)) = p]]
      lbas == {part + 10 * id + 5 : id \in DOMAIN tree \cup {o.id : o \in objs}}
      Id(l) == (l - part - 5) \div 10
  IN  [fmt |-> "udf", damaged |-> FALSE, root |-> 2, tree |-> tree, part |-> part, rootIcb |-> 25,
       rootSize |-> size[2],
       fids |-> FidsOf(2) @@ FidsOf(16) @@ FidsOf(17) @@ FidsOf(18) @@ FidsOf(19),
       links |-> [p \in {<<10 * o.id, 0>> : o \in links} |->
                    Text(CHOOSE o \in links : 10 * o.id = p[1])],
       icbs |-> [l \in lbas |-> IF Id(l) \in DOMAIN tree THEN DirIcb(Id(l))
                                ELSE Icb(CHOOSE o \in objs : o.id = Id(l))],
       aeds |-> (part + 700 :> <<Hole(2), Go(701), Data(999, 9)>>)
                @@ (part + 701 :> <<Rel(Data(315, 3)), End, Data(999, 9)>>),
       blocks |-> lbas \cup {part + 26, part + 29, part + 2041, part + 700, 315}]

UdfDisc(part, chained) ==
  UdfDiscOf(Tree(<<Data(310, 3), Hole(2), Data(315, 3)>>, <<>>, UdfLinks), part, chained)

\* Damaged discs: a FID of the directory 16 that is longer than the directory, and a
\* leaf with an impossible number of records.
LongFidDisc == [UdfDisc(0, FALSE) EXCEPT !.damaged = TRUE, !.fids[<<2321, 0>>].len = 9]
BadLeafDisc(fmt) ==
  [HfsDisc(fmt, 3, <<Data(310, 5)>>) EXCEPT !.damaged = TRUE, !.nodes[504].sane = FALSE]

\* The same tree as the second of a disc, behind two other descriptors; one more
\* Joliet descriptor is not to be looked at.
JolietDisc(session) ==
  LET other == [t |-> "svd", root |-> 1, size |-> SectorSlots]
  IN  [IsoDisc(FALSE, 0, 3, session, 0, FALSE) EXCEPT
         !.joliet = TRUE,
         !.vds = <<[other EXCEPT !.t = "pvd"], other, [@[1] EXCEPT !.t = "joliet"],
                   [other EXCEPT !.t = "joliet"], [other EXCEPT !.t = "term"]>>]

\* The fields of the file 37 of a Rock Ridge disc, and of its area.
WithFields(d, sua, area) == [d EXCEPT !.dirs[161][1].sua = sua, !.areas[1371] = area]
RrDisc == IsoDisc(TRUE, 1, 3, 0, 0, FALSE)
\* A continuation area that leads to itself.
LoopedAreaDisc == WithFields(RrDisc, <<NM(<<"x">>, FALSE), CE(1371)>>, <<PX("file"), CE(1371)>>)

\* An audio disc, or the audio tracks of a mixed one: track 1 says how long it
\* is, the others do not; track 2 is data on the mixed disc, and a track has no
\* length.  The first of the virtual files is not on a mixed disc.
CddaDisc(mixed, aiff, buffered) ==
  LET track(n, start, length, data) == [number |-> n, start |-> start, length |-> length, data |-> data]
      toc == <<track(1, 10, 2, FALSE), track(2, 12, 0, mixed), track(3, 17, 0, FALSE),
               track(4, 18, 0, FALSE), track(5, 22, 0, FALSE)>>
      header == IF aiff THEN HeaderBytes + 2 ELSE HeaderBytes
      Byte(lba, i) == <<lba, IF ~aiff THEN i ELSE IF i % 2 = 0 THEN i + 1 ELSE i - 1>>
      Song(n, first, frames) ==
        [File(n, <<"Track", n>>, <<>>) EXCEPT
           !.bytes = [i \in 1..header |-> <<0 - frames * FrameBytes, i>>]
             \o [i \in 1..(frames * FrameBytes) |->
                   Byte(first + (i - 1) \div FrameBytes, (i - 1) % FrameBytes)]]
      text(id, name) == [File(id, name, <<>>) EXCEPT !.bytes = <<<<id, 0>>, <<id, 1>>>>]
      texts == (IF mixed THEN <<>> ELSE <<text(102, <<"icon">>)>>) \o <<text(103, <<"cddb">>)>>
      songs == <<Song(1, 10, 2)>> \o (IF mixed THEN <<>> ELSE <<Song(2, 12, 5)>>)
                 \o <<Song(3, 17, 1), Song(4, 18, 4)>>
  IN  [fmt |-> "cdda", damaged |-> FALSE, root |-> 2, tree |-> (2 :> texts \o songs), toc |-> toc, leadout |-> 22,
       aiff |-> aiff, buffered |-> buffered, virtual |-> texts,
       blocks |-> {11, 14, 18, 21}]

MCDiscs == {IsoDisc(FALSE, 0, per, s, 0, FALSE) : per \in {2, 3}, s \in {0, 100}}
             \cup {IsoDisc(TRUE, depth, per, 0, 0, FALSE) : depth \in {0, MaxAreas}, per \in {2, 3}}
             \cup {IsoDisc(TRUE, 1, 3, 100, 0, FALSE), LoopedAreaDisc} \cup {JolietDisc(s) : s \in {0, 100}}
             \cup {CddaDisc(mixed, aiff, buffered) : mixed, aiff, buffered \in BOOLEAN}
             \cup {HfsDisc(fmt, per, <<Data(310, 5)>>) : fmt \in {"hfs", "hfsplus"}, per \in {1, 2, 3, 30}}
             \cup {UdfDisc(part, c) : part \in {0, 3}, c \in BOOLEAN}
             \cup {LongFidDisc} \cup {BadLeafDisc(fmt) : fmt \in {"hfs", "hfsplus"}}

\* Discs on which the code departs from what is said of it (README.md).
RelativeDiscs == {IsoDisc(FALSE, 0, 3, 100, 100, FALSE)}
MovedDiscs == {IsoDisc(TRUE, 0, 3, 0, 0, TRUE)}
\* A name that begins in the record and ends in a continuation area.
SplitNameDiscs ==
  {[WithFields(RrDisc, <<NM(<<"x">>, TRUE), CE(1371), PX("file")>>, <<NM(<<"b">>, FALSE)>>)
      EXCEPT !.tree[16][2].name = <<"x", "b">>]}
FragmentedDiscs == {HfsDisc(fmt, 3, <<Data(310, 4), Data(315, 1)>>) : fmt \in {"hfs", "hfsplus"}}
=============================================================================
