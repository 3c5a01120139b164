------------------------------ MODULE PathWalk ------------------------------
(***************************************************************************)
(* Path resolution on a mounted volume: resolve_amiga_path() and           *)
(* resolve_object_into_entry() of the handler, the path walk of the        *)
(* directory cache (core/cache_meta.c) that serves most of them, and the   *)
(* search that finds the parent of a directory whose ancestors were        *)
(* forgotten (core/ancestry.c).                                            *)
(*                                                                         *)
(* A node is a place in the tree and the id its directory's last scan gave *)
(* it.  A path is the sequence of its tokens: names, "/" and ":".          *)
(*                                                                         *)
(* An operator that is used nowhere and stands right before another one is *)
(* a faulty variant of it (README.md, "Faulty variants").                  *)
(***************************************************************************)
EXTENDS Naturals, Sequences, FiniteSets, SequencesExt

CONSTANTS
  Places,     \* the objects on the disc and the virtual CDDA directory
  Root,       \* the root directory
  CddaRoot,   \* g->cdda_root, or NoPlace if !g->has_cdda
  NoPlace,
  Parent,     \* the directory of each place; the root is its own
  NameOf,     \* the name of each place in its directory
  KindOf,     \* "dir", "file" or "link"
  Listing,    \* the places of a directory in the order of its records
  Lba,        \* extent.lba of each place
  Ids         \* the ids scans may give a node; the root's is 0

Dirs == {p \in Places : KindOf[p] = "dir"}

\* The records form a tree, in which only the root has the root's extent.
ASSUME TreeAssumption ==
  /\ IsFiniteSet(Places) /\ Root \in Places /\ NoPlace \notin Places
  /\ CddaRoot \in Places \cup {NoPlace} /\ CddaRoot # Root
  /\ Parent \in [Places -> Places] /\ Parent[Root] = Root
  /\ \A p \in Places : KindOf[p] \in {"dir", "file", "link"} /\ KindOf[Parent[p]] = "dir"
  /\ \A d \in Dirs : Listing[d] \in Seq(Places \ {Root}) /\ (Lba[d] = Lba[Root] => d = Root)
  /\ \A d \in Dirs : \A p \in Places \ {Root} :
       (Parent[p] = d /\ p # CddaRoot) <=> p \in ToSet(Listing[d])
  /\ CddaRoot \in Places => Parent[CddaRoot] = Root
  /\ 0 \in Ids

Node == [at : Places, id : Ids]
RootNode == [at |-> Root, id |-> 0]
CddaNode == [at |-> CddaRoot, id |-> 0]
Same(node, place) == node.at = place

\* What follows the last prefix "device:", and the tokens that are steps: a "/"
\* right after a name only separates it from the next one, any other climbs.
AfterColon(path) ==
  LET colons == {i \in DOMAIN path : path[i] = ":"}
  IN  IF colons = {} THEN path ELSE SubSeq(path, Min(colons) + 1, Len(path))
IsStep(path, i) == path[i] # "/" \/ i = 1 \/ path[i - 1] = "/"

\* The child of a directory with a name: the first in the order of the records.
Children(dir, name) == {i \in DOMAIN Listing[dir] : NameOf[Listing[dir][i]] = name}
ChildNamed(dir, name) == Listing[dir][Min(Children(dir, name))]

-----------------------------------------------------------------------------
(* Finding a parent without knowing it.                                    *)

\* One turn of the loop of odfs_resolve_parent_search(): the listing of the
\* innermost directory is taken up where it was left; it ends at the target, at
\* the next directory, or at the end, which leaves the directory again.
SearchTurn(target, s) ==
  LET top  == Last(s.frames)
      list == Listing[top.dir]
      hits == {i \in DOMAIN list : i > top.resume /\ (list[i] = target \/ list[i] \in Dirs)}
      left == Front(s.frames) \o <<[top EXCEPT !.resume = Min(hits)]>>
  IN  IF s.frames = <<>> \/ s.found THEN s
      ELSE IF hits = {} THEN [s EXCEPT !.frames = Front(@)]
      ELSE IF list[Min(hits)] = target THEN [s EXCEPT !.found = TRUE]
      ELSE [s EXCEPT !.frames = Append(left, [dir |-> list[Min(hits)], resume |-> 0])]

\* Every turn enters or leaves a directory.
Turns == [i \in 1..(2 * Cardinality(Places) + 1) |-> i]
Search ==
  [target \in Places |->
    FoldLeft(LAMBDA s, i : SearchTurn(target, s),
             [frames |-> <<[dir |-> Root, resume |-> 0]>>, found |-> FALSE], Turns)]

\* odfs_resolve_parent_node(): the backend's resolver answers from the records
\* of the disc; one that declines leaves it to the search.
Resolvers == {"backend", "search"}
ScannedNode(place, id) == [at |-> place, id |-> IF place = Root THEN 0 ELSE id]
ResolvedBySearch(s, id) ==
  LET n == Len(s.frames)
  IN  IF ~s.found THEN [err |-> "not found", parent |-> RootNode, grand |-> RootNode]
      ELSE [err |-> "ok", parent |-> ScannedNode(s.frames[n].dir, id),
            grand |-> ScannedNode(IF n > 1 THEN s.frames[n - 1].dir ELSE Root, id)]
ResolveParent(place, by, id) ==
  IF by = "search" THEN ResolvedBySearch(Search[place], id)
  ELSE [err |-> "ok", parent |-> ScannedNode(Parent[place], id),
        grand |-> ScannedNode(Parent[Parent[place]], id)]

-----------------------------------------------------------------------------
(* resolve_amiga_path(): the node, its parent and its grandparent are      *)
(* carried along; the grandparent may be unknown.                          *)

Failed(w, err) == [w EXCEPT !.err = err]

\* "/" climbs to the parent.
ClimbResolved(w, r) ==
  IF r.err # "ok" THEN Failed(w, r.err)
  ELSE [w EXCEPT !.cur = w.parent, !.parent = r.parent, !.grand = r.grand, !.has = TRUE]
ClimbKeepsGrand(w, by, id) ==
  IF Same(w.cur, Root) THEN w
  ELSE [w EXCEPT !.cur = w.parent, !.parent = w.grand]
Climb(w, by, id) ==
  LET up == [w EXCEPT !.cur = w.parent]
  IN  IF Same(w.cur, Root) THEN w
      ELSE IF Same(w.parent, Root) \/ Same(w.parent, CddaRoot)
      THEN [up EXCEPT !.parent = RootNode, !.grand = RootNode, !.has = TRUE]
      ELSE IF w.has THEN [up EXCEPT !.parent = w.grand, !.grand = w.cur, !.has = FALSE]
      ELSE ClimbResolved(w, ResolveParent(w.parent.at, by, id))

\* A name descends; a soft link stops the walk and is remembered.
InterceptsCdda(dir, name) ==
  CddaRoot # NoPlace /\ Lba[dir] = Lba[Root] /\ name = NameOf[CddaRoot]
DescendThroughLinks(w, name, id) ==
  LET down(n) == [w EXCEPT !.cur = n, !.parent = w.cur, !.grand = w.parent, !.has = TRUE]
  IN  IF KindOf[w.cur.at] # "dir" THEN Failed(w, "not dir")
      ELSE IF InterceptsCdda(w.cur.at, name) THEN down(CddaNode)
      ELSE IF Children(w.cur.at, name) = {} THEN Failed(w, "not found")
      ELSE down([at |-> ChildNamed(w.cur.at, name), id |-> id])
Descend(w, name, id) ==
  LET down(n) == [w EXCEPT !.cur = n, !.parent = w.cur, !.grand = w.parent, !.has = TRUE]
      child == ChildNamed(w.cur.at, name)
  IN  IF KindOf[w.cur.at] # "dir" THEN Failed(w, "not dir")
      ELSE IF InterceptsCdda(w.cur.at, name) THEN down(CddaNode)
      ELSE IF Children(w.cur.at, name) = {} THEN Failed(w, "not found")
      ELSE IF KindOf[child] = "link"
      THEN Failed([w EXCEPT !.linkDir = w.cur.at, !.link = child], "is link")
      ELSE down([at |-> child, id |-> id])

WalkStep(w, step, by, id) ==
  IF w.err # "ok" THEN [w EXCEPT !.rest = Append(@, step)]
  ELSE IF step = "/" THEN Climb(w, by, id) ELSE Descend(w, step, id)

\* The walk's starting point: the known ancestors of the lock, which for the
\* root and for the CDDA directory are the root.
WalkFrom(start) ==
  LET top == Same(start.node, Root) \/ Same(start.node, CddaRoot)
  IN  [cur |-> start.node, parent |-> IF top THEN RootNode ELSE start.parent,
       grand |-> IF top THEN RootNode ELSE IF start.has THEN start.grand ELSE start.parent,
       has |-> top \/ start.has, err |-> "ok",
       linkDir |-> NoPlace, link |-> NoPlace, rest |-> <<>>]

ResolveAmigaPath(start, path, by, id) ==
  LET p == AfterColon(path)
  IN  FoldLeftDomain(LAMBDA w, i : IF IsStep(p, i) THEN WalkStep(w, p[i], by, id) ELSE w,
                     WalkFrom(start), p)

-----------------------------------------------------------------------------
(* odfs_meta_lookup_path(): names in cached directories.                   *)

\* The walk stops at the first step it has no answer for: a climb, a directory
\* that is not cached, a link.
MetaStep(cached, w, step) ==
  LET child == ChildNamed(w.dir, step)
      stop(err) == [w EXCEPT !.err = err]
  IN  IF w.err # "ok" THEN w
      ELSE IF step = "/" THEN stop("unsupported")
      ELSE IF KindOf[w.dir] # "dir" THEN stop("not dir")
      ELSE IF w.dir \notin cached THEN stop("unsupported")
      ELSE IF Children(w.dir, step) = {} THEN stop("not found")
      ELSE IF KindOf[child] = "link" THEN stop("unsupported")
      ELSE [w EXCEPT !.dir = child, !.ring = Append(@, child)]
MetaLookupPath(cached, dir, path) ==
  FoldLeftDomain(LAMBDA w, i : IF IsStep(path, i) THEN MetaStep(cached, w, path[i]) ELSE w,
                 [dir |-> dir, ring |-> <<>>, err |-> "ok"], path)

-----------------------------------------------------------------------------
(* resolve_object_into_entry().                                            *)

Found(node, parent, grand, has) ==
  [err |-> "ok", node |-> node, parent |-> parent, grand |-> grand, has |-> has]
NotFound(err) ==
  [err |-> err, node |-> RootNode, parent |-> RootNode, grand |-> RootNode, has |-> FALSE]

\* A child of the starting point: its grandparent is the start's parent.
SingleParents(start, node) ==
  LET top == Same(start.node, Root) \/ Same(start.node, CddaRoot)
  IN  Found(node, start.node, IF top THEN RootNode ELSE start.parent, TRUE)

\* The path "" names the starting point itself.
StartAgain(start) ==
  IF Same(start.node, Root) \/ Same(start.node, CddaRoot)
  THEN Found(start.node, RootNode, RootNode, TRUE)
  ELSE Found(start.node, start.parent, IF start.has THEN start.grand ELSE start.parent, start.has)

\* The directory cache's answer: only the last three names become nodes.
FromRing(start, ring, id) ==
  LET n == Len(ring)
      node(i) == [at |-> ring[i], id |-> id]
  IN  IF n = 1 THEN SingleParents(start, node(1))
      ELSE Found(node(n), node(n - 1), IF n = 2 THEN start.node ELSE node(n - 2), TRUE)

\* The iterative walk; an unknown grandparent is stored as the parent.
FromWalk(w) ==
  IF w.err # "ok" THEN NotFound(w.err)
  ELSE Found(w.cur, w.parent, IF w.has THEN w.grand ELSE w.parent, w.has)

\* One name, looked up in the starting directory.
FromLookup(start, name, id) ==
  LET dir == start.node.at
      child == ChildNamed(dir, name)
  IN  IF KindOf[dir] # "dir" THEN NotFound("not dir")
      ELSE IF InterceptsCdda(dir, name) THEN SingleParents(start, CddaNode)
      ELSE IF Children(dir, name) = {} THEN NotFound("not found")
      ELSE IF KindOf[child] = "link" THEN NotFound("is link")
      ELSE SingleParents(start, [at |-> child, id |-> id])

ResolveUncached(start, path, by, id) ==
  LET p == AfterColon(path)
  IN  IF "/" \in ToSet(p) THEN FromWalk(ResolveAmigaPath(start, path, by, id))
      ELSE IF p = <<>> THEN StartAgain(start)
      ELSE FromLookup(start, p[1], id)
ResolveAfterMeta(meta, start, path, by, id) ==
  IF meta.err = "ok" THEN FromRing(start, meta.ring, id)
  ELSE IF meta.err # "unsupported" THEN NotFound(meta.err)
  ELSE ResolveUncached(start, path, by, id)
ResolveIntoEntry(start, path, cached, by, id) ==
  LET p == AfterColon(path)
      dir == start.node.at
  IN  IF p # <<>> /\ KindOf[dir] = "dir" /\ (CddaRoot = NoPlace \/ Lba[dir] # Lba[Root])
      THEN ResolveAfterMeta(MetaLookupPath(cached, dir, p), start, path, by, id)
      ELSE ResolveUncached(start, path, by, id)

\* resolve_parent_with_cache(): the parent's own ancestors, from what the entry
\* remembers or from the disc.
ParentResolved(start, r) ==
  IF r.err # "ok" THEN NotFound(r.err) ELSE Found(start.parent, r.parent, r.grand, TRUE)
ResolveParentWithCache(start, by, id) ==
  IF Same(start.parent, Root) \/ Same(start.parent, CddaRoot)
  THEN Found(start.parent, RootNode, RootNode, TRUE)
  ELSE IF start.has
  THEN IF Same(start.grand, Root) THEN Found(start.parent, start.grand, RootNode, TRUE)
       ELSE Found(start.parent, start.grand, start.grand, FALSE)
  ELSE ParentResolved(start, ResolveParent(start.parent.at, by, id))

-----------------------------------------------------------------------------
(* What a path denotes: the reference, on the tree alone.                  *)

DenoteStep(d, step) ==
  LET named == {p \in Places \ {Root} : Parent[p] = d.at /\ NameOf[p] = step}
  IN  IF d.err # "ok" THEN d
      ELSE IF step = "/" THEN [d EXCEPT !.at = Parent[d.at]]
      ELSE IF d.at \notin Dirs THEN [d EXCEPT !.err = "not dir"]
      ELSE IF named = {} THEN [d EXCEPT !.err = "not found"]
      ELSE IF \E p \in named : KindOf[p] = "link" THEN [d EXCEPT !.err = "is link"]
      ELSE [d EXCEPT !.at = CHOOSE p \in named : TRUE]
Denotes(place, path) ==
  LET p == AfterColon(path)
  IN  FoldLeftDomain(LAMBDA d, i : IF IsStep(p, i) THEN DenoteStep(d, p[i]) ELSE d,
                     [at |-> place, err |-> "ok"], p)

\* An entry's ancestors are those of its object.
TrueAncestry(e) ==
  /\ e.parent.at = Parent[e.node.at]
  /\ e.has => e.grand.at = Parent[Parent[e.node.at]]

\* The disc the answers are exact for: no name twice in a directory, no record
\* twice in a listing, only files in the CDDA directory, and a tree: whatever
\* is below the root hangs together from it.
PlainTree ==
  /\ \A p, q \in Places \ {Root} : Parent[p] = Parent[q] /\ NameOf[p] = NameOf[q] => p = q
  /\ \A d \in Dirs : IsInjective(Listing[d])
  /\ CddaRoot \in Places => KindOf[CddaRoot] = "dir"
  /\ \A d \in Dirs : Parent[d] # CddaRoot
  /\ \A S \in SUBSET (Places \ {Root}) : S # {} => \E p \in S : Parent[p] \notin S

\* The paths the answers are exact for: between two names there is a "/".
PlainPath(path) ==
  LET p == AfterColon(path) IN \A i \in 1..(Len(p) - 1) : "/" \in {p[i], p[i + 1]}
=============================================================================
