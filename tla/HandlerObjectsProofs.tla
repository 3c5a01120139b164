------------------------ MODULE HandlerObjectsProofs ------------------------
(***************************************************************************)
(* Three results for any number of objects and volumes, any tree and path. *)
(* What path resolution finds are nodes of the tree with the ancestors the *)
(* tree gives them: each loop of the code is a fold, and its invariant is  *)
(* proved along it with FoldInduction.  The reference counts, the pools,   *)
(* the volumes' lock lists and the remembered ancestors of the handler's   *)
(* objects are exact.  And on a plain disc the search for a parent is      *)
(* complete, and every path and every comparison of two locks is answered  *)
(* as the tree says.                                                       *)
(***************************************************************************)
EXTENDS HandlerObjects, FiniteSetTheorems, SequenceTheorems, TLAPS

-----------------------------------------------------------------------------
(* Sequences.                                                              *)

\* A sequence without its last element.
LEMMA FrontLast ==
  ASSUME NEW S, NEW s \in Seq(S), s # <<>>
  PROVE  /\ Len(s) \in Nat \ {0} /\ s[Len(s)] \in S /\ Last(s) = s[Len(s)]
         /\ Front(s) \in Seq(S) /\ Len(Front(s)) = Len(s) - 1
         /\ \A k \in 1..(Len(s) - 1) : Front(s)[k] = s[k]
<1>1. Len(s) \in Nat \ {0} /\ s[Len(s)] \in S /\ Last(s) = s[Len(s)]
  BY DEF Last
<1>2. Front(s) = SubSeq(s, 1, Len(s) - 1)
  BY DEF Front
<1>3. SubSeq(s, 1, Len(s) - 1) \in Seq(S) /\ Len(SubSeq(s, 1, Len(s) - 1)) = Len(s) - 1
  <2>1. \A i \in 1..(Len(s) - 1) : s[i] \in S
    BY <1>1
  <2>2. Len(s) - 1 \in Int
    BY <1>1
  <2>3. /\ SubSeq(s, 1, Len(s) - 1) \in Seq(S)
        /\ Len(SubSeq(s, 1, Len(s) - 1)) = IF 1 <= Len(s) - 1 THEN (Len(s) - 1) - 1 + 1 ELSE 0
    BY <2>1, <2>2, SubSeqProperties
  <2>4. CASE 1 <= Len(s) - 1
    <3>1. Len(SubSeq(s, 1, Len(s) - 1)) = (Len(s) - 1) - 1 + 1
      BY <2>3, <2>4
    <3>2. (Len(s) - 1) - 1 + 1 = Len(s) - 1
      BY <1>1
    <3> QED BY <2>3, <3>1, <3>2, Zenon
  <2>5. CASE ~(1 <= Len(s) - 1)
    <3>1. Len(SubSeq(s, 1, Len(s) - 1)) = 0
      BY <2>3, <2>5
    <3>2. \A m \in Nat \ {0} : ~(1 <= m - 1) => m - 1 = 0
      OBVIOUS
    <3>3. Len(s) - 1 = 0
      BY <1>1, <2>5, <3>2
    <3> QED BY <2>3, <3>1, <3>3, Zenon
  <2> QED BY <2>4, <2>5
<1>4. \A k \in 1..(Len(s) - 1) : SubSeq(s, 1, Len(s) - 1)[k] = s[k]
  BY <1>1
<1> QED BY <1>1, <1>2, <1>3, <1>4

\* A sequence with another last element.
LEMMA LastReplaced ==
  ASSUME NEW S, NEW s \in Seq(S), s # <<>>, NEW x \in S
  PROVE  /\ Front(s) \o <<x>> \in Seq(S) /\ Len(Front(s) \o <<x>>) = Len(s)
         /\ (Front(s) \o <<x>>)[Len(s)] = x
         /\ \A k \in 1..(Len(s) - 1) : (Front(s) \o <<x>>)[k] = s[k]
<1>1. Front(s) \in Seq(S) /\ Len(Front(s)) = Len(s) - 1 /\ Len(s) \in Nat \ {0}
      /\ \A k \in 1..(Len(s) - 1) : Front(s)[k] = s[k]
  BY FrontLast
<1> DEFINE t == Front(s)
<1> HIDE DEF t
<1>2. t \o <<x>> \in Seq(S) /\ Len(t \o <<x>>) = Len(t) + 1 /\ (t \o <<x>>)[Len(t) + 1] = x
      /\ \A k \in 1..Len(t) : (t \o <<x>>)[k] = t[k]
  BY <1>1 DEF t
<1> QED BY <1>1, <1>2 DEF t

\* A sequence with one more element.
LEMMA Appended ==
  ASSUME NEW S, NEW s \in Seq(S), NEW x \in S
  PROVE  /\ Append(s, x) \in Seq(S) /\ Len(Append(s, x)) = Len(s) + 1
         /\ Append(s, x)[Len(s) + 1] = x /\ Append(s, x) # <<>>
         /\ \A k \in 1..Len(s) : Append(s, x)[k] = s[k]
OBVIOUS

-----------------------------------------------------------------------------
(* Children.                                                               *)

\* The frames of the search: a path of directories from the root.
SearchStep(s, i, target) == SearchTurn(target, s)
SearchGood(s, i, target) ==
  /\ s \in [frames : Seq([dir : Dirs, resume : Nat]), found : BOOLEAN]
  /\ s.frames # <<>> => s.frames[1].dir = Root
  /\ \A j \in 2..Len(s.frames) : Parent[s.frames[j].dir] = s.frames[j - 1].dir
  /\ s.found => /\ s.frames # <<>>
                /\ target \in ToSet(Listing[s.frames[Len(s.frames)].dir])
Searching == INSTANCE FoldInduction WITH Step <- SearchStep, Good <- SearchGood

\* Min of a set of naturals that is not empty is its least element.
LEMMA MinIn ==
  ASSUME NEW T, T \subseteq Nat, T # {}
  PROVE  Min(T) \in T /\ \A m \in T : Min(T) <= m
<1>1. PICK n \in T : \A m \in T : n <= m
  BY Searching!LeastElement
<1>2. \E n2 \in T : \A m \in T : n2 <= m
  BY <1>1
<1> QED BY <1>2 DEF Min

\* The listing of a directory: places other than the root whose parent it is.
LEMMA Listed ==
  ASSUME NEW d \in Dirs, NEW i \in DOMAIN Listing[d]
  PROVE  /\ Listing[d][i] \in Places \ {Root} /\ Parent[Listing[d][i]] = d
         /\ DOMAIN Listing[d] \subseteq Nat /\ Listing[d][i] \in ToSet(Listing[d])
<1>1. Listing[d] \in Seq(Places \ {Root})
  BY TreeAssumption
<1>2. Listing[d][i] \in Places \ {Root} /\ DOMAIN Listing[d] \subseteq Nat
  BY <1>1
<1>3. Listing[d][i] \in ToSet(Listing[d])
  BY <1>2 DEF ToSet
<1> QED BY <1>2, <1>3, TreeAssumption

\* A place in the listing of a directory is a child of it.
LEMMA ListedChild ==
  ASSUME NEW d \in Dirs, NEW p \in ToSet(Listing[d])
  PROVE  p \in Places \ {Root} /\ Parent[p] = d
<1>1. PICK i \in DOMAIN Listing[d] : p = Listing[d][i]
  BY DEF ToSet
<1> QED BY <1>1, Listed

\* The child with a name is a place in the directory.
LEMMA ChildIsChild ==
  ASSUME NEW d \in Dirs, NEW name, Children(d, name) # {}
  PROVE  /\ ChildNamed(d, name) \in Places \ {Root} /\ Parent[ChildNamed(d, name)] = d
         /\ NameOf[ChildNamed(d, name)] = name
<1>1. Children(d, name) \subseteq DOMAIN Listing[d] /\ DOMAIN Listing[d] \subseteq Nat
  BY TreeAssumption DEF Children
<1>2. Min(Children(d, name)) \in Children(d, name)
  BY <1>1, MinIn
<1>3. Min(Children(d, name)) \in DOMAIN Listing[d]
  BY <1>1, <1>2
<1> QED BY <1>2, <1>3, Listed DEF ChildNamed, Children

\* The directories are places.
LEMMA DirPlaces ==
  /\ Dirs \subseteq Places /\ Root \in Dirs
  /\ \A p \in Places : p \in Dirs <=> KindOf[p] = "dir"
  /\ \A p \in Places : Parent[p] \in Dirs /\ Parent[p] \in Places
BY TreeAssumption DEF Dirs

-----------------------------------------------------------------------------
(* The search.                                                             *)

\* A turn keeps the frames a path from the root.
LEMMA SearchTurnGood ==
  ASSUME NEW target \in Places, NEW s, NEW i, NEW j, SearchGood(s, j, target)
  PROVE  SearchGood(SearchTurn(target, s), i, target)
<1> DEFINE F == [dir : Dirs, resume : Nat]
           fs == s.frames
           n == Len(fs)
           top == fs[n]
           list == Listing[top.dir]
           hits == {k \in DOMAIN list : k > top.resume /\ (list[k] = target \/ list[k] \in Dirs)}
           m == Min(hits)
           marked == [top EXCEPT !.resume = m]
           left == Front(fs) \o <<marked>>
           next == [dir |-> list[m], resume |-> 0]
<1>1. s = [frames |-> fs, found |-> s.found] /\ fs \in Seq(F) /\ s.found \in BOOLEAN
  BY SMTT(40) DEF SearchGood
<1> HIDE DEF F
<1>2. CASE fs = <<>> \/ s.found
  BY <1>2, Zenon DEF SearchTurn, SearchGood
<1>3. CASE ~(fs = <<>> \/ s.found)
  <2>1. n \in Nat \ {0} /\ top \in F /\ Last(fs) = top
    BY <1>1, <1>3, FrontLast
  <2>2. top.dir \in Dirs /\ fs[1].dir = Root
        /\ \A k \in 2..n : Parent[fs[k].dir] = fs[k - 1].dir
    BY <1>3, <2>1 DEF SearchGood, F
  <2>3. CASE hits = {}
    <3>1. SearchTurn(target, s) = [frames |-> Front(fs), found |-> FALSE]
      BY <1>1, <1>3, <2>1, <2>3, Zenon DEF SearchTurn
    <3>2. Front(fs) \in Seq(F) /\ Len(Front(fs)) = n - 1
          /\ \A k \in 1..(n - 1) : Front(fs)[k] = fs[k]
      BY <1>1, <1>3, FrontLast
    <3>3. Front(fs) # <<>> => Front(fs)[1].dir = Root
      <4>1. Front(fs) # <<>> => n - 1 > 0
        BY <3>2, <2>1
      <4> QED BY <4>1, <3>2, <2>1, <2>2
    <3>4. \A k \in 2..(n - 1) : Parent[Front(fs)[k].dir] = Front(fs)[k - 1].dir
      <4> TAKE k \in 2..(n - 1)
      <4>1. k \in 1..(n - 1) /\ k - 1 \in 1..(n - 1) /\ k \in 2..n
        BY <2>1
      <4> QED BY <4>1, <3>2, <2>2
    <3> QED BY <3>1, <3>2, <3>3, <3>4, SMTT(40) DEF SearchGood, F
  <2>4. CASE hits # {}
    <3>1. hits \subseteq DOMAIN list /\ hits \subseteq Nat
      BY <2>2, TreeAssumption
    <3>2. m \in hits /\ m \in Nat
      <4> HIDE DEF hits
      <4> QED BY <3>1, <2>4, MinIn, Zenon
    <3>3. list[m] \in Places /\ Parent[list[m]] = top.dir /\ list[m] \in ToSet(list)
      BY <3>1, <3>2, <2>2, Listed, Zenon
    <3>4. CASE list[m] = target
      <4>1. SearchTurn(target, s) = [frames |-> fs, found |-> TRUE]
        BY <1>1, <1>3, <2>1, <2>4, <3>4 DEF SearchTurn
      <4> HIDE DEF list
      <4>2. target \in ToSet(list)
        BY <3>3, <3>4
      <4> QED BY <4>1, <4>2, <1>1, <1>3, <2>2 DEF SearchGood, list, F
    <3>5. CASE list[m] # target
      <4>1. SearchTurn(target, s) = [frames |-> Append(left, next), found |-> FALSE]
        BY <1>1, <1>3, <2>1, <2>4, <3>5, ZenonT(40) DEF SearchTurn
      <4>2. list[m] \in Dirs
        BY <3>2, <3>5, ZenonT(40)
      <4>3. marked \in F /\ marked.dir = top.dir /\ next \in F
        BY <2>1, <3>2, <4>2, Zenon DEF F
      <4> HIDE DEF marked, next
      <4>4. left \in Seq(F) /\ Len(left) = n /\ left[n] = marked
            /\ \A k \in 1..(n - 1) : left[k] = fs[k]
        BY <1>1, <1>3, <4>3, LastReplaced
      <4> HIDE DEF left
      <4> DEFINE new == Append(left, next)
      <4>5. new \in Seq(F) /\ Len(new) = n + 1 /\ new[n + 1] = next /\ new # <<>>
            /\ \A k \in 1..n : new[k] = left[k]
        <5>1. /\ Append(left, next) \in Seq(F) /\ Len(Append(left, next)) = Len(left) + 1
              /\ Append(left, next)[Len(left) + 1] = next /\ Append(left, next) # <<>>
              /\ \A k \in 1..Len(left) : Append(left, next)[k] = left[k]
          BY <4>3, <4>4, Appended
        <5> QED BY <5>1, <4>4
      <4> HIDE DEF new
      <4>6. \A k \in 1..n : new[k].dir = fs[k].dir
        <5> TAKE k \in 1..n
        <5>1. new[k] = left[k] /\ (k = n \/ k \in 1..(n - 1))
          BY <4>5, <2>1
        <5> QED BY <5>1, <4>3, <4>4
      <4>7. new[1].dir = Root
        BY <4>6, <2>1, <2>2
      <4>8. ASSUME NEW k \in 2..(n + 1)
            PROVE  Parent[new[k].dir] = new[k - 1].dir
        <5>1. CASE k = n + 1
          <6>1. new[k].dir = list[m]
            BY <5>1, <4>5 DEF next
          <6>2. k - 1 = n /\ n \in 1..n
            BY <5>1, <2>1
          <6>3. new[k - 1].dir = top.dir
            BY <6>2, <4>6
          <6> QED BY <6>1, <6>3, <3>3, ZenonT(40)
        <5>2. CASE k # n + 1
          <6>1. k \in 1..n /\ k - 1 \in 1..n /\ k \in 2..n
            BY <5>2, <2>1
          <6> QED BY <6>1, <4>6, <2>2
        <5> QED BY <5>1, <5>2, SMTT(40)
      <4>9. SearchTurn(target, s) = [frames |-> new, found |-> FALSE]
        BY <4>1 DEF new
      <4> QED BY <4>9, <4>5, <4>7, <4>8, SMTT(40) DEF SearchGood, F
    <3> QED BY <3>4, <3>5
  <2> QED BY <2>3, <2>4
<1> QED BY <1>2, <1>3

\* What the search finds is the target's directory, at the end of a path of
\* directories from the root: odfs_resolve_parent_search() never answers with
\* a directory of another branch.
THEOREM SearchSound ==
  ASSUME NEW target \in Places
  PROVE  SearchGood(Search[target], 2 * Cardinality(Places) + 1, target)
<1> DEFINE b == [frames |-> <<[dir |-> Root, resume |-> 0]>>, found |-> FALSE]
           N == 2 * Cardinality(Places) + 1
<1>1. N \in Nat /\ DOMAIN Turns = 1..N
  <2>1. Cardinality(Places) \in Nat
    BY TreeAssumption, FS_CardinalityType
  <2> QED BY <2>1 DEF Turns
<1>2. Search[target] = Searching!Fold(b, Turns, target)
  BY DEF Search, FoldLeft, MapThenFoldSet, Searching!Fold, Max, Searching!Max, SearchStep
<1>3. SearchGood(b, 0, target)
  BY DirPlaces DEF SearchGood
<1>4. ASSUME NEW w, NEW i \in 1..N, SearchGood(w, i - 1, target)
      PROVE  SearchGood(SearchStep(w, Turns[i], target), i, target)
  BY <1>4, SearchTurnGood DEF SearchStep
<1> HIDE DEF b, N
<1>5. SearchGood(Searching!Fold(b, Turns, target), N, target)
  BY <1>1, <1>3, <1>4, Searching!FoldGood
<1> QED BY <1>2, <1>5 DEF N

\* The parent and the grandparent odfs_resolve_parent_node() answers with are
\* those of the place, from the backend's records or from the search.
THEOREM ParentResolution ==
  ASSUME NEW place \in Places, NEW by \in Resolvers, NEW id \in Ids,
         ResolveParent(place, by, id).err = "ok"
  PROVE  LET r == ResolveParent(place, by, id)
         IN  /\ r.parent \in Node /\ r.grand \in Node
             /\ r.parent.at = Parent[place] /\ r.grand.at = Parent[Parent[place]]
<1>1. \A p \in Places : ScannedNode(p, id) \in Node /\ ScannedNode(p, id).at = p
  BY TreeAssumption DEF ScannedNode, Node
<1>2. Parent[place] \in Places /\ Parent[Parent[place]] \in Places
  BY TreeAssumption
<1>3. CASE by # "search"
  BY <1>1, <1>2, <1>3 DEF ResolveParent
<1>4. CASE by = "search"
  <2> DEFINE s == Search[place]
             n == Len(s.frames)
             up == IF n > 1 THEN s.frames[n - 1].dir ELSE Root
  <2>1. s.found /\ SearchGood(s, 2 * Cardinality(Places) + 1, place)
    BY <1>4, SearchSound DEF ResolveParent, ResolvedBySearch
  <2>2. ResolveParent(place, by, id) =
          [err |-> "ok", parent |-> ScannedNode(s.frames[n].dir, id), grand |-> ScannedNode(up, id)]
    BY <1>4, <2>1 DEF ResolveParent, ResolvedBySearch
  <2>3. s.frames \in Seq([dir : Dirs, resume : Nat]) /\ n \in Nat \ {0}
    BY <2>1 DEF SearchGood
  <2>a. n = Len(s.frames)
    OBVIOUS
  <2> HIDE DEF s, n
  <2>4. \A k \in 1..n : s.frames[k].dir \in Dirs
    <3> DEFINE F == [dir : Dirs, resume : Nat]
    <3>1. \A x \in F : x.dir \in Dirs
      OBVIOUS
    <3>0. s.frames \in Seq(F)
      BY <2>3
    <3> HIDE DEF F
    <3>2. \A k \in 1..n : s.frames[k] \in F
      BY <3>0, <2>a
    <3> QED BY <3>1, <3>2
  <2>5. s.frames[n].dir \in Dirs /\ s.frames[1].dir = Root
    BY <2>1, <2>3, <2>4, <2>a DEF SearchGood
  <2>6. Parent[place] = s.frames[n].dir
    BY <2>1, <2>5, <2>a, ListedChild DEF SearchGood
  <2>7. up = Parent[s.frames[n].dir] /\ up \in Places
    <3>1. CASE n > 1
      <4>1. n \in 2..n /\ n - 1 \in 1..n
        BY <2>3, <3>1
      <4> QED BY <3>1, <4>1, <2>1, <2>4, <2>a, DirPlaces DEF SearchGood
    <3>2. CASE ~(n > 1)
      <4>1. n = 1
        BY <2>3, <3>2
      <4> QED BY <3>2, <4>1, <2>5, TreeAssumption
    <3> QED BY <3>1, <3>2
  <2> HIDE DEF up
  <2> QED BY <2>2, <2>5, <2>6, <2>7, <1>1, DirPlaces
<1> QED BY <1>3, <1>4

-----------------------------------------------------------------------------
(* The walk along a path.                                                  *)

\* Where the walk stands: nodes of the tree, with the parent the tree gives
\* and, if it is known, the grandparent.
Standing(w) ==
  /\ w.cur \in Node /\ w.parent \in Node /\ w.grand \in Node /\ w.has \in BOOLEAN
  /\ w.parent.at = Parent[w.cur.at]
  /\ w.has => w.grand.at = Parent[Parent[w.cur.at]]
IsWalk(w) ==
  w = [cur |-> w.cur, parent |-> w.parent, grand |-> w.grand, has |-> w.has, err |-> w.err,
       linkDir |-> w.linkDir, link |-> w.link, rest |-> w.rest]

\* Fixed nodes.
LEMMA FixedNodes ==
  /\ RootNode \in Node /\ RootNode.at = Root
  /\ CddaRoot # NoPlace => CddaNode \in Node /\ CddaNode.at = CddaRoot /\ Parent[CddaRoot] = Root
  /\ \A n \in Node : n.at \in Places /\ Parent[n.at] \in Places
  /\ \A n \in Node : n.at = CddaRoot => Parent[n.at] = Root
BY TreeAssumption DEF Node, RootNode, CddaNode

\* Climbing.
LEMMA ClimbStands ==
  ASSUME NEW w, NEW by \in Resolvers, NEW id \in Ids, IsWalk(w), Standing(w)
  PROVE  IsWalk(Climb(w, by, id)) /\ Standing(Climb(w, by, id))
<1>1. w.cur.at \in Places /\ w.parent.at \in Places /\ Parent[Root] = Root
  BY FixedNodes, TreeAssumption DEF Standing
<1>2. CASE Same(w.cur, Root)
  BY <1>2 DEF Climb
<1>3. CASE ~Same(w.cur, Root) /\ (Same(w.parent, Root) \/ Same(w.parent, CddaRoot))
  <2>1. Climb(w, by, id) = [cur |-> w.parent, parent |-> RootNode, grand |-> RootNode,
          has |-> TRUE, err |-> w.err, linkDir |-> w.linkDir, link |-> w.link, rest |-> w.rest]
    BY <1>3 DEF Climb, IsWalk
  <2>2. Parent[w.parent.at] = Root
    BY <1>1, <1>3, FixedNodes DEF Same, Standing
  <2> QED BY <1>1, <2>1, <2>2, FixedNodes DEF IsWalk, Standing
<1>4. CASE /\ ~Same(w.cur, Root) /\ ~(Same(w.parent, Root) \/ Same(w.parent, CddaRoot))
           /\ w.has
  <2>1. Climb(w, by, id) = [cur |-> w.parent, parent |-> w.grand, grand |-> w.cur,
          has |-> FALSE, err |-> w.err, linkDir |-> w.linkDir, link |-> w.link, rest |-> w.rest]
    BY <1>4 DEF Climb, IsWalk
  <2> QED BY <1>4, <2>1 DEF IsWalk, Standing
<1>5. CASE /\ ~Same(w.cur, Root) /\ ~(Same(w.parent, Root) \/ Same(w.parent, CddaRoot))
           /\ ~w.has
  <2> DEFINE r == ResolveParent(w.parent.at, by, id)
  <2>1. Climb(w, by, id) = ClimbResolved(w, r)
    BY <1>5 DEF Climb
  <2>2. CASE r.err # "ok"
    <3>1. ClimbResolved(w, r) = [cur |-> w.cur, parent |-> w.parent, grand |-> w.grand,
            has |-> w.has, err |-> r.err, linkDir |-> w.linkDir, link |-> w.link, rest |-> w.rest]
      BY <2>2 DEF ClimbResolved, Failed, IsWalk
    <3> QED BY <2>1, <3>1 DEF IsWalk, Standing
  <2>3. CASE r.err = "ok"
    <3>1. ClimbResolved(w, r) = [cur |-> w.parent, parent |-> r.parent, grand |-> r.grand,
            has |-> TRUE, err |-> w.err, linkDir |-> w.linkDir, link |-> w.link, rest |-> w.rest]
      BY <2>3 DEF ClimbResolved, IsWalk
    <3>2. r.parent \in Node /\ r.grand \in Node /\ r.parent.at = Parent[w.parent.at]
          /\ r.grand.at = Parent[Parent[w.parent.at]]
      BY <1>1, <2>3, ParentResolution
    <3> HIDE DEF r
    <3> QED BY <2>1, <3>1, <3>2 DEF IsWalk, Standing
  <2> QED BY <2>2, <2>3
<1> QED BY <1>2, <1>3, <1>4, <1>5

\* Descending.
LEMMA DescendStands ==
  ASSUME NEW w, NEW name, NEW id \in Ids, IsWalk(w), Standing(w)
  PROVE  IsWalk(Descend(w, name, id)) /\ Standing(Descend(w, name, id))
<1> DEFINE down(n) == [cur |-> n, parent |-> w.cur, grand |-> w.parent, has |-> TRUE,
             err |-> w.err, linkDir |-> w.linkDir, link |-> w.link, rest |-> w.rest]
           child == ChildNamed(w.cur.at, name)
<1>1. w.cur.at \in Places /\ w.parent.at \in Places
  BY FixedNodes DEF Standing
<1>2. ASSUME NEW n \in Node, Parent[n.at] = w.cur.at
      PROVE  IsWalk(down(n)) /\ Standing(down(n))
  BY <1>2 DEF IsWalk, Standing
<1>3. ASSUME NEW err, NEW dir, NEW link
      PROVE  LET f == [cur |-> w.cur, parent |-> w.parent, grand |-> w.grand, has |-> w.has,
                       err |-> err, linkDir |-> dir, link |-> link, rest |-> w.rest]
             IN  IsWalk(f) /\ Standing(f)
  BY DEF IsWalk, Standing
<1>4. CASE KindOf[w.cur.at] # "dir"
  <2>1. Descend(w, name, id) = [cur |-> w.cur, parent |-> w.parent, grand |-> w.grand,
          has |-> w.has, err |-> "not dir", linkDir |-> w.linkDir, link |-> w.link, rest |-> w.rest]
    BY <1>4 DEF Descend, Failed, IsWalk
  <2> QED BY <2>1, <1>3
<1>5. CASE KindOf[w.cur.at] = "dir"
  <2>0. w.cur.at \in Dirs
    BY <1>1, <1>5, DirPlaces
  <2>1. CASE InterceptsCdda(w.cur.at, name)
    <3>1. w.cur.at = Root /\ CddaRoot # NoPlace
      BY <2>0, <2>1, TreeAssumption DEF InterceptsCdda
    <3>2. Descend(w, name, id) = down(CddaNode)
      BY <1>5, <2>1 DEF Descend, IsWalk
    <3> HIDE DEF down
    <3> QED BY <3>1, <3>2, <1>2, FixedNodes
  <2>2. CASE ~InterceptsCdda(w.cur.at, name) /\ Children(w.cur.at, name) = {}
    <3>1. Descend(w, name, id) = [cur |-> w.cur, parent |-> w.parent, grand |-> w.grand,
            has |-> w.has, err |-> "not found", linkDir |-> w.linkDir, link |-> w.link,
            rest |-> w.rest]
      BY <1>5, <2>2 DEF Descend, Failed, IsWalk
    <3> QED BY <3>1, <1>3
  <2>3. CASE ~InterceptsCdda(w.cur.at, name) /\ Children(w.cur.at, name) # {}
    <3>1. CASE KindOf[child] = "link"
      <4>1. Descend(w, name, id) = [cur |-> w.cur, parent |-> w.parent, grand |-> w.grand,
              has |-> w.has, err |-> "is link", linkDir |-> w.cur.at, link |-> child,
              rest |-> w.rest]
        BY <1>5, <2>3, <3>1 DEF Descend, Failed, IsWalk
      <4> QED BY <4>1, <1>3
    <3>2. CASE KindOf[child] # "link"
      <4>1. Descend(w, name, id) = down([at |-> child, id |-> id])
        BY <1>5, <2>3, <3>2 DEF Descend, IsWalk
      <4>2. child \in Places /\ Parent[child] = w.cur.at
        BY <2>0, <2>3, ChildIsChild
      <4>3. [at |-> child, id |-> id] \in Node
        BY <4>2 DEF Node
      <4> HIDE DEF down, child
      <4> QED BY <4>1, <4>2, <4>3, <1>2
    <3> QED BY <3>1, <3>2
  <2> QED BY <2>1, <2>2, <2>3
<1> QED BY <1>4, <1>5

\* A step of the walk, and the whole of it.
WalkElement(w, i, p) == IF IsStep(p[1], i) THEN WalkStep(w, p[1][i], p[2], p[3]) ELSE w
WalkGood(w, i, p) == IsWalk(w) /\ Standing(w)
Walking == INSTANCE FoldInduction WITH Step <- WalkElement, Good <- WalkGood

\* The indices FoldLeftDomain goes along.
Indices(q) == [i \in DOMAIN q |-> i]

\* What follows the device name is a sequence.
LEMMA AfterColonSeq ==
  ASSUME NEW S, NEW path \in Seq(S)
  PROVE  AfterColon(path) \in Seq(S)
<1> DEFINE colons == {i \in DOMAIN path : path[i] = ":"}
<1>1. CASE colons = {}
  BY <1>1 DEF AfterColon
<1>2. CASE colons # {}
  <2>1. colons \subseteq Nat /\ colons \subseteq 1..Len(path)
    OBVIOUS
  <2>2. Min(colons) \in 1..Len(path)
    <3> HIDE DEF colons
    <3> QED BY <1>2, <2>1, MinIn
  <2>3. AfterColon(path) = SubSeq(path, Min(colons) + 1, Len(path))
    BY <1>2 DEF AfterColon
  <2> DEFINE m == Min(colons)
  <2>4. m \in 1..Len(path)
    BY <2>2
  <2> HIDE DEF m
  <2>5. SubSeq(path, m + 1, Len(path)) \in Seq(S)
    BY <2>4
  <2> QED BY <2>3, <2>5 DEF m
<1> QED BY <1>1, <1>2

\* A start: what a lock remembers of its object.
IsStart(start) ==
  /\ start.node \in Node /\ start.parent \in Node /\ start.grand \in Node
  /\ start.has \in BOOLEAN /\ TrueAncestry(start)

\* The root has itself for a parent, and so has what is not on the disc.
LEMMA TopParent ==
  ASSUME NEW n \in Node, Same(n, Root) \/ Same(n, CddaRoot)
  PROVE  Parent[n.at] = Root /\ Parent[Parent[n.at]] = Root
BY FixedNodes, TreeAssumption DEF Same

\* Where the walk starts.
LEMMA WalkFromStands ==
  ASSUME NEW start, IsStart(start)
  PROVE  IsWalk(WalkFrom(start)) /\ Standing(WalkFrom(start))
<1> DEFINE b == WalkFrom(start)
<1>1. CASE Same(start.node, Root) \/ Same(start.node, CddaRoot)
  <2>1. b = [cur |-> start.node, parent |-> RootNode, grand |-> RootNode, has |-> TRUE,
             err |-> "ok", linkDir |-> NoPlace, link |-> NoPlace, rest |-> <<>>]
    BY <1>1 DEF WalkFrom
  <2>2. Parent[start.node.at] = Root /\ Parent[Parent[start.node.at]] = Root
    BY <1>1, TopParent DEF IsStart
  <2> QED BY <2>1, <2>2, FixedNodes DEF IsWalk, Standing, IsStart
<1>2. CASE ~(Same(start.node, Root) \/ Same(start.node, CddaRoot))
  <2>1. b = [cur |-> start.node, parent |-> start.parent,
             grand |-> IF start.has THEN start.grand ELSE start.parent, has |-> start.has,
             err |-> "ok", linkDir |-> NoPlace, link |-> NoPlace, rest |-> <<>>]
    BY <1>2 DEF WalkFrom, IsStart
  <2> QED BY <2>1 DEF IsWalk, Standing, IsStart, TrueAncestry
<1> QED BY <1>1, <1>2

\* resolve_amiga_path() ends at a node of the tree with its own ancestors.
THEOREM WalkSound ==
  ASSUME NEW start, IsStart(start), NEW S, NEW path \in Seq(S), NEW by \in Resolvers,
         NEW id \in Ids
  PROVE  Standing(ResolveAmigaPath(start, path, by, id))
<1> DEFINE q == AfterColon(path)
           n == Len(q)
           p == <<q, by, id>>
           b == WalkFrom(start)
<1>1. q \in Seq(S) /\ n \in Nat /\ DOMAIN q = 1..n
  BY AfterColonSeq
<1>2. ResolveAmigaPath(start, path, by, id) = Walking!Fold(b, Indices(q), p)
  BY DEF ResolveAmigaPath, FoldLeftDomain, FoldLeft, MapThenFoldSet, Walking!Fold, Max,
         Walking!Max, WalkElement, Indices
<1> HIDE DEF q, n
<1>3. DOMAIN Indices(q) = 1..n /\ \A i \in 1..n : Indices(q)[i] = i
  BY <1>1 DEF Indices
<1>4. WalkGood(b, 0, p)
  BY WalkFromStands DEF WalkGood
<1>5. ASSUME NEW w, NEW i \in 1..n, WalkGood(w, i - 1, p)
      PROVE  WalkGood(WalkElement(w, Indices(q)[i], p), i, p)
  <2>1. WalkElement(w, Indices(q)[i], p) = IF IsStep(q, i) THEN WalkStep(w, q[i], by, id) ELSE w
    BY <1>3 DEF WalkElement
  <2>2. WalkGood(WalkStep(w, q[i], by, id), i, p)
    <3>1. CASE w.err # "ok"
      <4>1. WalkStep(w, q[i], by, id) = [cur |-> w.cur, parent |-> w.parent, grand |-> w.grand,
              has |-> w.has, err |-> w.err, linkDir |-> w.linkDir, link |-> w.link,
              rest |-> Append(w.rest, q[i])]
        BY <1>5, <3>1 DEF WalkStep, WalkGood, IsWalk
      <4> QED BY <1>5, <4>1 DEF WalkGood, IsWalk, Standing
    <3>2. CASE w.err = "ok"
      BY <1>5, <3>2, ClimbStands, DescendStands DEF WalkStep, WalkGood
    <3> QED BY <3>1, <3>2
  <2> QED BY <1>5, <2>1, <2>2 DEF WalkGood
<1> HIDE DEF b, p
<1>6. WalkGood(Walking!Fold(b, Indices(q), p), n, p)
  BY <1>1, <1>3, <1>4, <1>5, Walking!FoldGood
<1> QED BY <1>2, <1>6 DEF WalkGood

-----------------------------------------------------------------------------
(* The walk in the directory cache.                                        *)

\* The ring: one place below the other, from the directory it started in.
RingElement(w, i, p) == IF IsStep(p[1], i) THEN MetaStep(p[2], w, p[1][i]) ELSE w
RingGood(w, i, p) ==
  /\ w = [dir |-> w.dir, ring |-> w.ring, err |-> w.err] /\ w.ring \in Seq(Places)
  /\ w.dir = IF w.ring = <<>> THEN p[3] ELSE w.ring[Len(w.ring)]
  /\ \A j \in 1..Len(w.ring) : Parent[w.ring[j]] = IF j = 1 THEN p[3] ELSE w.ring[j - 1]
  /\ i > 0 /\ w.err = "ok" => w.ring # <<>>
Ringing == INSTANCE FoldInduction WITH Step <- RingElement, Good <- RingGood

\* A name in a cached directory.
LEMMA MetaStepGood ==
  ASSUME NEW w, NEW p, NEW i \in Nat, NEW step, p[3] \in Places, RingGood(w, i, p)
  PROVE  RingGood(MetaStep(p[2], w, step), i + 1, p)
<1> DEFINE child == ChildNamed(w.dir, step)
           n == Len(w.ring)
<1>1. w.dir \in Places /\ n \in Nat
  BY DEF RingGood
<1>2. ASSUME NEW e, e # "ok"
      PROVE  RingGood([w EXCEPT !.err = e], i + 1, p)
  <2>1. [w EXCEPT !.err = e] = [dir |-> w.dir, ring |-> w.ring, err |-> e]
    BY DEF RingGood
  <2> QED BY <1>2, <2>1 DEF RingGood
<1>3. CASE w.err # "ok"
  BY <1>3 DEF MetaStep, RingGood
<1>4. CASE /\ w.err = "ok" /\ step # "/" /\ KindOf[w.dir] = "dir" /\ w.dir \in p[2]
           /\ Children(w.dir, step) # {} /\ KindOf[child] # "link"
  <2>1. child \in Places /\ Parent[child] = w.dir
    BY <1>1, <1>4, DirPlaces, ChildIsChild
  <2>2. MetaStep(p[2], w, step) = [dir |-> child, ring |-> Append(w.ring, child), err |-> "ok"]
    BY <1>4 DEF MetaStep, RingGood
  <2> HIDE DEF child
  <2> DEFINE new == Append(w.ring, child)
  <2>3. new \in Seq(Places) /\ Len(new) = n + 1 /\ new[n + 1] = child /\ new # <<>>
        /\ \A k \in 1..n : new[k] = w.ring[k]
    BY <1>1, <2>1, Appended DEF RingGood
  <2> HIDE DEF new
  <2>4. ASSUME NEW j \in 1..(n + 1)
        PROVE  Parent[new[j]] = IF j = 1 THEN p[3] ELSE new[j - 1]
    <3>1. CASE j = n + 1
      <4>1. Parent[new[j]] = w.dir
        BY <3>1, <2>1, <2>3
      <4>2. CASE n = 0
        <5>1. w.ring = <<>>
          BY <4>2 DEF RingGood
        <5> QED BY <3>1, <4>1, <4>2, <5>1 DEF RingGood
      <4>3. CASE n # 0
        <5>1. w.ring # <<>> /\ j # 1 /\ j - 1 = n /\ n \in 1..n
          BY <1>1, <3>1, <4>3
        <5>2. w.dir = w.ring[n]
          BY <5>1 DEF RingGood
        <5> QED BY <4>1, <5>1, <5>2, <2>3
      <4> QED BY <4>2, <4>3
    <3>2. CASE j # n + 1
      <4>1. j \in 1..n /\ (j # 1 => j - 1 \in 1..n)
        BY <1>1, <3>2
      <4>2. Parent[w.ring[j]] = IF j = 1 THEN p[3] ELSE w.ring[j - 1]
        BY <4>1 DEF RingGood
      <4> QED BY <2>3, <4>1, <4>2
    <3> QED BY <3>1, <3>2
  <2>5. MetaStep(p[2], w, step) = [dir |-> child, ring |-> new, err |-> "ok"]
    BY <2>2 DEF new
  <2> QED BY <2>3, <2>4, <2>5 DEF RingGood
<1>5. CASE ~(w.err # "ok") /\ ~(/\ w.err = "ok" /\ step # "/" /\ KindOf[w.dir] = "dir"
           /\ w.dir \in p[2] /\ Children(w.dir, step) # {} /\ KindOf[child] # "link")
  <2>1. \/ MetaStep(p[2], w, step) = [w EXCEPT !.err = "unsupported"]
        \/ MetaStep(p[2], w, step) = [w EXCEPT !.err = "not dir"]
        \/ MetaStep(p[2], w, step) = [w EXCEPT !.err = "not found"]
    BY <1>5 DEF MetaStep
  <2> QED BY <1>2, <2>1
<1> QED BY <1>3, <1>4, <1>5

\* A path in the tree, from below a directory.
IsPathBelow(dir, ring) ==
  /\ ring \in Seq(Places) /\ ring # <<>>
  /\ \A j \in 1..Len(ring) : Parent[ring[j]] = IF j = 1 THEN dir ELSE ring[j - 1]

\* odfs_meta_lookup_path(): an answer is a path in the tree that starts below
\* the directory, has at least one name and ends where the walk does.
THEOREM RingSound ==
  ASSUME NEW cached, NEW dir \in Places, NEW S, NEW q \in Seq(S), q # <<>>,
         MetaLookupPath(cached, dir, q).err = "ok"
  PROVE  LET m == MetaLookupPath(cached, dir, q)
         IN  IsPathBelow(dir, m.ring) /\ m.dir = m.ring[Len(m.ring)]
<1> DEFINE n == Len(q)
           p == <<q, cached, dir>>
           b == [dir |-> dir, ring |-> <<>>, err |-> "ok"]
<1>1. n \in Nat \ {0} /\ DOMAIN q = 1..n
  OBVIOUS
<1>2. MetaLookupPath(cached, dir, q) = Ringing!Fold(b, Indices(q), p)
  BY DEF MetaLookupPath, FoldLeftDomain, FoldLeft, MapThenFoldSet, Ringing!Fold, Max,
         Ringing!Max, RingElement, Indices
<1>3. DOMAIN Indices(q) = 1..n /\ \A i \in 1..n : Indices(q)[i] = i
  BY <1>1 DEF Indices
<1>4. RingGood(b, 0, p)
  BY DEF RingGood
<1>5. ASSUME NEW w, NEW i \in 1..n, RingGood(w, i - 1, p)
      PROVE  RingGood(RingElement(w, Indices(q)[i], p), i, p)
  <2>1. RingElement(w, Indices(q)[i], p) =
          IF IsStep(q, i) THEN MetaStep(cached, w, q[i]) ELSE w
    BY <1>3 DEF RingElement
  <2>2. RingGood(MetaStep(cached, w, q[i]), i, p)
    <3>1. p[3] \in Places /\ p[2] = cached /\ i - 1 \in Nat /\ (i - 1) + 1 = i
      OBVIOUS
    <3>2. RingGood(MetaStep(p[2], w, q[i]), (i - 1) + 1, p)
      <4> HIDE DEF p
      <4> QED BY <1>5, <3>1, MetaStepGood
    <3> QED BY <3>1, <3>2
  <2>3. CASE ~IsStep(q, i)
    <3>1. i > 1
      BY <2>3 DEF IsStep
    <3>2. i - 1 > 0 /\ i > 0
      BY <3>1
    <3> QED BY <1>5, <2>1, <2>3, <3>2 DEF RingGood
  <2>4. CASE IsStep(q, i)
    BY <2>1, <2>2, <2>4
  <2> QED BY <2>3, <2>4
<1> HIDE DEF b, p
<1>6. RingGood(Ringing!Fold(b, Indices(q), p), n, p)
  BY <1>1, <1>3, <1>4, <1>5, Ringing!FoldGood
<1>7. p[3] = dir /\ n > 0
  BY <1>1 DEF p
<1> QED BY <1>2, <1>6, <1>7 DEF RingGood, IsPathBelow

-----------------------------------------------------------------------------
(* What goes into an entry.                                                *)

\* What resolution gives an entry: nodes of the tree with their ancestors.
Resolved(r) ==
  /\ r.node \in Node /\ r.parent \in Node /\ r.grand \in Node /\ r.has \in BOOLEAN
  /\ r.parent.at = Parent[r.node.at]
  /\ r.has => r.grand.at = Parent[Parent[r.node.at]]

\* Answers that say nothing was found are of the same form.
LEMMA NotFoundIs ==
  \A err : Resolved(NotFound(err)) /\ NotFound(err).err = err
BY FixedNodes, TreeAssumption DEF Resolved, NotFound

\* A child of the start.
LEMMA SingleSound ==
  ASSUME NEW start, IsStart(start), NEW node \in Node, Parent[node.at] = start.node.at
  PROVE  Resolved(SingleParents(start, node))
<1>1. CASE Same(start.node, Root) \/ Same(start.node, CddaRoot)
  <2>1. Parent[start.node.at] = Root
    BY <1>1, TopParent DEF IsStart
  <2> QED BY <1>1, <2>1, FixedNodes DEF SingleParents, Found, Resolved, IsStart
<1>2. CASE ~(Same(start.node, Root) \/ Same(start.node, CddaRoot))
  BY <1>2 DEF SingleParents, Found, Resolved, IsStart, TrueAncestry
<1> QED BY <1>1, <1>2

\* The start itself.
LEMMA StartSound ==
  ASSUME NEW start, IsStart(start)
  PROVE  Resolved(StartAgain(start))
<1>1. CASE Same(start.node, Root) \/ Same(start.node, CddaRoot)
  <2>1. Parent[start.node.at] = Root /\ Parent[Parent[start.node.at]] = Root
    BY <1>1, TopParent DEF IsStart
  <2> QED BY <1>1, <2>1, FixedNodes DEF StartAgain, Found, Resolved, IsStart
<1>2. CASE ~(Same(start.node, Root) \/ Same(start.node, CddaRoot))
  BY <1>2 DEF StartAgain, Found, Resolved, IsStart, TrueAncestry
<1> QED BY <1>1, <1>2

\* The last names of a path in the cache.
LEMMA FromRingSound ==
  ASSUME NEW start, IsStart(start), NEW id \in Ids, NEW ring,
         IsPathBelow(start.node.at, ring)
  PROVE  Resolved(FromRing(start, ring, id))
<1> DEFINE n == Len(ring)
           node(i) == [at |-> ring[i], id |-> id]
<1>1. n \in Nat \ {0} /\ \A j \in 1..n : node(j) \in Node /\ node(j).at = ring[j]
  BY DEF Node, IsPathBelow
<1>2. CASE n = 1
  <2>1. FromRing(start, ring, id) = SingleParents(start, node(1))
    BY <1>2 DEF FromRing
  <2>2. node(1) \in Node /\ Parent[node(1).at] = start.node.at
    BY <1>1, <1>2 DEF IsPathBelow
  <2> QED BY <2>1, <2>2, SingleSound
<1>3. CASE n = 2
  <2>1. FromRing(start, ring, id) = Found(node(2), node(1), start.node, TRUE)
    BY <1>3 DEF FromRing
  <2>2. Parent[ring[2]] = ring[1] /\ Parent[ring[1]] = start.node.at
        /\ node(1) \in Node /\ node(2) \in Node
    BY <1>1, <1>3 DEF IsPathBelow
  <2> QED BY <2>1, <2>2 DEF Found, Resolved, IsStart
<1>4. CASE n # 1 /\ n # 2
  <2>1. FromRing(start, ring, id) = Found(node(n), node(n - 1), node(n - 2), TRUE)
    BY <1>4 DEF FromRing
  <2>2. n \in 1..n /\ n - 1 \in 1..n /\ n - 2 \in 1..n /\ n - 1 # 1 /\ (n - 1) - 1 = n - 2
    <3> HIDE DEF n
    <3> QED BY <1>1, <1>4
  <2>3. Parent[ring[n]] = ring[n - 1] /\ Parent[ring[n - 1]] = ring[n - 2]
    BY <1>4, <2>2 DEF IsPathBelow
  <2> QED BY <2>1, <2>2, <2>3, <1>1 DEF Found, Resolved
<1> QED BY <1>2, <1>3, <1>4

\* A name in the starting directory.
LEMMA FromLookupSound ==
  ASSUME NEW start, IsStart(start), NEW id \in Ids, NEW name
  PROVE  Resolved(FromLookup(start, name, id))
<1> DEFINE dir == start.node.at
           child == ChildNamed(dir, name)
<1>1. dir \in Places
  BY FixedNodes DEF IsStart
<1>2. CASE KindOf[dir] # "dir"
  BY <1>2, NotFoundIs DEF FromLookup
<1>3. CASE KindOf[dir] = "dir" /\ InterceptsCdda(dir, name)
  <2>1. dir = Root /\ CddaRoot # NoPlace
    BY <1>1, <1>3, DirPlaces, TreeAssumption DEF InterceptsCdda
  <2>2. CddaNode \in Node /\ Parent[CddaNode.at] = start.node.at
    BY <2>1, FixedNodes
  <2>3. FromLookup(start, name, id) = SingleParents(start, CddaNode)
    BY <1>3 DEF FromLookup
  <2> QED BY <2>2, <2>3, SingleSound
<1>4. CASE KindOf[dir] = "dir" /\ ~InterceptsCdda(dir, name) /\ Children(dir, name) = {}
  BY <1>4, NotFoundIs DEF FromLookup
<1>5. CASE KindOf[dir] = "dir" /\ ~InterceptsCdda(dir, name) /\ Children(dir, name) # {}
  <2>1. child \in Places /\ Parent[child] = dir
    BY <1>1, <1>5, DirPlaces, ChildIsChild
  <2>2. CASE KindOf[child] = "link"
    BY <1>5, <2>2, NotFoundIs DEF FromLookup
  <2>3. CASE KindOf[child] # "link"
    <3>1. FromLookup(start, name, id) = SingleParents(start, [at |-> child, id |-> id])
      BY <1>5, <2>3 DEF FromLookup
    <3>2. [at |-> child, id |-> id] \in Node /\ [at |-> child, id |-> id].at = child
      BY <2>1 DEF Node
    <3> HIDE DEF child
    <3> QED BY <3>1, <3>2, <2>1, SingleSound
  <2> QED BY <2>2, <2>3
<1> QED BY <1>2, <1>3, <1>4, <1>5

\* Without the cache.
LEMMA UncachedSound ==
  ASSUME NEW start, IsStart(start), NEW S, NEW path \in Seq(S), NEW by \in Resolvers,
         NEW id \in Ids
  PROVE  Resolved(ResolveUncached(start, path, by, id))
<1> DEFINE q == AfterColon(path)
           w == ResolveAmigaPath(start, path, by, id)
<1>1. CASE "/" \in ToSet(q)
  <2>1. ResolveUncached(start, path, by, id) = FromWalk(w)
    BY <1>1 DEF ResolveUncached
  <2>2. Standing(w)
    BY WalkSound
  <2> HIDE DEF w
  <2>3. CASE w.err # "ok"
    BY <2>1, <2>3, NotFoundIs DEF FromWalk
  <2>4. CASE w.err = "ok"
    BY <2>1, <2>2, <2>4 DEF FromWalk, Found, Standing, Resolved
  <2> QED BY <2>3, <2>4
<1>2. CASE "/" \notin ToSet(q) /\ q = <<>>
  BY <1>2, StartSound DEF ResolveUncached
<1>3. CASE "/" \notin ToSet(q) /\ q # <<>>
  BY <1>3, FromLookupSound DEF ResolveUncached
<1> QED BY <1>1, <1>2, <1>3

\* resolve_object_into_entry(): whatever is cached and whatever is remembered of
\* the ancestors of the start, what it puts into the entry has its own.
THEOREM ResolutionSound ==
  ASSUME NEW start, IsStart(start), NEW S, NEW path \in Seq(S), NEW by \in Resolvers,
         NEW id \in Ids, NEW cached
  PROVE  Resolved(ResolveIntoEntry(start, path, cached, by, id))
<1> DEFINE q == AfterColon(path)
           dir == start.node.at
           meta == MetaLookupPath(cached, dir, q)
<1>1. q \in Seq(S) /\ dir \in Places
  BY AfterColonSeq, FixedNodes DEF IsStart
<1>2. \/ ResolveIntoEntry(start, path, cached, by, id) = ResolveUncached(start, path, by, id)
      \/ /\ q # <<>>
         /\ ResolveIntoEntry(start, path, cached, by, id) =
              ResolveAfterMeta(meta, start, path, by, id)
  BY DEF ResolveIntoEntry
<1>3. ASSUME q # <<>>, meta.err = "ok"
      PROVE  Resolved(FromRing(start, meta.ring, id))
  <2> HIDE DEF q, dir
  <2>1. IsPathBelow(dir, meta.ring)
    BY <1>1, <1>3, RingSound
  <2> HIDE DEF meta
  <2> QED BY <2>1, FromRingSound DEF dir
<1>4. ASSUME q # <<>>
      PROVE  Resolved(ResolveAfterMeta(meta, start, path, by, id))
  <2> HIDE DEF meta, q
  <2> QED BY <1>3, <1>4, NotFoundIs, UncachedSound DEF ResolveAfterMeta
<1> QED BY <1>2, <1>4, UncachedSound

\* resolve_parent_with_cache(): the parent has its own ancestors too.
THEOREM ParentSound ==
  ASSUME NEW start, IsStart(start), NEW by \in Resolvers, NEW id \in Ids
  PROVE  Resolved(ResolveParentWithCache(start, by, id))
<1>1. start.parent.at \in Places /\ start.parent \in Node
  BY FixedNodes DEF IsStart
<1>2. CASE Same(start.parent, Root) \/ Same(start.parent, CddaRoot)
  <2>1. Parent[start.parent.at] = Root /\ Parent[Parent[start.parent.at]] = Root
    BY <1>1, <1>2, TopParent
  <2> QED BY <1>1, <1>2, <2>1, FixedNodes DEF ResolveParentWithCache, Found, Resolved
<1>3. CASE ~(Same(start.parent, Root) \/ Same(start.parent, CddaRoot)) /\ start.has
  <2>1. start.grand \in Node /\ start.grand.at = Parent[start.parent.at]
    BY <1>3 DEF IsStart, TrueAncestry
  <2>2. CASE Same(start.grand, Root)
    <3>1. Parent[start.grand.at] = Root
      BY <2>1, <2>2, TopParent
    <3> QED BY <1>1, <1>3, <2>1, <2>2, <3>1, FixedNodes
        DEF ResolveParentWithCache, Found, Resolved
  <2>3. CASE ~Same(start.grand, Root)
    BY <1>1, <1>3, <2>1, <2>3 DEF ResolveParentWithCache, Found, Resolved
  <2> QED BY <2>2, <2>3
<1>4. CASE ~(Same(start.parent, Root) \/ Same(start.parent, CddaRoot)) /\ ~start.has
  <2> DEFINE r == ResolveParent(start.parent.at, by, id)
  <2>1. ResolveParentWithCache(start, by, id) = ParentResolved(start, r)
    BY <1>4 DEF ResolveParentWithCache
  <2>2. CASE r.err # "ok"
    BY <2>1, <2>2, NotFoundIs DEF ParentResolved
  <2>3. CASE r.err = "ok"
    <3>1. r.parent \in Node /\ r.grand \in Node /\ r.parent.at = Parent[start.parent.at]
          /\ r.grand.at = Parent[Parent[start.parent.at]]
      BY <1>1, <2>3, ParentResolution
    <3> HIDE DEF r
    <3> QED BY <1>1, <2>1, <2>3, <3>1 DEF ParentResolved, Found, Resolved
  <2> QED BY <2>2, <2>3
<1> QED BY <1>2, <1>3, <1>4

-----------------------------------------------------------------------------
(* Pools.                                                                  *)

\* A free list holds slots nobody uses, each once.
Pool(pool, slots, used) ==
  /\ pool \in Seq(slots) /\ IsInjective(pool)
  /\ \A i \in DOMAIN pool : pool[i] \notin used

\* ToSet, element by element.
LEMMA InToSet ==
  ASSUME NEW s, NEW x
  PROVE  x \in ToSet(s) <=> \E i \in DOMAIN s : s[i] = x
BY DEF ToSet

\* What pool_pop() and the heap give: a slot that was free, once.
LEMMA Allocated ==
  ASSUME NEW slots, slots \subseteq Nat, Null \notin slots, NEW used, NEW pool, NEW heap,
         Pool(pool, slots, used), heap \subseteq slots,
         NEW a \in Allocations(pool, heap), a.slot # Null
  PROVE  /\ a.slot \in ToSet(pool) \cup heap /\ a.slot \in slots
         /\ Pool(a.pool, slots, used \cup {a.slot})
         /\ a.heap \subseteq slots
         /\ ToSet(pool) \cap heap = {} =>
              /\ ToSet(a.pool) \cup a.heap = (ToSet(pool) \cup heap) \ {a.slot}
              /\ ToSet(a.pool) \cap a.heap = {}
<1>1. CASE pool # <<>>
  <2>1. a.slot = pool[1] /\ a.pool = Tail(pool) /\ a.heap = heap
    BY <1>1 DEF Allocations, Pool
  <2> DEFINE n == Len(pool)
  <2>2. n \in Nat \ {0} /\ DOMAIN pool = 1..n /\ 1 \in DOMAIN pool /\ pool \in Seq(slots)
    BY <1>1 DEF Pool
  <2>3. a.pool \in Seq(slots) /\ Len(a.pool) = n - 1
        /\ \A i \in 1..(n - 1) : a.pool[i] = pool[i + 1]
    BY <1>1, <2>1, <2>2, HeadTailProperties
  <2> HIDE DEF n
  <2>4. DOMAIN a.pool = 1..(n - 1)
    <3>1. DOMAIN a.pool = 1..Len(a.pool)
      BY <2>3
    <3> QED BY <2>3, <3>1, Zenon
  <2>5. \A i, j \in DOMAIN pool : pool[i] = pool[j] => i = j
    BY DEF Pool, IsInjective
  <2>6. IsInjective(a.pool)
    <3>1. ASSUME NEW i \in DOMAIN a.pool, NEW j \in DOMAIN a.pool, a.pool[i] = a.pool[j]
          PROVE  i = j
      <4>1. i \in 1..(n - 1) /\ j \in 1..(n - 1) /\ i + 1 \in DOMAIN pool /\ j + 1 \in DOMAIN pool
        BY <2>2, <2>4
      <4>2. pool[i + 1] = pool[j + 1]
        BY <2>3, <3>1, <4>1
      <4>3. i + 1 = j + 1
        BY <2>5, <4>1, <4>2
      <4> QED BY <4>1, <4>3, <2>2
    <3> QED BY <3>1 DEF IsInjective
  <2>7. \A i \in DOMAIN a.pool : a.pool[i] \notin used \cup {a.slot} /\ a.pool[i] \in ToSet(pool)
    <3> TAKE i \in DOMAIN a.pool
    <3>1. i + 1 \in DOMAIN pool /\ i + 1 # 1 /\ a.pool[i] = pool[i + 1]
      BY <2>2, <2>3, <2>4, SMTT(40)
    <3> QED BY <3>1, <2>1, <2>2, <2>5, InToSet DEF Pool
  <2>8. \A i \in DOMAIN pool : pool[i] = a.slot \/ pool[i] \in ToSet(a.pool)
    <3> TAKE i \in DOMAIN pool
    <3>1. CASE i = 1
      BY <2>1, <3>1
    <3>2. CASE i # 1
      <4>1. i - 1 \in DOMAIN a.pool /\ a.pool[i - 1] = pool[i]
        BY <2>2, <2>3, <2>4, <3>2
      <4> QED BY <4>1, InToSet
    <3> QED BY <3>1, <3>2
  <2>9. a.slot \in ToSet(pool) /\ a.slot \in slots /\ a.slot # Null
    BY <2>1, <2>2, InToSet
  <2>10. ToSet(a.pool) = ToSet(pool) \ {a.slot}
    <3>1. \A x \in ToSet(a.pool) : x \in ToSet(pool) /\ x # a.slot
      BY <2>7, InToSet
    <3>2. \A x \in ToSet(pool) : x # a.slot => x \in ToSet(a.pool)
      BY <2>8, InToSet
    <3> QED BY <3>1, <3>2
  <2>11. Pool(a.pool, slots, used \cup {a.slot})
    BY <2>3, <2>6, <2>7 DEF Pool
  <2> QED BY <2>1, <2>9, <2>10, <2>11
<1>2. CASE pool = <<>>
  <2>1. heap # {} /\ a = [slot |-> Min(heap), pool |-> <<>>, heap |-> heap \ {Min(heap)}]
    BY <1>2 DEF Allocations
  <2>2. Min(heap) \in heap
    BY <2>1, MinIn
  <2>3. Pool(<<>>, slots, used \cup {a.slot}) /\ ToSet(<<>>) = {}
    BY DEF Pool, ToSet, IsInjective
  <2> QED BY <1>2, <2>1, <2>2, <2>3
<1> QED BY <1>1, <1>2

\* If they give none, nothing changes.
LEMMA NotAllocated ==
  ASSUME NEW slots, slots \subseteq Nat, Null \notin slots, NEW used, NEW pool, NEW heap,
         Pool(pool, slots, used), heap \subseteq slots,
         NEW a \in Allocations(pool, heap), a.slot = Null
  PROVE  a.pool = pool
<1>1. CASE pool # <<>>
  <2>1. a.slot = pool[1] /\ pool[1] \in slots
    BY <1>1 DEF Allocations, Pool
  <2> QED BY <2>1
<1>2. CASE pool = <<>>
  BY <1>2 DEF Allocations
<1> QED BY <1>1, <1>2

\* Giving a slot back.
LEMMA GivenBack ==
  ASSUME NEW slots, NEW used, NEW pool, Pool(pool, slots, used), NEW x \in slots, x \in used,
         NEW left, left \subseteq used \ {x}
  PROVE  Pool(<<x>> \o pool, slots, left) /\ ToSet(<<x>> \o pool) = ToSet(pool) \cup {x}
<1> DEFINE new == <<x>> \o pool
<1>1. pool \in Seq(slots) /\ Len(pool) \in Nat /\ DOMAIN pool = 1..Len(pool)
  BY DEF Pool
<1>2. new \in Seq(slots) /\ Len(new) = Len(pool) + 1 /\ new[1] = x
      /\ \A i \in 1..Len(pool) : new[i + 1] = pool[i]
  BY <1>1
<1> HIDE DEF new
<1>3. DOMAIN new = 1..(Len(pool) + 1)
  BY <1>2
<1>4. \A i \in DOMAIN new : i = 1 \/ (i - 1 \in DOMAIN pool /\ new[i] = pool[i - 1])
  <2> TAKE i \in DOMAIN new
  <2>1. i = 1 \/ (i - 1 \in 1..Len(pool) /\ (i - 1) + 1 = i)
    BY <1>1, <1>3
  <2> QED BY <1>1, <1>2, <2>1
<1>5. \A i \in DOMAIN pool : pool[i] \notin used
  BY DEF Pool
<1>6. \A i \in DOMAIN new : new[i] \notin left
  BY <1>2, <1>4, <1>5
<1>7. IsInjective(new)
  <2>1. \A i, j \in DOMAIN pool : pool[i] = pool[j] => i = j
    BY DEF Pool, IsInjective
  <2>2. ASSUME NEW i \in DOMAIN new, NEW j \in DOMAIN new, new[i] = new[j]
        PROVE  i = j
    <3>1. CASE i = 1 /\ j = 1
      BY <3>1
    <3>2. CASE i # 1 /\ j # 1
      <4>1. i - 1 = j - 1
        BY <1>4, <2>1, <2>2, <3>2
      <4> QED BY <4>1, <1>1, <1>3
    <3>3. CASE (i = 1) # (j = 1)
      BY <1>2, <1>4, <1>5, <2>2, <3>3
    <3> QED BY <3>1, <3>2, <3>3
  <2> QED BY <2>2 DEF IsInjective
<1>8. \A y : y \in ToSet(new) <=> y = x \/ y \in ToSet(pool)
  <2> TAKE y
  <2>1. y \in ToSet(new) => y = x \/ y \in ToSet(pool)
    BY <1>2, <1>4, InToSet
  <2>2. x \in ToSet(new)
    BY <1>2, <1>3, <1>1, InToSet
  <2>3. ASSUME y \in ToSet(pool)
        PROVE  y \in ToSet(new)
    <3>1. PICK i \in DOMAIN pool : pool[i] = y
      BY <2>3, InToSet
    <3>2. i + 1 \in DOMAIN new /\ new[i + 1] = y
      BY <1>1, <1>2, <1>3, <3>1
    <3> QED BY <3>2, InToSet
  <2> QED BY <2>1, <2>2, <2>3
<1> QED BY <1>2, <1>6, <1>7, <1>8 DEF Pool, new

-----------------------------------------------------------------------------
(* Counting references.                                                    *)

\* How many of S a map sends to x.
Count(m, S, x) == Cardinality({s \in S : m[s] = x})

\* Two maps agree except on k.
AgreeBut(m, m2, S, k) == k \in S /\ \A s \in S \ {k} : m2[s] = m[s]

\* Where two maps differ only in k and the first does not send k to x.
LEMMA CountChanged ==
  ASSUME NEW S, IsFiniteSet(S), NEW m, NEW m2, NEW k, AgreeBut(m, m2, S, k),
         NEW x, x # m[k]
  PROVE  Count(m2, S, x) = Count(m, S, x) + (IF x = m2[k] THEN 1 ELSE 0)
<1> DEFINE A == {s \in S : m[s] = x}
           B == {s \in S : m2[s] = x}
<1> USE DEF AgreeBut
<1>1. IsFiniteSet(A) /\ k \notin A
  BY FS_Subset
<1>2. Cardinality(A) \in Nat
  BY <1>1, FS_CardinalityType
<1>a. Count(m, S, x) = Cardinality(A) /\ Count(m2, S, x) = Cardinality(B)
  BY DEF Count
<1>3. CASE x = m2[k]
  <2>1. B = A \cup {k}
    BY <1>3
  <2> HIDE DEF A, B
  <2>2. Cardinality(B) = Cardinality(A) + 1
    BY <1>1, <2>1, FS_AddElement
  <2> QED BY <1>3, <1>a, <2>2
<1>4. CASE x # m2[k]
  <2>1. B = A
    BY <1>4
  <2> HIDE DEF A, B
  <2> QED BY <1>2, <1>4, <1>a, <2>1
<1> QED BY <1>3, <1>4

\* Counts are naturals, and 0 says that nothing is sent there.
LEMMA CountType ==
  ASSUME NEW S, IsFiniteSet(S), NEW m, NEW x
  PROVE  /\ Count(m, S, x) \in Nat
         /\ Count(m, S, x) = 0 <=> \A s \in S : m[s] # x
<1> DEFINE A == {s \in S : m[s] = x}
<1>1. IsFiniteSet(A)
  BY FS_Subset
<1>2. Cardinality(A) \in Nat /\ (Cardinality(A) = 0 <=> A = {})
  BY <1>1, FS_CardinalityType, FS_EmptySet
<1> QED BY <1>2 DEF Count

-----------------------------------------------------------------------------
(* Entries, and the locks and handles that refer to them.                  *)

Entry == [refs : Nat, vol : Volumes \cup {Null}, node : Node, parent : Node, grand : Node,
          has : BOOLEAN]

\* The volumes of what a map sends its arguments to.
VolOf(m, S, es) == [s \in S |-> IF m[s] = Null THEN Null ELSE es[m[s]].vol]

\* References and volumes are counted, except one reference to the entry pend
\* (Null for none) that a packet holds for now.  The maps m and k are the locks
\* and the handles, or the other way round.
Refs(es, m, S, k, T, os, pend) ==
  /\ \A e \in EntrySlots :
       es[e].refs = Count(m, S, e) + Count(k, T, e) + (IF e = pend THEN 1 ELSE 0)
  /\ \A v \in Volumes :
       os[v] = Count(VolOf(m, S, es), S, v) + Count(VolOf(k, T, es), T, v)
  /\ \A e \in EntrySlots : es[e].refs > 0 => es[e].vol \in Volumes
Maps(m, S, k, T) ==
  /\ IsFiniteSet(S) /\ m \in [S -> EntrySlots \cup {Null}]
  /\ IsFiniteSet(T) /\ k \in [T -> EntrySlots \cup {Null}]

\* The two maps may change places.
LEMMA RefsSwap ==
  ASSUME NEW es, NEW m, NEW S, NEW k, NEW T, NEW os, NEW pend, Maps(m, S, k, T),
         Refs(es, m, S, k, T, os, pend)
  PROVE  Refs(es, k, T, m, S, os, pend) /\ Maps(k, T, m, S)
<1>1. \A x : Count(m, S, x) \in Nat /\ Count(k, T, x) \in Nat
  BY CountType DEF Maps
<1>2. \A x : /\ Count(VolOf(m, S, es), S, x) \in Nat
             /\ Count(VolOf(k, T, es), T, x) \in Nat
  BY CountType DEF Maps
<1>3. Maps(k, T, m, S)
  BY DEF Maps
<1>4. \A e \in EntrySlots :
        es[e].refs = Count(k, T, e) + Count(m, S, e) + (IF e = pend THEN 1 ELSE 0)
  BY <1>1 DEF Refs
<1>5. \A v \in Volumes :
        os[v] = Count(VolOf(k, T, es), T, v) + Count(VolOf(m, S, es), S, v)
  BY <1>2 DEF Refs
<1> QED BY <1>3, <1>4, <1>5 DEF Refs

\* Null is neither an entry nor a volume.
LEMMA NullIsNone ==
  Null \notin EntrySlots /\ Null \notin Volumes /\ Null \notin LockSlots /\ Null \notin FhSlots
BY ObjectsAssumption DEF Volumes

\* An object takes over the reference a packet held.
LEMMA Taken ==
  ASSUME NEW es \in [EntrySlots -> Entry], NEW m, NEW S, NEW k, NEW T,
         NEW os \in [Volumes -> Nat], NEW e \in EntrySlots, Maps(m, S, k, T),
         Refs(es, m, S, k, T, os, e), NEW s \in S, m[s] = Null,
         NEW m2, Maps(m2, S, k, T), AgreeBut(m, m2, S, s), m2[s] = e,
         NEW os2, os2 = [os EXCEPT ![es[e].vol] = @ + 1]
  PROVE  /\ Refs(es, m2, S, k, T, os2, Null) /\ os2 \in [Volumes -> Nat]
         /\ es[e].vol \in Volumes
<1> DEFINE v0 == es[e].vol
           vm == VolOf(m, S, es)
           vm2 == VolOf(m2, S, es)
<1>1. m \in [S -> EntrySlots \cup {Null}] /\ IsFiniteSet(S) /\ IsFiniteSet(T)
  BY DEF Maps
<1>2. /\ \A x : Count(m, S, x) \in Nat /\ Count(k, T, x) \in Nat
      /\ \A v : Count(vm, S, v) \in Nat /\ Count(VolOf(k, T, es), T, v) \in Nat
  BY CountType, <1>1
<1>3. v0 \in Volumes
  <2>1. es[e].refs > 0
    BY <1>2 DEF Refs
  <2> QED BY <2>1 DEF Refs
<1>4. os2 \in [Volumes -> Nat]
  BY <1>3
<1>5. m2[s] = e /\ AgreeBut(m, m2, S, s)
  OBVIOUS
<1>6. vm[s] = Null /\ vm2[s] = v0 /\ AgreeBut(vm, vm2, S, s)
  BY <1>5, NullIsNone DEF VolOf, AgreeBut
<1> HIDE DEF vm, vm2
<1> HIDE DEF v0
<1>7. \A x \in EntrySlots : Count(m2, S, x) = Count(m, S, x) + (IF x = e THEN 1 ELSE 0)
  <2> TAKE x \in EntrySlots
  <2>1. Count(m2, S, x) = Count(m, S, x) + (IF x = m2[s] THEN 1 ELSE 0)
    <3>1. x # m[s]
      BY NullIsNone
    <3> QED BY <1>1, <1>5, <3>1, CountChanged
  <2> QED BY <1>5, <2>1
<1>8. \A v \in Volumes : Count(vm2, S, v) = Count(vm, S, v) + (IF v = v0 THEN 1 ELSE 0)
  <2> TAKE v \in Volumes
  <2>1. Count(vm2, S, v) = Count(vm, S, v) + (IF v = vm2[s] THEN 1 ELSE 0)
    <3>1. v # vm[s]
      BY <1>6, NullIsNone
    <3> QED BY <1>1, <1>6, <3>1, CountChanged
  <2> QED BY <1>6, <2>1
<1>9. \A x \in EntrySlots :
        es[x].refs = Count(m2, S, x) + Count(k, T, x) + (IF x = Null THEN 1 ELSE 0)
  <2> TAKE x \in EntrySlots
  <2>1. es[x].refs = Count(m, S, x) + Count(k, T, x) + (IF x = e THEN 1 ELSE 0)
    BY DEF Refs
  <2>2. Count(m2, S, x) = Count(m, S, x) + (IF x = e THEN 1 ELSE 0) /\ x # Null
    BY <1>7, NullIsNone
  <2> QED BY <1>2, <2>1, <2>2
<1>10. ASSUME NEW v \in Volumes
       PROVE  os2[v] = Count(vm2, S, v) + Count(VolOf(k, T, es), T, v)
  <2>1. os[v] = Count(vm, S, v) + Count(VolOf(k, T, es), T, v)
    BY DEF Refs, vm
  <2>2. os2[v] = os[v] + (IF v = v0 THEN 1 ELSE 0)
    BY <1>3 DEF v0
  <2> QED BY <2>1, <2>2, <1>2, <1>8
<1>11. Refs(es, m2, S, k, T, os2, Null)
  BY <1>9, <1>10 DEF Refs, vm2
<1> QED BY <1>3, <1>4, <1>11 DEF v0

\* An object gives up its reference, which the packet holds from then on.
LEMMA Dropped ==
  ASSUME NEW es \in [EntrySlots -> Entry], NEW m, NEW S, NEW k, NEW T,
         NEW os \in [Volumes -> Nat], Maps(m, S, k, T),
         Refs(es, m, S, k, T, os, Null), NEW s \in S, m[s] # Null,
         NEW m2, Maps(m2, S, k, T), AgreeBut(m2, m, S, s), m2[s] = Null,
         NEW os2, os2 = ReleaseVolumeObject(os, es[m[s]].vol)
  PROVE  /\ Refs(es, m2, S, k, T, os2, m[s]) /\ os2 \in [Volumes -> Nat]
         /\ m[s] \in EntrySlots /\ es[m[s]].vol \in Volumes
<1> DEFINE e == m[s]
           v0 == es[e].vol
           vm == VolOf(m, S, es)
           vm2 == VolOf(m2, S, es)
<1>1. m \in [S -> EntrySlots \cup {Null}] /\ IsFiniteSet(S) /\ IsFiniteSet(T) /\ e \in EntrySlots
  BY DEF Maps
<1>2. /\ \A x : Count(m, S, x) \in Nat /\ Count(m2, S, x) \in Nat /\ Count(k, T, x) \in Nat
      /\ \A v : Count(vm2, S, v) \in Nat /\ Count(VolOf(k, T, es), T, v) \in Nat
  BY CountType, <1>1
<1>5. m2[s] = Null /\ AgreeBut(m2, m, S, s)
  OBVIOUS
<1>6. vm2[s] = Null /\ vm[s] = v0 /\ AgreeBut(vm2, vm, S, s)
  BY <1>5, NullIsNone DEF VolOf, AgreeBut
<1> HIDE DEF v0, vm, vm2
<1>7. \A x \in EntrySlots : Count(m, S, x) = Count(m2, S, x) + (IF x = e THEN 1 ELSE 0)
  <2> TAKE x \in EntrySlots
  <2>1. x # m2[s]
    BY <1>5, NullIsNone
  <2> QED BY <1>1, <1>5, <2>1, CountChanged
<1>3. v0 \in Volumes
  <2>1. es[e].refs > 0
    <3>1. es[e].refs = Count(m, S, e) + Count(k, T, e)
      BY <1>1, <1>2, NullIsNone DEF Refs
    <3>2. Count(m, S, e) = Count(m2, S, e) + 1
      BY <1>1, <1>7
    <3>3. Count(m2, S, e) \in Nat /\ Count(k, T, e) \in Nat
      BY <1>2
    <3> HIDE DEF e
    <3> QED BY <3>1, <3>2, <3>3
  <2> QED BY <1>1, <2>1 DEF Refs, v0
<1>8. \A v \in Volumes : Count(vm, S, v) = Count(vm2, S, v) + (IF v = v0 THEN 1 ELSE 0)
  <2> TAKE v \in Volumes
  <2>1. v # vm2[s]
    BY <1>6, NullIsNone
  <2>2. Count(vm, S, v) = Count(vm2, S, v) + (IF v = vm[s] THEN 1 ELSE 0)
    BY <1>1, <1>6, <2>1, CountChanged
  <2> QED BY <1>6, <2>2
<1>9. \A x \in EntrySlots :
        es[x].refs = Count(m2, S, x) + Count(k, T, x) + (IF x = e THEN 1 ELSE 0)
  <2> TAKE x \in EntrySlots
  <2>1. es[x].refs = Count(m, S, x) + Count(k, T, x)
    BY <1>1, <1>2, NullIsNone DEF Refs
  <2>2. Count(m, S, x) = Count(m2, S, x) + (IF x = e THEN 1 ELSE 0)
    BY <1>7
  <2>3. Count(m2, S, x) \in Nat /\ Count(k, T, x) \in Nat
    BY <1>2
  <2> HIDE DEF e
  <2> QED BY <2>1, <2>2, <2>3
<1>10. ASSUME NEW v \in Volumes
       PROVE  os2[v] = Count(vm2, S, v) + Count(VolOf(k, T, es), T, v)
  <2>1. os[v] = Count(vm, S, v) + Count(VolOf(k, T, es), T, v)
    BY DEF Refs, vm
  <2>2. os2[v] = IF v = v0 /\ os[v] # 0 THEN os[v] - 1 ELSE os[v]
    BY <1>3 DEF ReleaseVolumeObject, v0
  <2> QED BY <2>1, <2>2, <1>2, <1>8
<1>12. os2 \in [Volumes -> Nat]
  BY <1>3 DEF ReleaseVolumeObject, v0
<1> HIDE DEF e
<1>11. Refs(es, m2, S, k, T, os2, e)
  BY <1>9, <1>10 DEF Refs, vm2
<1> QED BY <1>1, <1>3, <1>11, <1>12 DEF e, v0

\* Every entry is used, in the pool or not allocated.
Parted(es, pool, heap) ==
  /\ pool \in Seq(EntrySlots) /\ IsInjective(pool) /\ heap \subseteq EntrySlots
  /\ ToSet(pool) \cap heap = {}
  /\ \A e \in EntrySlots : es[e].refs = 0 <=> e \in ToSet(pool) \cup heap
AllStarts(es) == \A e \in EntrySlots : IsStart(es[e])

\* An entry nobody uses.
LEMMA NoEntryIs ==
  NoEntry \in Entry /\ NoEntry.refs = 0 /\ IsStart(NoEntry)
<1>1. RootNode \in Node /\ RootNode.at = Root /\ Parent[Root] = Root
  BY FixedNodes, TreeAssumption
<1>2. NoEntry \in Entry /\ NoEntry.refs = 0
  BY <1>1 DEF NoEntry, Entry
<1>3. IsStart(NoEntry)
  BY <1>1 DEF NoEntry, IsStart, TrueAncestry
<1> QED BY <1>2, <1>3

\* release_entry() of the reference a packet holds: the last one returns the
\* entry to the pool.
LEMMA Released ==
  ASSUME NEW es \in [EntrySlots -> Entry], AllStarts(es), NEW m, NEW S, NEW k, NEW T, NEW os,
         NEW e \in EntrySlots, Maps(m, S, k, T), Refs(es, m, S, k, T, os, e),
         NEW pool, NEW heap, Parted(es, pool, heap)
  PROVE  LET r == ReleaseEntry(es, pool, e)
         IN  /\ r.entries \in [EntrySlots -> Entry] /\ AllStarts(r.entries)
             /\ Refs(r.entries, m, S, k, T, os, Null) /\ Parted(r.entries, r.pool, heap)
             /\ VolOf(m, S, r.entries) = VolOf(m, S, es)
             /\ VolOf(k, T, r.entries) = VolOf(k, T, es)
<1> DEFINE r == ReleaseEntry(es, pool, e)
<1>1. /\ m \in [S -> EntrySlots \cup {Null}] /\ k \in [T -> EntrySlots \cup {Null}]
      /\ IsFiniteSet(S) /\ IsFiniteSet(T)
  BY DEF Maps
<1>2. \A x : Count(m, S, x) \in Nat /\ Count(k, T, x) \in Nat
  BY CountType, <1>1
<1>3. \A x \in EntrySlots :
        es[x].refs = Count(m, S, x) + Count(k, T, x) + (IF x = e THEN 1 ELSE 0)
  BY DEF Refs
<1>4. es[e] \in Entry /\ es[e].refs \in Nat /\ es[e].refs > 0
  BY <1>2, <1>3 DEF Entry
<1>5. e \notin ToSet(pool) \cup heap
  BY <1>4 DEF Parted
<1>6. CASE es[e].refs > 1
  <2> DEFINE es2 == [es EXCEPT ![e].refs = @ - 1]
  <2>1. r = [entries |-> es2, pool |-> pool]
    BY <1>6 DEF ReleaseEntry
  <2>2. /\ es2[e].refs = es[e].refs - 1 /\ es2[e].vol = es[e].vol
        /\ \A x \in EntrySlots \ {e} : es2[x] = es[x]
    BY <1>4 DEF Entry
  <2>3. es2 \in [EntrySlots -> Entry]
    BY <1>4, <1>6 DEF Entry
  <2>4. AllStarts(es2)
    <3>1. es2[e] = [es[e] EXCEPT !.refs = @ - 1]
      OBVIOUS
    <3>2. IsStart(es2[e])
      BY <1>4, <3>1 DEF AllStarts, IsStart, TrueAncestry, Entry
    <3> QED BY <2>2, <3>2 DEF AllStarts
  <2> HIDE DEF es2
  <2>5. \A x \in EntrySlots : es2[x].vol = es[x].vol
    BY <2>2
  <2>6. VolOf(m, S, es2) = VolOf(m, S, es) /\ VolOf(k, T, es2) = VolOf(k, T, es)
    BY <1>1, <2>5 DEF VolOf
  <2>7. \A x \in EntrySlots :
          es2[x].refs = Count(m, S, x) + Count(k, T, x) + (IF x = Null THEN 1 ELSE 0)
    <3> TAKE x \in EntrySlots
    <3>1. CASE x = e
      BY <1>2, <1>3, <2>2, <3>1, NullIsNone
    <3>2. CASE x # e
      BY <1>2, <1>3, <2>2, <3>2, NullIsNone
    <3> QED BY <3>1, <3>2
  <2>8. \A x \in EntrySlots : es2[x].refs > 0 => es2[x].vol \in Volumes
    BY <2>2, <1>4 DEF Refs
  <2>9. Refs(es2, m, S, k, T, os, Null)
    BY <2>6, <2>7, <2>8 DEF Refs
  <2>10. Parted(es2, pool, heap)
    <3>1. \A x \in EntrySlots : es2[x].refs = 0 <=> es[x].refs = 0
      BY <1>4, <1>6, <2>2
    <3> QED BY <3>1 DEF Parted
  <2> QED BY <2>1, <2>3, <2>4, <2>6, <2>9, <2>10
<1>7. CASE ~(es[e].refs > 1)
  <2> DEFINE es2 == [es EXCEPT ![e] = NoEntry]
  <2>1. r = [entries |-> es2, pool |-> <<e>> \o pool]
    BY <1>7 DEF ReleaseEntry
  <2>2. es2[e] = NoEntry /\ \A x \in EntrySlots \ {e} : es2[x] = es[x]
    OBVIOUS
  <2>3. es2 \in [EntrySlots -> Entry] /\ AllStarts(es2)
    BY NoEntryIs DEF AllStarts
  <2> HIDE DEF es2
  <2>4. es[e].refs = 1 /\ Count(m, S, e) = 0 /\ Count(k, T, e) = 0
    <3>1. es[e].refs = 1
      BY <1>4, <1>7
    <3>2. es[e].refs = Count(m, S, e) + Count(k, T, e) + 1
      BY <1>3
    <3> QED BY <1>2, <3>1, <3>2
  <2>5. (\A s \in S : m[s] # e) /\ (\A s \in T : k[s] # e)
    BY <1>1, <2>4, CountType
  <2>6. VolOf(m, S, es2) = VolOf(m, S, es) /\ VolOf(k, T, es2) = VolOf(k, T, es)
    BY <1>1, <2>2, <2>5 DEF VolOf
  <2>7. \A x \in EntrySlots :
          es2[x].refs = Count(m, S, x) + Count(k, T, x) + (IF x = Null THEN 1 ELSE 0)
    <3> TAKE x \in EntrySlots
    <3>1. CASE x = e
      BY <2>2, <2>4, <3>1, NullIsNone, NoEntryIs
    <3>2. CASE x # e
      BY <1>2, <1>3, <2>2, <3>2, NullIsNone
    <3> QED BY <3>1, <3>2
  <2>8. \A x \in EntrySlots : es2[x].refs > 0 => es2[x].vol \in Volumes
    BY <2>2, NoEntryIs DEF Refs
  <2>9. Refs(es2, m, S, k, T, os, Null)
    BY <2>6, <2>7, <2>8 DEF Refs
  <2>10. Parted(es2, <<e>> \o pool, heap)
    <3>1. Pool(pool, EntrySlots, {e})
      <4>1. \A i \in DOMAIN pool : pool[i] # e
        BY <1>5, InToSet
      <4> QED BY <4>1 DEF Pool, Parted
    <3>2. Pool(<<e>> \o pool, EntrySlots, {}) /\ ToSet(<<e>> \o pool) = ToSet(pool) \cup {e}
      BY <3>1, GivenBack
    <3>3. \A x \in EntrySlots : es2[x].refs = 0 <=> x \in ToSet(pool) \cup {e} \cup heap
      BY <2>2, NoEntryIs DEF Parted
    <3> HIDE DEF r
    <3> QED BY <1>5, <3>2, <3>3 DEF Parted, Pool
  <2> QED BY <2>1, <2>3, <2>6, <2>9, <2>10
<1> QED BY <1>6, <1>7

\* One more reference to an entry in use, held by the packet.
LEMMA Shared ==
  ASSUME NEW es \in [EntrySlots -> Entry], AllStarts(es), NEW m, NEW S, NEW k, NEW T, NEW os,
         NEW e \in EntrySlots, es[e].refs > 0, Maps(m, S, k, T), Refs(es, m, S, k, T, os, Null),
         NEW pool, NEW heap, Parted(es, pool, heap)
  PROVE  LET es2 == [es EXCEPT ![e].refs = @ + 1]
         IN  /\ es2 \in [EntrySlots -> Entry] /\ AllStarts(es2)
             /\ Refs(es2, m, S, k, T, os, e) /\ Parted(es2, pool, heap)
             /\ VolOf(m, S, es2) = VolOf(m, S, es) /\ VolOf(k, T, es2) = VolOf(k, T, es)
             /\ es2[e].vol = es[e].vol
<1> DEFINE es2 == [es EXCEPT ![e].refs = @ + 1]
<1>1. /\ m \in [S -> EntrySlots \cup {Null}] /\ k \in [T -> EntrySlots \cup {Null}]
      /\ IsFiniteSet(S) /\ IsFiniteSet(T)
  BY DEF Maps
<1>2. \A x : Count(m, S, x) \in Nat /\ Count(k, T, x) \in Nat
  BY CountType, <1>1
<1>3. \A x \in EntrySlots :
        es[x].refs = Count(m, S, x) + Count(k, T, x) + (IF x = Null THEN 1 ELSE 0)
  BY DEF Refs
<1>4. es[e] \in Entry /\ es[e].refs \in Nat
  BY DEF Entry
<1>5. /\ es2[e].refs = es[e].refs + 1 /\ es2[e].vol = es[e].vol
      /\ \A x \in EntrySlots \ {e} : es2[x] = es[x]
  BY <1>4 DEF Entry
<1>6. es2 \in [EntrySlots -> Entry]
  BY <1>4 DEF Entry
<1>7. AllStarts(es2)
  <2>1. es2[e] = [es[e] EXCEPT !.refs = @ + 1]
    OBVIOUS
  <2>2. IsStart(es2[e])
    BY <1>4, <2>1 DEF AllStarts, IsStart, TrueAncestry, Entry
  <2> QED BY <1>5, <2>2 DEF AllStarts
<1> HIDE DEF es2
<1>8. \A x \in EntrySlots : es2[x].vol = es[x].vol
  BY <1>5
<1>9. VolOf(m, S, es2) = VolOf(m, S, es) /\ VolOf(k, T, es2) = VolOf(k, T, es)
  BY <1>1, <1>8 DEF VolOf
<1>10. \A x \in EntrySlots :
         es2[x].refs = Count(m, S, x) + Count(k, T, x) + (IF x = e THEN 1 ELSE 0)
  <2> TAKE x \in EntrySlots
  <2>1. CASE x = e
    BY <1>2, <1>3, <1>5, <2>1, NullIsNone
  <2>2. CASE x # e
    BY <1>2, <1>3, <1>5, <2>2, NullIsNone
  <2> QED BY <2>1, <2>2
<1>11. \A x \in EntrySlots : es2[x].refs > 0 => es2[x].vol \in Volumes
  BY <1>5, <1>4 DEF Refs
<1>12. Refs(es2, m, S, k, T, os, e)
  BY <1>9, <1>10, <1>11 DEF Refs
<1>13. Parted(es2, pool, heap)
  <2>1. \A x \in EntrySlots : es2[x].refs = 0 <=> es[x].refs = 0
    BY <1>4, <1>5
  <2> QED BY <2>1 DEF Parted
<1> QED BY <1>5, <1>6, <1>7, <1>9, <1>12, <1>13 DEF es2

\* A blank entry.
LEMMA EntryTaken ==
  ASSUME NEW es, NEW pool, NEW heap, Parted(es, pool, heap),
         NEW a \in Allocations(pool, heap), a.slot # Null
  PROVE  /\ a.slot \in EntrySlots /\ es[a.slot].refs = 0
         /\ a.pool \in Seq(EntrySlots) /\ IsInjective(a.pool) /\ a.heap \subseteq EntrySlots
         /\ ToSet(a.pool) \cap a.heap = {}
         /\ \A y \in EntrySlots : es[y].refs = 0 /\ y # a.slot <=> y \in ToSet(a.pool) \cup a.heap
         /\ Parted(es, <<a.slot>> \o a.pool, a.heap)
<1> DEFINE used == {y \in EntrySlots : es[y].refs # 0}
           e == a.slot
<1>1. Pool(pool, EntrySlots, used) /\ heap \subseteq EntrySlots /\ ToSet(pool) \cap heap = {}
  <2>1. \A i \in DOMAIN pool : pool[i] \notin used
    BY InToSet DEF Parted
  <2> QED BY <2>1 DEF Parted, Pool
<1>2. EntrySlots \subseteq Nat /\ Null \notin EntrySlots
  BY ObjectsAssumption
<1> HIDE DEF used
<1>3. /\ e \in ToSet(pool) \cup heap /\ e \in EntrySlots
      /\ Pool(a.pool, EntrySlots, used \cup {e})
      /\ a.heap \subseteq EntrySlots
      /\ ToSet(a.pool) \cup a.heap = (ToSet(pool) \cup heap) \ {e}
      /\ ToSet(a.pool) \cap a.heap = {}
  BY <1>1, <1>2, Allocated
<1>4. \A y \in EntrySlots : es[y].refs = 0 <=> y \in ToSet(pool) \cup heap
  BY DEF Parted
<1> HIDE DEF e
<1>5. Pool(<<e>> \o a.pool, EntrySlots, {}) /\ ToSet(<<e>> \o a.pool) = ToSet(a.pool) \cup {e}
  BY <1>3, GivenBack
<1>6. ToSet(a.pool) \cup {e} \cup a.heap = ToSet(pool) \cup heap
  BY <1>3
<1>7. e \notin a.heap
  BY <1>3
<1>8. Parted(es, <<e>> \o a.pool, a.heap)
  BY <1>3, <1>4, <1>5, <1>6, <1>7 DEF Parted, Pool
<1>9. a.pool \in Seq(EntrySlots) /\ IsInjective(a.pool)
  BY <1>3 DEF Pool
<1>10. \A y \in EntrySlots : es[y].refs = 0 /\ y # e <=> y \in ToSet(a.pool) \cup a.heap
  BY <1>3, <1>4
<1>11. es[e].refs = 0
  BY <1>3, <1>4
<1> QED BY <1>3, <1>8, <1>9, <1>10, <1>11 DEF e

\* A blank entry is filled in; the packet holds its first reference.
LEMMA Filled ==
  ASSUME NEW es \in [EntrySlots -> Entry], AllStarts(es), NEW m, NEW S, NEW k, NEW T, NEW os,
         Maps(m, S, k, T), Refs(es, m, S, k, T, os, Null),
         NEW e \in EntrySlots, es[e].refs = 0,
         NEW x \in Entry, IsStart(x), x.refs = 1, x.vol \in Volumes,
         NEW es2 \in [EntrySlots -> Entry], es2[e] = x, AgreeBut(es, es2, EntrySlots, e)
  PROVE  /\ AllStarts(es2) /\ Refs(es2, m, S, k, T, os, e)
         /\ VolOf(m, S, es2) = VolOf(m, S, es) /\ VolOf(k, T, es2) = VolOf(k, T, es)
<1>5. /\ m \in [S -> EntrySlots \cup {Null}] /\ k \in [T -> EntrySlots \cup {Null}]
      /\ IsFiniteSet(S) /\ IsFiniteSet(T)
  BY DEF Maps
<1>6. \A y : Count(m, S, y) \in Nat /\ Count(k, T, y) \in Nat
  BY CountType, <1>5
<1>7. \A y \in EntrySlots : es[y].refs = Count(m, S, y) + Count(k, T, y)
  BY <1>6, NullIsNone DEF Refs
<1>8. es2[e] = x /\ \A y \in EntrySlots \ {e} : es2[y] = es[y]
  BY DEF AgreeBut
<1>9. AllStarts(es2)
  BY <1>8 DEF AllStarts
<1>10. Count(m, S, e) = 0 /\ Count(k, T, e) = 0
  BY <1>6, <1>7
<1>11. (\A s \in S : m[s] # e) /\ (\A s \in T : k[s] # e)
  BY <1>5, <1>10, CountType
<1>12. VolOf(m, S, es2) = VolOf(m, S, es) /\ VolOf(k, T, es2) = VolOf(k, T, es)
  BY <1>5, <1>8, <1>11 DEF VolOf
<1>13. \A y \in EntrySlots :
         es2[y].refs = Count(m, S, y) + Count(k, T, y) + (IF y = e THEN 1 ELSE 0)
  <2> TAKE y \in EntrySlots
  <2>1. CASE y = e
    BY <1>8, <1>10, <2>1
  <2>2. CASE y # e
    BY <1>6, <1>7, <1>8, <2>2
  <2> QED BY <2>1, <2>2
<1>14. \A y \in EntrySlots : es2[y].refs > 0 => es2[y].vol \in Volumes
  BY <1>8 DEF Refs
<1>15. Refs(es2, m, S, k, T, os, e)
  BY <1>12, <1>13, <1>14 DEF Refs
<1> QED BY <1>9, <1>12, <1>15

-----------------------------------------------------------------------------
(* The locks of a volume.                                                  *)

Lock == [entry : EntrySlots \cup {Null}, prev : LockSlots \cup {Null}, next : LockSlots \cup {Null}]
EntryOf(ls) == [l \in LockSlots |-> ls[l].entry]

\* The sequence of a doubly linked list's members.
IsList(ls, first, mine, q) ==
  /\ q \in Seq(LockSlots) /\ IsInjective(q) /\ ToSet(q) = mine
  /\ first = IF q = <<>> THEN Null ELSE q[1]
  /\ \A i \in 1..Len(q) : ls[q[i]].next = IF i = Len(q) THEN Null ELSE q[i + 1]
  /\ \A i \in 1..Len(q) : ls[q[i]].prev = IF i = 1 THEN Null ELSE q[i - 1]
Mine(vm, v) == {l \in LockSlots : vm[l] = v}
Lists(ls, head, vm) == \A v \in Volumes : \E q : IsList(ls, head[v], Mine(vm, v), q)

\* What link_volume_lock() writes.
LEMMA LinkFields ==
  ASSUME NEW ls \in [LockSlots -> Lock], NEW head \in [Volumes -> LockSlots \cup {Null}],
         NEW v \in Volumes, NEW l \in LockSlots, NEW e \in EntrySlots, head[v] # l,
         NEW ls2, ls2 = LinkVolumeLock(ls, head, v, l, e)
  PROVE  /\ ls2 \in [LockSlots -> Lock]
         /\ ls2[l].entry = e /\ ls2[l].prev = Null /\ ls2[l].next = head[v]
         /\ \A x \in LockSlots \ {l} :
              /\ ls2[x].entry = ls[x].entry /\ ls2[x].next = ls[x].next
              /\ ls2[x].prev = IF x = head[v] THEN l ELSE ls[x].prev
<1> DEFINE linked == [ls EXCEPT ![l] = [entry |-> e, prev |-> Null, next |-> head[v]]]
<1>1. linked \in [LockSlots -> Lock]
  BY DEF Lock
<1>2. CASE head[v] = Null
  <2>1. ls2 = linked
    BY <1>2 DEF LinkVolumeLock
  <2> QED BY <1>1, <1>2, <2>1, NullIsNone
<1>3. CASE head[v] # Null
  <2>1. ls2 = [linked EXCEPT ![head[v]].prev = l] /\ head[v] \in LockSlots
    BY <1>3 DEF LinkVolumeLock
  <2> HIDE DEF linked
  <2>2. ls2 \in [LockSlots -> Lock]
    BY <1>1, <2>1 DEF Lock
  <2>3. /\ ls2[l] = linked[l]
        /\ \A x \in LockSlots : /\ ls2[x].entry = linked[x].entry /\ ls2[x].next = linked[x].next
                                 /\ ls2[x].prev = IF x = head[v] THEN l ELSE linked[x].prev
    BY <1>1, <2>1 DEF Lock
  <2> QED BY <2>2, <2>3 DEF linked
<1> QED BY <1>2, <1>3

\* What unlink_volume_lock() writes.
LEMMA UnlinkFields ==
  ASSUME NEW ls \in [LockSlots -> Lock], NEW l \in LockSlots,
         NEW ls2, ls2 = UnlinkVolumeLock(ls, l)
  PROVE  /\ ls2 \in [LockSlots -> Lock] /\ ls2[l] = NoLock
         /\ \A x \in LockSlots \ {l} :
              /\ ls2[x].entry = ls[x].entry
              /\ ls2[x].next = IF x = ls[l].prev THEN ls[l].next ELSE ls[x].next
              /\ ls2[x].prev = IF x = ls[l].next THEN ls[l].prev ELSE ls[x].prev
<1> DEFINE p == ls[l].prev
           n == ls[l].next
           a == IF p = Null THEN ls ELSE [ls EXCEPT ![p].next = n]
           b == IF n = Null THEN a ELSE [a EXCEPT ![n].prev = p]
<1>1. p \in LockSlots \cup {Null} /\ n \in LockSlots \cup {Null}
  BY DEF Lock
<1>2. ls2 = [b EXCEPT ![l] = NoLock]
  BY DEF UnlinkVolumeLock
<1> HIDE DEF p, n
<1>3. /\ a \in [LockSlots -> Lock]
      /\ \A x \in LockSlots : /\ a[x].entry = ls[x].entry /\ a[x].prev = ls[x].prev
                               /\ a[x].next = IF x = p THEN n ELSE ls[x].next
  BY <1>1, NullIsNone DEF Lock
<1> HIDE DEF a
<1>4. /\ b \in [LockSlots -> Lock]
      /\ \A x \in LockSlots : /\ b[x].entry = a[x].entry /\ b[x].next = a[x].next
                               /\ b[x].prev = IF x = n THEN p ELSE a[x].prev
  BY <1>1, <1>3, NullIsNone DEF Lock
<1> HIDE DEF b
<1>5. NoLock \in Lock
  BY DEF NoLock, Lock
<1> QED BY <1>2, <1>3, <1>4, <1>5 DEF p, n

\* A list none of whose members a change concerns.
LEMMA ListKept ==
  ASSUME NEW ls, NEW ls2, NEW first, NEW mine, NEW q, IsList(ls, first, mine, q),
         \A x \in mine : ls2[x].next = ls[x].next /\ ls2[x].prev = ls[x].prev
  PROVE  IsList(ls2, first, mine, q)
<1>1. \A i \in 1..Len(q) : q[i] \in mine
  BY InToSet DEF IsList
<1> QED BY <1>1 DEF IsList

\* The first of a list.
LEMMA FirstIsMember ==
  ASSUME NEW ls, NEW first, NEW mine, NEW q, IsList(ls, first, mine, q), first # Null
  PROVE  first \in mine /\ q # <<>>
<1>1. q # <<>> /\ first = q[1] /\ 1 \in DOMAIN q
  BY DEF IsList
<1> QED BY <1>1, InToSet DEF IsList

\* link_volume_lock(): the new lock comes first.
LEMMA Linked ==
  ASSUME NEW ls \in [LockSlots -> Lock], NEW head \in [Volumes -> LockSlots \cup {Null}],
         NEW vm, Lists(ls, head, vm), NEW v \in Volumes, NEW l \in LockSlots, vm[l] = Null,
         NEW e \in EntrySlots, NEW vm2, vm2[l] = v, AgreeBut(vm, vm2, LockSlots, l)
  PROVE  LET ls2 == LinkVolumeLock(ls, head, v, l, e)
         IN  /\ ls2 \in [LockSlots -> Lock] /\ ls2[l].entry = e
             /\ \A x \in LockSlots \ {l} : ls2[x].entry = ls[x].entry
             /\ Lists(ls2, [head EXCEPT ![v] = l], vm2)
<1> DEFINE ls2 == LinkVolumeLock(ls, head, v, l, e)
           head2 == [head EXCEPT ![v] = l]
<1>1. \A x \in LockSlots \ {l} : vm2[x] = vm[x]
  BY DEF AgreeBut
<1>2. PICK q : IsList(ls, head[v], Mine(vm, v), q)
  BY DEF Lists
<1>3. head[v] # Null => head[v] \in Mine(vm, v)
  BY <1>2, FirstIsMember
<1>4. head[v] # l
  BY <1>3, NullIsNone DEF Mine
<1>5. /\ ls2 \in [LockSlots -> Lock]
      /\ ls2[l].entry = e /\ ls2[l].prev = Null /\ ls2[l].next = head[v]
      /\ \A x \in LockSlots \ {l} :
           /\ ls2[x].entry = ls[x].entry /\ ls2[x].next = ls[x].next
           /\ ls2[x].prev = IF x = head[v] THEN l ELSE ls[x].prev
  BY <1>4, LinkFields
<1> HIDE DEF ls2
<1>6. ASSUME NEW w \in Volumes, w # v
      PROVE  \E t : IsList(ls2, head2[w], Mine(vm2, w), t)
  <2>1. Mine(vm2, w) = Mine(vm, w)
    BY <1>1, <1>6, NullIsNone DEF Mine
  <2>2. PICK t : IsList(ls, head[w], Mine(vm, w), t)
    BY DEF Lists
  <2>3. \A x \in Mine(vm, w) : x \in LockSlots \ {l} /\ x # head[v]
    BY <1>3, <1>6, NullIsNone DEF Mine
  <2>4. \A x \in Mine(vm, w) : ls2[x].next = ls[x].next /\ ls2[x].prev = ls[x].prev
    BY <1>5, <2>3
  <2>5. IsList(ls2, head[w], Mine(vm, w), t)
    BY <2>2, <2>4, ListKept
  <2> QED BY <1>6, <2>1, <2>5
<1>7. \E t : IsList(ls2, head2[v], Mine(vm2, v), t)
  <2> DEFINE n == Len(q)
             t == <<l>> \o q
  <2>1. n \in Nat /\ DOMAIN q = 1..n /\ q \in Seq(LockSlots) /\ (q = <<>> <=> n = 0)
    BY <1>2 DEF IsList
  <2>2. t \in Seq(LockSlots) /\ Len(t) = n + 1 /\ t[1] = l /\ t # <<>>
        /\ \A i \in 1..n : t[i + 1] = q[i]
    BY <2>1
  <2>3. \A i \in 1..n : q[i] \in Mine(vm, v) /\ q[i] \in LockSlots \ {l}
    <3>1. \A i \in 1..n : q[i] \in ToSet(q)
      BY <2>1, InToSet
    <3>2. ToSet(q) = Mine(vm, v)
      BY <1>2 DEF IsList
    <3>3. \A x \in Mine(vm, v) : x \in LockSlots \ {l}
      BY NullIsNone DEF Mine
    <3> QED BY <3>1, <3>2, <3>3
  <2>4. Pool(q, LockSlots, {l})
    BY <1>2, <2>1, <2>3 DEF Pool, IsList
  <2>5. Pool(t, LockSlots, {}) /\ ToSet(t) = ToSet(q) \cup {l}
    BY <2>4, GivenBack
  <2>6. ToSet(t) = Mine(vm2, v)
    BY <1>1, <1>2, <2>5, NullIsNone DEF IsList, Mine
  <2> HIDE DEF t, n
  <2>7. \A i \in 1..(n + 1) : i = 1 \/ (i - 1 \in 1..n /\ t[i] = q[i - 1])
    <3> TAKE i \in 1..(n + 1)
    <3>1. i = 1 \/ (i - 1 \in 1..n /\ (i - 1) + 1 = i)
      BY <2>1
    <3> QED BY <2>2, <3>1
  <2>8. \A i \in 1..n : /\ ls[q[i]].next = IF i = n THEN Null ELSE q[i + 1]
                        /\ ls[q[i]].prev = IF i = 1 THEN Null ELSE q[i - 1]
    BY <1>2 DEF IsList, n
  <2>9. head[v] = IF n = 0 THEN Null ELSE q[1]
    BY <1>2, <2>1 DEF IsList
  <2>10. ASSUME NEW i \in 1..(n + 1)
         PROVE  ls2[t[i]].next = IF i = n + 1 THEN Null ELSE t[i + 1]
    <3>1. CASE i = 1
      BY <1>5, <2>1, <2>2, <2>9, <3>1
    <3>2. CASE i # 1
      <4>1. i - 1 \in 1..n /\ t[i] = q[i - 1]
        BY <2>7, <3>2
      <4>2. ls2[t[i]].next = IF i - 1 = n THEN Null ELSE q[(i - 1) + 1]
        BY <1>5, <2>3, <2>8, <4>1
      <4>3. i - 1 # n => i \in 1..n /\ (i - 1) + 1 = i
        BY <2>1, <4>1
      <4>4. i - 1 # n => t[i + 1] = q[i]
        BY <2>2, <4>3
      <4> QED BY <2>1, <4>1, <4>2, <4>3, <4>4
    <3> QED BY <3>1, <3>2
  <2>11. ASSUME NEW i \in 1..(n + 1)
         PROVE  ls2[t[i]].prev = IF i = 1 THEN Null ELSE t[i - 1]
    <3>1. CASE i = 1
      BY <1>5, <2>2, <3>1
    <3>2. CASE i # 1
      <4>1. i - 1 \in 1..n /\ t[i] = q[i - 1] /\ q[i - 1] \in LockSlots \ {l}
        BY <2>3, <2>7, <3>2
      <4>2. CASE i - 1 = 1
        <5>1. q[i - 1] = head[v]
          BY <2>1, <2>9, <4>1, <4>2
        <5>2. ls2[q[i - 1]].prev = l
          BY <1>5, <4>1, <5>1
        <5> QED BY <2>2, <3>2, <4>1, <4>2, <5>2
      <4>3. CASE i - 1 # 1
        <5>1. 1 \in 1..n /\ head[v] = q[1]
          BY <2>1, <2>9, <4>1
        <5>2. q[i - 1] # q[1]
          BY <1>2, <2>1, <4>1, <4>3, <5>1 DEF IsList, IsInjective
        <5>3. ls2[t[i]].prev = q[(i - 1) - 1]
          BY <1>5, <2>8, <4>1, <4>3, <5>1, <5>2
        <5>4. i - 1 \in 1..(n + 1) /\ i - 1 # 1
          BY <2>1, <4>1, <4>3
        <5>5. t[i - 1] = q[(i - 1) - 1]
          BY <2>7, <5>4
        <5> QED BY <3>2, <5>3, <5>5
      <4> QED BY <4>2, <4>3
    <3> QED BY <3>1, <3>2
  <2>12. IsList(ls2, l, Mine(vm2, v), t)
    BY <2>2, <2>5, <2>6, <2>10, <2>11 DEF IsList, Pool
  <2>13. head2[v] = l
    OBVIOUS
  <2> HIDE DEF head2
  <2> QED BY <2>12, <2>13
<1>8. Lists(ls2, head2, vm2)
  BY <1>6, <1>7 DEF Lists
<1> QED BY <1>5, <1>8 DEF ls2

\* unlink_volume_lock(): the neighbours of the lock become neighbours.
LEMMA Unlinked ==
  ASSUME NEW ls \in [LockSlots -> Lock], NEW head \in [Volumes -> LockSlots \cup {Null}],
         NEW vm, Lists(ls, head, vm), NEW v \in Volumes, NEW l \in LockSlots, vm[l] = v,
         NEW vm2, vm2[l] = Null, AgreeBut(vm, vm2, LockSlots, l),
         NEW ls2, ls2 = UnlinkVolumeLock(ls, l),
         NEW head2, AgreeBut(head, head2, Volumes, v),
         head2[v] = IF head[v] = l THEN ls[l].next ELSE head[v]
  PROVE  Lists(ls2, head2, vm2)
<1> DEFINE p == ls[l].prev
           nx == ls[l].next
<1>1. \A x \in LockSlots \ {l} : vm2[x] = vm[x]
  BY DEF AgreeBut
<1>2. PICK q : IsList(ls, head[v], Mine(vm, v), q)
  BY DEF Lists
<1>3. /\ ls2 \in [LockSlots -> Lock] /\ ls2[l] = NoLock
      /\ \A x \in LockSlots \ {l} :
           /\ ls2[x].entry = ls[x].entry
           /\ ls2[x].next = IF x = p THEN nx ELSE ls[x].next
           /\ ls2[x].prev = IF x = nx THEN p ELSE ls[x].prev
  BY UnlinkFields
<1> DEFINE n == Len(q)
<1>4. n \in Nat /\ DOMAIN q = 1..n /\ q \in Seq(LockSlots)
  BY <1>2 DEF IsList
<1>5. /\ \A i \in 1..n : ls[q[i]].next = IF i = n THEN Null ELSE q[i + 1]
      /\ \A i \in 1..n : ls[q[i]].prev = IF i = 1 THEN Null ELSE q[i - 1]
      /\ \A i, j \in 1..n : q[i] = q[j] => i = j
      /\ ToSet(q) = Mine(vm, v)
  BY <1>2, <1>4 DEF IsList, IsInjective
<1>6. head[v] = IF n = 0 THEN Null ELSE q[1]
  BY <1>2, <1>4 DEF IsList
<1>7. \A i \in 1..n : q[i] \in LockSlots /\ q[i] \in Mine(vm, v)
  <2>1. \A i \in 1..n : q[i] \in ToSet(q)
    BY <1>4, InToSet
  <2> QED BY <1>5, <2>1 DEF Mine
<1> HIDE DEF n
<1>8. PICK k \in 1..n : q[k] = l
  <2>1. l \in ToSet(q)
    BY <1>5 DEF Mine
  <2> QED BY <1>4, <2>1, InToSet
<1>9. p = (IF k = 1 THEN Null ELSE q[k - 1]) /\ nx = (IF k = n THEN Null ELSE q[k + 1])
  BY <1>5, <1>8
<1>10. /\ p # Null => p \in Mine(vm, v)
       /\ nx # Null => nx \in Mine(vm, v)
       /\ p \in LockSlots \cup {Null} /\ nx \in LockSlots \cup {Null}
  <2>1. k # 1 => k - 1 \in 1..n
    BY <1>4
  <2>2. k # n => k + 1 \in 1..n
    BY <1>4
  <2> HIDE DEF p, nx
  <2> QED BY <1>7, <1>9, <2>1, <2>2
<1> HIDE DEF p, nx
<1>12. ASSUME NEW w \in Volumes, w # v
       PROVE  \E t : IsList(ls2, head2[w], Mine(vm2, w), t)
  <2>1. Mine(vm2, w) = Mine(vm, w)
    BY <1>1, <1>12, NullIsNone DEF Mine
  <2>2. PICK t : IsList(ls, head[w], Mine(vm, w), t)
    BY DEF Lists
  <2>3. \A x \in Mine(vm, w) : x \in LockSlots \ {l} /\ x # p /\ x # nx
    BY <1>10, <1>12, NullIsNone DEF Mine
  <2>4. \A x \in Mine(vm, w) : ls2[x].next = ls[x].next /\ ls2[x].prev = ls[x].prev
    BY <1>3, <2>3
  <2>5. IsList(ls2, head[w], Mine(vm, w), t)
    BY <2>2, <2>4, ListKept
  <2>6. head2[w] = head[w]
    BY <1>12 DEF AgreeBut
  <2> QED BY <2>1, <2>5, <2>6
<1>13. \E t : IsList(ls2, head2[v], Mine(vm2, v), t)
  <2> DEFINE from(i) == IF i < k THEN i ELSE i + 1
             t == [i \in 1..(n - 1) |-> q[from(i)]]
  <2>1. n - 1 \in Nat /\ \A i \in 1..(n - 1) : from(i) \in 1..n /\ from(i) # k
    BY <1>4
  <2>2. \A i, j \in 1..(n - 1) : from(i) = from(j) => i = j
    BY <1>4
  <2>3. \A j \in 1..n : j = k \/ \E i \in 1..(n - 1) : from(i) = j
    <3> TAKE j \in 1..n
    <3>1. j < k => j \in 1..(n - 1) /\ from(j) = j
      BY <1>4
    <3>2. j > k => j - 1 \in 1..(n - 1) /\ from(j - 1) = j
      BY <1>4
    <3>3. j = k \/ j < k \/ j > k
      BY <1>4
    <3> HIDE DEF from
    <3> QED BY <3>1, <3>2, <3>3
  <2>4. t \in Seq(LockSlots) /\ Len(t) = n - 1 /\ DOMAIN t = 1..(n - 1)
        /\ \A i \in 1..(n - 1) : t[i] = q[from(i)]
    <3>1. \A i \in 1..(n - 1) : q[from(i)] \in LockSlots
      <4> HIDE DEF from
      <4> QED BY <1>7, <2>1
    <3> HIDE DEF from
    <3>2. t \in [1..(n - 1) -> LockSlots]
      BY <3>1
    <3> QED BY <2>1, <3>2
  <2> HIDE DEF t
  <2>5. t = <<>> <=> n - 1 = 0
    <3>1. t = <<>> <=> Len(t) = 0
      BY <2>4, EmptySeq
    <3> QED BY <2>4, <3>1, Zenon
  <2>6. IsInjective(t)
    <3> HIDE DEF from
    <3> QED BY <1>5, <2>1, <2>2, <2>4 DEF IsInjective
  <2>7. ToSet(t) = Mine(vm2, v)
    <3> HIDE DEF from
    <3>1. Mine(vm2, v) = Mine(vm, v) \ {l}
      BY <1>1, NullIsNone DEF Mine
    <3>2. ASSUME NEW x \in ToSet(t)
          PROVE  x \in Mine(vm, v) \ {l}
      <4>1. PICK i \in 1..(n - 1) : t[i] = x
        BY <2>4, InToSet
      <4>2. x = q[from(i)] /\ from(i) \in 1..n /\ from(i) # k
        BY <2>1, <2>4, <4>1
      <4> QED BY <1>5, <1>7, <1>8, <4>2
    <3>3. ASSUME NEW x \in Mine(vm, v), x # l
          PROVE  x \in ToSet(t)
      <4>1. PICK j \in 1..n : q[j] = x
        BY <1>4, <1>5, InToSet
      <4>2. PICK i \in 1..(n - 1) : from(i) = j
        BY <1>8, <2>3, <3>3, <4>1
      <4>3. t[i] = x
        BY <2>4, <4>1, <4>2
      <4> QED BY <2>4, <4>3, InToSet
    <3> QED BY <3>1, <3>2, <3>3
  <2>8. \A i \in 1..(n - 1) : t[i] \in LockSlots \ {l}
    <3> HIDE DEF from
    <3> QED BY <1>5, <1>7, <1>8, <2>1, <2>4
  <2>9. ASSUME NEW i \in 1..(n - 1)
        PROVE  ls2[t[i]].next = IF i = n - 1 THEN Null ELSE t[i + 1]
    <3>1. i # n - 1 => i + 1 \in 1..(n - 1) /\ t[i + 1] = q[from(i + 1)]
      BY <2>1, <2>4
    <3>2. CASE i = k - 1
      <4>1. from(i) = i /\ k # 1 /\ t[i] = q[k - 1] /\ k - 1 \in 1..n
        BY <1>4, <2>4, <3>2
      <4>2. ls2[t[i]].next = nx
        BY <1>3, <1>9, <2>8, <4>1
      <4>3. k = n <=> i = n - 1
        BY <1>4, <3>2
      <4>4. i # n - 1 => from(i + 1) = k + 1
        BY <1>4, <3>2
      <4> HIDE DEF from
      <4> QED BY <1>9, <3>1, <4>2, <4>3, <4>4
    <3>3. CASE i # k - 1
      <4>1. from(i) \in 1..n /\ t[i] = q[from(i)]
        BY <2>1, <2>4
      <4>2. t[i] # p
        <5>1. k # 1 => k - 1 \in 1..n /\ from(i) # k - 1
          BY <1>4, <3>3
        <5>2. k # 1 => q[from(i)] # q[k - 1]
          <6> HIDE DEF from
          <6> QED BY <1>5, <4>1, <5>1
        <5> HIDE DEF from
        <5> QED BY <1>9, <2>8, <4>1, <5>2, NullIsNone
      <4>3. ls2[t[i]].next = IF from(i) = n THEN Null ELSE q[from(i) + 1]
        <5> HIDE DEF from
        <5> QED BY <1>3, <1>5, <2>8, <4>1, <4>2
      <4>4. from(i) = n <=> i = n - 1
        BY <1>4, <3>3
      <4>5. i # n - 1 => from(i) + 1 = from(i + 1)
        BY <1>4, <3>3
      <4> HIDE DEF from
      <4> QED BY <3>1, <4>3, <4>4, <4>5
    <3> QED BY <3>2, <3>3
  <2>10. ASSUME NEW i \in 1..(n - 1)
         PROVE  ls2[t[i]].prev = IF i = 1 THEN Null ELSE t[i - 1]
    <3>1. i # 1 => i - 1 \in 1..(n - 1) /\ t[i - 1] = q[from(i - 1)]
      BY <2>1, <2>4
    <3>2. CASE i = k
      <4>1. from(i) = k + 1 /\ k # n /\ t[i] = q[k + 1] /\ k + 1 \in 1..n
        BY <1>4, <2>4, <3>2
      <4>2. ls2[t[i]].prev = p
        BY <1>3, <1>9, <2>8, <4>1
      <4>3. i # 1 => from(i - 1) = k - 1
        BY <1>4, <3>2
      <4> HIDE DEF from
      <4> QED BY <1>9, <3>1, <3>2, <4>2, <4>3
    <3>3. CASE i # k
      <4>1. from(i) \in 1..n /\ t[i] = q[from(i)]
        BY <2>1, <2>4
      <4>2. t[i] # nx
        <5>1. k # n => k + 1 \in 1..n /\ from(i) # k + 1
          BY <1>4, <3>3
        <5>2. k # n => q[from(i)] # q[k + 1]
          <6> HIDE DEF from
          <6> QED BY <1>5, <4>1, <5>1
        <5> HIDE DEF from
        <5> QED BY <1>9, <2>8, <4>1, <5>2, NullIsNone
      <4>3. ls2[t[i]].prev = IF from(i) = 1 THEN Null ELSE q[from(i) - 1]
        <5> HIDE DEF from
        <5> QED BY <1>3, <1>5, <2>8, <4>1, <4>2
      <4>4. from(i) = 1 <=> i = 1
        BY <1>4, <3>3
      <4>5. i # 1 => from(i) - 1 = from(i - 1)
        BY <1>4, <3>3
      <4> HIDE DEF from
      <4> QED BY <3>1, <4>3, <4>4, <4>5
    <3> QED BY <3>2, <3>3
  <2>11. head2[v] = IF t = <<>> THEN Null ELSE t[1]
    <3>1. n # 0 /\ head[v] = q[1] /\ 1 \in 1..n
      BY <1>4, <1>6
    <3>2. CASE k = 1
      <4>1. head[v] = l /\ head2[v] = nx
        BY <1>8, <3>1, <3>2 DEF nx
      <4>2. n - 1 # 0 => 1 \in 1..(n - 1) /\ from(1) = k + 1
        BY <1>4, <3>2
      <4>3. n - 1 = 0 <=> k = n
        BY <1>4, <3>2
      <4> HIDE DEF from
      <4> QED BY <1>9, <2>4, <2>5, <4>1, <4>2, <4>3
    <3>3. CASE k # 1
      <4>1. head[v] # l
        BY <1>5, <1>8, <3>1, <3>3
      <4>2. n - 1 # 0 /\ 1 \in 1..(n - 1) /\ from(1) = 1
        BY <1>4, <3>3
      <4>3. head2[v] = q[1]
        BY <3>1, <4>1
      <4> HIDE DEF from
      <4> QED BY <2>4, <2>5, <4>2, <4>3
    <3> QED BY <3>2, <3>3
  <2>12. IsList(ls2, head2[v], Mine(vm2, v), t)
    BY <2>4, <2>6, <2>7, <2>9, <2>10, <2>11 DEF IsList
  <2> QED BY <2>12
<1>14. Lists(ls2, head2, vm2)
  BY <1>12, <1>13 DEF Lists
<1> QED BY <1>14

-----------------------------------------------------------------------------
(* The state of all objects, with a reference a packet may hold.           *)

Sound(es, pool, heap, ls, head, lp, fs, fp, os, pend) ==
  /\ es \in [EntrySlots -> Entry] /\ AllStarts(es) /\ Parted(es, pool, heap)
  /\ ls \in [LockSlots -> Lock] /\ head \in [Volumes -> LockSlots \cup {Null}]
  /\ fs \in [FhSlots -> EntrySlots \cup {Null}] /\ os \in [Volumes -> Nat]
  /\ Refs(es, EntryOf(ls), LockSlots, fs, FhSlots, os, pend)
  /\ Pool(lp, LockSlots, {l \in LockSlots : ls[l].entry # Null})
  /\ Pool(fp, FhSlots, {f \in FhSlots : fs[f] # Null})
  /\ Lists(ls, head, VolOf(EntryOf(ls), LockSlots, es))

\* The locks and the handles are maps to entries.
LEMMA SoundMaps ==
  ASSUME NEW ls \in [LockSlots -> Lock], NEW fs \in [FhSlots -> EntrySlots \cup {Null}]
  PROVE  Maps(EntryOf(ls), LockSlots, fs, FhSlots) /\ Maps(fs, FhSlots, EntryOf(ls), LockSlots)
<1>1. EntryOf(ls) \in [LockSlots -> EntrySlots \cup {Null}]
  BY DEF EntryOf, Lock
<1>2. IsFiniteSet(LockSlots) /\ IsFiniteSet(FhSlots)
  BY ObjectsAssumption
<1> QED BY <1>1, <1>2 DEF Maps

\* The reference the packet holds is released.
LEMMA SoundReleased ==
  ASSUME NEW es, NEW pool, NEW heap, NEW ls, NEW head, NEW lp, NEW fs, NEW fp, NEW os,
         NEW e \in EntrySlots, Sound(es, pool, heap, ls, head, lp, fs, fp, os, e)
  PROVE  LET r == ReleaseEntry(es, pool, e)
         IN  Sound(r.entries, r.pool, heap, ls, head, lp, fs, fp, os, Null)
<1> DEFINE r == ReleaseEntry(es, pool, e)
<1>1. Maps(EntryOf(ls), LockSlots, fs, FhSlots)
  BY SoundMaps DEF Sound
<1>2. /\ r.entries \in [EntrySlots -> Entry] /\ AllStarts(r.entries)
      /\ Refs(r.entries, EntryOf(ls), LockSlots, fs, FhSlots, os, Null)
      /\ Parted(r.entries, r.pool, heap)
      /\ VolOf(EntryOf(ls), LockSlots, r.entries) = VolOf(EntryOf(ls), LockSlots, es)
  BY <1>1, Released DEF Sound
<1> HIDE DEF r
<1>3. Sound(r.entries, r.pool, heap, ls, head, lp, fs, fp, os, Null)
  BY <1>2 DEF Sound
<1> QED BY <1>3 DEF r

\* One more reference to an entry in use.
LEMMA SoundShared ==
  ASSUME NEW es, NEW pool, NEW heap, NEW ls, NEW head, NEW lp, NEW fs, NEW fp, NEW os,
         NEW e \in EntrySlots, es[e].refs > 0,
         Sound(es, pool, heap, ls, head, lp, fs, fp, os, Null)
  PROVE  LET es2 == [es EXCEPT ![e].refs = @ + 1]
         IN  Sound(es2, pool, heap, ls, head, lp, fs, fp, os, e) /\ es2[e].vol = es[e].vol
<1> DEFINE es2 == [es EXCEPT ![e].refs = @ + 1]
<1>1. Maps(EntryOf(ls), LockSlots, fs, FhSlots)
  BY SoundMaps DEF Sound
<1>2. /\ es2 \in [EntrySlots -> Entry] /\ AllStarts(es2)
      /\ Refs(es2, EntryOf(ls), LockSlots, fs, FhSlots, os, e)
      /\ Parted(es2, pool, heap) /\ es2[e].vol = es[e].vol
      /\ VolOf(EntryOf(ls), LockSlots, es2) = VolOf(EntryOf(ls), LockSlots, es)
  BY <1>1, Shared DEF Sound
<1> HIDE DEF es2
<1>3. Sound(es2, pool, heap, ls, head, lp, fs, fp, os, e) /\ es2[e].vol = es[e].vol
  BY <1>2 DEF Sound
<1> QED BY <1>3 DEF es2

\* A blank entry is taken from the pool or the heap, and filled in or put back.
LEMMA SoundBlank ==
  ASSUME NEW es, NEW pool, NEW heap, NEW ls, NEW head, NEW lp, NEW fs, NEW fp, NEW os,
         Sound(es, pool, heap, ls, head, lp, fs, fp, os, Null),
         NEW a \in Allocations(pool, heap), a.slot # Null
  PROVE  /\ a.slot \in EntrySlots
         /\ Sound(es, <<a.slot>> \o a.pool, a.heap, ls, head, lp, fs, fp, os, Null)
<1> DEFINE pool2 == <<a.slot>> \o a.pool
<1>1. Parted(es, pool, heap)
  BY DEF Sound
<1>2. a.slot \in EntrySlots /\ Parted(es, pool2, a.heap)
  BY <1>1, EntryTaken
<1> HIDE DEF pool2
<1>3. Sound(es, pool2, a.heap, ls, head, lp, fs, fp, os, Null)
  BY <1>2 DEF Sound
<1> QED BY <1>2, <1>3 DEF pool2

\* It is filled in, with one reference that the packet holds.
LEMMA SoundFilled ==
  ASSUME NEW es, NEW pool, NEW heap, NEW ls, NEW head, NEW lp, NEW fs, NEW fp, NEW os,
         Sound(es, pool, heap, ls, head, lp, fs, fp, os, Null),
         NEW a \in Allocations(pool, heap), a.slot # Null,
         NEW x \in Entry, IsStart(x), x.refs = 1, x.vol \in Volumes
  PROVE  /\ Sound([es EXCEPT ![a.slot] = x], a.pool, a.heap, ls, head, lp, fs, fp, os, a.slot)
         /\ a.slot \in EntrySlots /\ [es EXCEPT ![a.slot] = x][a.slot] = x
<1> DEFINE es2 == [es EXCEPT ![a.slot] = x]
           e == a.slot
<1>1. Maps(EntryOf(ls), LockSlots, fs, FhSlots)
  BY SoundMaps DEF Sound
<1>2. /\ es \in [EntrySlots -> Entry] /\ AllStarts(es) /\ Parted(es, pool, heap)
      /\ Refs(es, EntryOf(ls), LockSlots, fs, FhSlots, os, Null)
  BY DEF Sound
<1>3. /\ e \in EntrySlots /\ es[e].refs = 0
      /\ a.pool \in Seq(EntrySlots) /\ IsInjective(a.pool) /\ a.heap \subseteq EntrySlots
      /\ ToSet(a.pool) \cap a.heap = {}
      /\ \A y \in EntrySlots : es[y].refs = 0 /\ y # e <=> y \in ToSet(a.pool) \cup a.heap
  BY <1>2, EntryTaken
<1>4. es2 \in [EntrySlots -> Entry] /\ es2[e] = x /\ AgreeBut(es, es2, EntrySlots, e)
  BY <1>2, <1>3 DEF AgreeBut
<1> HIDE DEF es2, e
<1>5. /\ AllStarts(es2) /\ Refs(es2, EntryOf(ls), LockSlots, fs, FhSlots, os, e)
      /\ VolOf(EntryOf(ls), LockSlots, es2) = VolOf(EntryOf(ls), LockSlots, es)
  BY <1>1, <1>2, <1>3, <1>4, Filled
<1>6. Parted(es2, a.pool, a.heap)
  <2>1. \A y \in EntrySlots : es2[y].refs = 0 <=> y \in ToSet(a.pool) \cup a.heap
    BY <1>3, <1>4 DEF AgreeBut
  <2> QED BY <1>3, <2>1 DEF Parted
<1>7. Sound(es2, a.pool, a.heap, ls, head, lp, fs, fp, os, e)
  BY <1>4, <1>5, <1>6 DEF Sound
<1> QED BY <1>3, <1>4, <1>7 DEF es2, e

\* A handle takes over the reference.
LEMMA SoundHandle ==
  ASSUME NEW es, NEW pool, NEW heap, NEW ls, NEW head, NEW lp, NEW fs, NEW fp, NEW os,
         NEW e \in EntrySlots, Sound(es, pool, heap, ls, head, lp, fs, fp, os, e),
         NEW b \in Allocations(fp, FhSlots \ (ToSet(fp) \cup {f \in FhSlots : fs[f] # Null})),
         b.slot # Null
  PROVE  Sound(es, pool, heap, ls, head, lp, [fs EXCEPT ![b.slot] = e], b.pool,
               [os EXCEPT ![es[e].vol] = @ + 1], Null)
<1> DEFINE used == {f \in FhSlots : fs[f] # Null}
           free == FhSlots \ (ToSet(fp) \cup used)
           fs2 == [fs EXCEPT ![b.slot] = e]
           os2 == [os EXCEPT ![es[e].vol] = @ + 1]
<1>1. Maps(EntryOf(ls), LockSlots, fs, FhSlots) /\ Maps(fs, FhSlots, EntryOf(ls), LockSlots)
  BY SoundMaps DEF Sound
<1>2. /\ b.slot \in ToSet(fp) \cup free /\ b.slot \in FhSlots
      /\ Pool(b.pool, FhSlots, used \cup {b.slot})
  <2>1. FhSlots \subseteq Nat /\ Null \notin FhSlots
    BY ObjectsAssumption
  <2>2. Pool(fp, FhSlots, used) /\ free \subseteq FhSlots /\ b \in Allocations(fp, free)
    BY DEF Sound
  <2> HIDE DEF used, free
  <2> QED BY <2>1, <2>2, Allocated
<1>3. fs[b.slot] = Null
  <2>1. \A x \in ToSet(fp) : x \notin used
    BY InToSet DEF Sound, Pool
  <2> QED BY <1>2, <2>1
<1>4. fs \in [FhSlots -> EntrySlots \cup {Null}]
  BY DEF Sound
<1>5. fs2 \in [FhSlots -> EntrySlots \cup {Null}] /\ fs2[b.slot] = e
      /\ AgreeBut(fs, fs2, FhSlots, b.slot)
  BY <1>2, <1>4 DEF AgreeBut
<1>6. {f \in FhSlots : fs2[f] # Null} = used \cup {b.slot}
  BY <1>2, <1>4, NullIsNone
<1> HIDE DEF fs2, used, free
<1>7. Maps(fs2, FhSlots, EntryOf(ls), LockSlots)
  BY <1>5, SoundMaps DEF Sound
<1>8. Refs(es, fs, FhSlots, EntryOf(ls), LockSlots, os, e)
  BY <1>1, RefsSwap DEF Sound
<1>9. Refs(es, fs2, FhSlots, EntryOf(ls), LockSlots, os2, Null) /\ os2 \in [Volumes -> Nat]
  <2>1. es \in [EntrySlots -> Entry] /\ os \in [Volumes -> Nat]
    BY DEF Sound
  <2> QED BY <1>1, <1>2, <1>3, <1>5, <1>7, <1>8, <2>1, Taken
<1> HIDE DEF os2
<1>10. Refs(es, EntryOf(ls), LockSlots, fs2, FhSlots, os2, Null)
  BY <1>7, <1>9, RefsSwap
<1>11. Sound(es, pool, heap, ls, head, lp, fs2, b.pool, os2, Null)
  BY <1>2, <1>5, <1>6, <1>9, <1>10 DEF Sound
<1> QED BY <1>11 DEF fs2, os2

\* A handle gives up its reference.
LEMMA SoundClosed ==
  ASSUME NEW es, NEW pool, NEW heap, NEW ls, NEW head, NEW lp, NEW fs, NEW fp, NEW os,
         Sound(es, pool, heap, ls, head, lp, fs, fp, os, Null),
         NEW f \in FhSlots, fs[f] # Null
  PROVE  /\ Sound(es, pool, heap, ls, head, lp, [fs EXCEPT ![f] = Null], <<f>> \o fp,
                  ReleaseVolumeObject(os, es[fs[f]].vol), fs[f])
         /\ fs[f] \in EntrySlots /\ es[fs[f]].vol \in Volumes
<1> DEFINE used == {x \in FhSlots : fs[x] # Null}
           e == fs[f]
           fs2 == [fs EXCEPT ![f] = Null]
           os2 == ReleaseVolumeObject(os, es[e].vol)
<1>1. Maps(EntryOf(ls), LockSlots, fs, FhSlots) /\ Maps(fs, FhSlots, EntryOf(ls), LockSlots)
  BY SoundMaps DEF Sound
<1>2. fs \in [FhSlots -> EntrySlots \cup {Null}]
  BY DEF Sound
<1>3. fs2 \in [FhSlots -> EntrySlots \cup {Null}] /\ fs2[f] = Null
      /\ AgreeBut(fs2, fs, FhSlots, f)
  BY <1>2 DEF AgreeBut
<1>4. {x \in FhSlots : fs2[x] # Null} \subseteq used \ {f}
  BY <1>2
<1>5. Pool(<<f>> \o fp, FhSlots, {x \in FhSlots : fs2[x] # Null})
  <2>1. Pool(fp, FhSlots, used) /\ f \in used
    BY DEF Sound
  <2> HIDE DEF used, fs2
  <2> QED BY <1>4, <2>1, GivenBack
<1> HIDE DEF fs2, used
<1>6. Maps(fs2, FhSlots, EntryOf(ls), LockSlots)
  BY <1>3, SoundMaps DEF Sound
<1>7. Refs(es, fs, FhSlots, EntryOf(ls), LockSlots, os, Null)
  BY <1>1, RefsSwap DEF Sound
<1>8. /\ Refs(es, fs2, FhSlots, EntryOf(ls), LockSlots, os2, e) /\ os2 \in [Volumes -> Nat]
      /\ e \in EntrySlots /\ es[e].vol \in Volumes
  <2>1. es \in [EntrySlots -> Entry] /\ os \in [Volumes -> Nat]
    BY DEF Sound
  <2> QED BY <1>1, <1>3, <1>6, <1>7, <2>1, Dropped
<1> HIDE DEF os2, e
<1>9. Refs(es, EntryOf(ls), LockSlots, fs2, FhSlots, os2, e)
  BY <1>6, <1>8, RefsSwap
<1> DEFINE fp2 == <<f>> \o fp
<1> HIDE DEF fp2
<1>10. Pool(fp2, FhSlots, {x \in FhSlots : fs2[x] # Null})
  BY <1>5 DEF fp2
<1>11. Sound(es, pool, heap, ls, head, lp, fs2, fp2, os2, e)
  BY <1>3, <1>8, <1>9, <1>10 DEF Sound
<1> QED BY <1>8, <1>11 DEF fs2, os2, e, fp2

\* The volume of a lock.
LEMMA VolOfLock ==
  ASSUME NEW ls, NEW es, NEW l \in LockSlots
  PROVE  VolOf(EntryOf(ls), LockSlots, es)[l] =
           IF ls[l].entry = Null THEN Null ELSE es[ls[l].entry].vol
BY DEF VolOf, EntryOf

\* Maps of two sets of locks that differ in one.
LEMMA LocksDiffer ==
  ASSUME NEW ls, NEW ls2, NEW es, NEW l \in LockSlots,
         \A x \in LockSlots \ {l} : ls2[x].entry = ls[x].entry
  PROVE  /\ AgreeBut(EntryOf(ls), EntryOf(ls2), LockSlots, l)
         /\ AgreeBut(EntryOf(ls2), EntryOf(ls), LockSlots, l)
         /\ AgreeBut(VolOf(EntryOf(ls), LockSlots, es), VolOf(EntryOf(ls2), LockSlots, es),
                     LockSlots, l)
<1>1. \A x \in LockSlots \ {l} : EntryOf(ls2)[x] = EntryOf(ls)[x]
  BY DEF EntryOf
<1>2. \A x \in LockSlots \ {l} :
        VolOf(EntryOf(ls2), LockSlots, es)[x] = VolOf(EntryOf(ls), LockSlots, es)[x]
  BY VolOfLock
<1> QED BY <1>1, <1>2 DEF AgreeBut

\* A lock takes over the reference and is linked into its volume.
LEMMA SoundLock ==
  ASSUME NEW es, NEW pool, NEW heap, NEW ls, NEW head, NEW lp, NEW fs, NEW fp, NEW os,
         NEW e \in EntrySlots, Sound(es, pool, heap, ls, head, lp, fs, fp, os, e),
         NEW a \in Allocations(lp, LockSlots \ (ToSet(lp) \cup {l \in LockSlots : ls[l].entry # Null}))
  PROVE  /\ Sound(es, pool, heap, ls, head, a.pool, fs, fp, os, e)
         /\ a.slot # Null =>
              Sound(es, pool, heap, LinkVolumeLock(ls, head, es[e].vol, a.slot, e),
                    [head EXCEPT ![es[e].vol] = a.slot], a.pool, fs, fp,
                    [os EXCEPT ![es[e].vol] = @ + 1], Null)
<1> DEFINE used == {l \in LockSlots : ls[l].entry # Null}
           free == LockSlots \ (ToSet(lp) \cup used)
           v == es[e].vol
           l == a.slot
           ls2 == LinkVolumeLock(ls, head, v, l, e)
           os2 == [os EXCEPT ![v] = @ + 1]
           head2 == [head EXCEPT ![v] = l]
           vm == VolOf(EntryOf(ls), LockSlots, es)
           vm2 == VolOf(EntryOf(ls2), LockSlots, es)
<1>1. /\ l = Null => a.pool = lp
      /\ l # Null => l \in ToSet(lp) \cup free /\ l \in LockSlots
                     /\ Pool(a.pool, LockSlots, used \cup {l})
  <2>1. LockSlots \subseteq Nat /\ Null \notin LockSlots
    BY ObjectsAssumption
  <2>2. Pool(lp, LockSlots, used) /\ free \subseteq LockSlots /\ a \in Allocations(lp, free)
    BY DEF Sound
  <2> HIDE DEF used, free
  <2>3. a.slot = Null => a.pool = lp
    BY <2>1, <2>2, NotAllocated
  <2>4. a.slot # Null => /\ a.slot \in ToSet(lp) \cup free /\ a.slot \in LockSlots
                         /\ Pool(a.pool, LockSlots, used \cup {a.slot})
    BY <2>1, <2>2, Allocated
  <2> QED BY <2>3, <2>4
<1>2. Sound(es, pool, heap, ls, head, a.pool, fs, fp, os, e)
  <2>1. Pool(a.pool, LockSlots, used)
    <3>1. l = Null => Pool(a.pool, LockSlots, used)
      BY <1>1 DEF Sound
    <3> QED BY <1>1, <3>1 DEF Pool
  <2> QED BY <2>1 DEF Sound
<1>3. ASSUME l # Null
      PROVE  Sound(es, pool, heap, ls2, head2, a.pool, fs, fp, os2, Null)
  <2>1. l \in LockSlots /\ ls[l].entry = Null
    <3>1. \A x \in ToSet(lp) : x \notin used
      BY InToSet DEF Sound, Pool
    <3> QED BY <1>1, <1>3, <3>1
  <2>2. Maps(EntryOf(ls), LockSlots, fs, FhSlots)
    BY SoundMaps DEF Sound
  <2>3. /\ es \in [EntrySlots -> Entry] /\ os \in [Volumes -> Nat] /\ ls \in [LockSlots -> Lock]
        /\ head \in [Volumes -> LockSlots \cup {Null}] /\ Lists(ls, head, vm)
        /\ Refs(es, EntryOf(ls), LockSlots, fs, FhSlots, os, e)
        /\ fs \in [FhSlots -> EntrySlots \cup {Null}]
    BY DEF Sound
  <2>4. v \in Volumes
    <3>1. Count(EntryOf(ls), LockSlots, e) \in Nat /\ Count(fs, FhSlots, e) \in Nat
      BY <2>2, CountType DEF Maps
    <3>2. es[e].refs = Count(EntryOf(ls), LockSlots, e) + Count(fs, FhSlots, e) + 1
      BY <2>3 DEF Refs
    <3>3. es[e].refs > 0
      BY <3>1, <3>2
    <3> QED BY <2>3, <3>3 DEF Refs
  <2>5. vm[l] = Null
    BY <2>1, VolOfLock
  <2> HIDE DEF v
  <2>6. l # head[v]
    <3>1. PICK q : IsList(ls, head[v], Mine(vm, v), q)
      BY <2>3, <2>4 DEF Lists
    <3>2. head[v] # Null => head[v] \in Mine(vm, v)
      BY <3>1, FirstIsMember
    <3> HIDE DEF vm
    <3> QED BY <1>3, <2>4, <2>5, <3>2, NullIsNone DEF Mine
  <2>7. /\ ls2 \in [LockSlots -> Lock] /\ ls2[l].entry = e
        /\ \A x \in LockSlots \ {l} : ls2[x].entry = ls[x].entry
    BY <2>1, <2>3, <2>4, <2>6, LinkFields
  <2>8. vm2[l] = v
    <3> HIDE DEF ls2
    <3> QED BY <2>1, <2>7, VolOfLock, NullIsNone DEF v
  <2>9. /\ AgreeBut(EntryOf(ls), EntryOf(ls2), LockSlots, l)
        /\ AgreeBut(vm, vm2, LockSlots, l)
    <3> HIDE DEF ls2
    <3> QED BY <2>1, <2>7, LocksDiffer
  <2>10. Lists(ls2, head2, vm2)
    <3> HIDE DEF vm, vm2
    <3> QED BY <2>1, <2>3, <2>4, <2>5, <2>8, <2>9, Linked
  <2>11. head2 \in [Volumes -> LockSlots \cup {Null}]
    BY <2>1, <2>3
  <2> HIDE DEF ls2, head2
  <2>12. Maps(EntryOf(ls2), LockSlots, fs, FhSlots)
    BY <2>3, <2>7, SoundMaps
  <2>13. EntryOf(ls)[l] = Null /\ EntryOf(ls2)[l] = e
    BY <2>1, <2>7 DEF EntryOf
  <2>14. Refs(es, EntryOf(ls2), LockSlots, fs, FhSlots, os2, Null) /\ os2 \in [Volumes -> Nat]
    BY <2>1, <2>2, <2>3, <2>9, <2>12, <2>13, Taken DEF v
  <2>15. {x \in LockSlots : ls2[x].entry # Null} = used \cup {l}
    BY <2>1, <2>7, NullIsNone
  <2>16. Pool(a.pool, LockSlots, {x \in LockSlots : ls2[x].entry # Null})
    BY <1>1, <1>3, <2>15
  <2> HIDE DEF os2
  <2> QED BY <2>3, <2>7, <2>10, <2>11, <2>14, <2>16 DEF Sound
<1> QED BY <1>2, <1>3

\* A lock is unlinked and gives up its reference.
LEMMA SoundUnlock ==
  ASSUME NEW es, NEW pool, NEW heap, NEW ls, NEW head, NEW lp, NEW fs, NEW fp, NEW os,
         Sound(es, pool, heap, ls, head, lp, fs, fp, os, Null),
         NEW l \in LockSlots, ls[l].entry # Null
  PROVE  LET e == ls[l].entry
             head2 == IF head[es[e].vol] = l THEN [head EXCEPT ![es[e].vol] = ls[l].next] ELSE head
         IN  /\ e \in EntrySlots /\ es[e].vol \in Volumes
             /\ Sound(es, pool, heap, UnlinkVolumeLock(ls, l), head2, <<l>> \o lp, fs, fp,
                      ReleaseVolumeObject(os, es[e].vol), e)
<1> DEFINE used == {x \in LockSlots : ls[x].entry # Null}
           e == ls[l].entry
           v == es[e].vol
           ls2 == UnlinkVolumeLock(ls, l)
           os2 == ReleaseVolumeObject(os, v)
           head2 == IF head[v] = l THEN [head EXCEPT ![v] = ls[l].next] ELSE head
           vm == VolOf(EntryOf(ls), LockSlots, es)
           vm2 == VolOf(EntryOf(ls2), LockSlots, es)
           lp2 == <<l>> \o lp
<1>1. Maps(EntryOf(ls), LockSlots, fs, FhSlots)
  BY SoundMaps DEF Sound
<1>2. /\ es \in [EntrySlots -> Entry] /\ os \in [Volumes -> Nat] /\ ls \in [LockSlots -> Lock]
      /\ head \in [Volumes -> LockSlots \cup {Null}] /\ Lists(ls, head, vm)
      /\ Refs(es, EntryOf(ls), LockSlots, fs, FhSlots, os, Null)
      /\ fs \in [FhSlots -> EntrySlots \cup {Null}] /\ Pool(lp, LockSlots, used)
  BY DEF Sound
<1>3. /\ ls2 \in [LockSlots -> Lock] /\ ls2[l] = NoLock
      /\ \A x \in LockSlots \ {l} : ls2[x].entry = ls[x].entry
  BY <1>2, UnlinkFields
<1>4. ls2[l].entry = Null
  BY <1>3 DEF NoLock
<1> HIDE DEF ls2
<1>5. vm[l] = v /\ vm2[l] = Null
  BY <1>4, VolOfLock
<1>6. /\ AgreeBut(EntryOf(ls2), EntryOf(ls), LockSlots, l)
      /\ AgreeBut(vm, vm2, LockSlots, l)
  BY <1>3, LocksDiffer
<1>7. Maps(EntryOf(ls2), LockSlots, fs, FhSlots)
  BY <1>2, <1>3, SoundMaps
<1>8. EntryOf(ls)[l] = e /\ EntryOf(ls2)[l] = Null
  BY <1>4 DEF EntryOf
<1>9. /\ Refs(es, EntryOf(ls2), LockSlots, fs, FhSlots, os2, e) /\ os2 \in [Volumes -> Nat]
      /\ e \in EntrySlots /\ v \in Volumes
  <2> HIDE DEF e
  <2>1. os2 = ReleaseVolumeObject(os, es[EntryOf(ls)[l]].vol) /\ EntryOf(ls)[l] # Null
    BY <1>8 DEF e
  <2>2. /\ Refs(es, EntryOf(ls2), LockSlots, fs, FhSlots, os2, EntryOf(ls)[l])
        /\ os2 \in [Volumes -> Nat]
        /\ EntryOf(ls)[l] \in EntrySlots /\ es[EntryOf(ls)[l]].vol \in Volumes
    <3> HIDE DEF os2
    <3> QED BY <1>1, <1>2, <1>6, <1>7, <1>8, <2>1, Dropped
  <2> QED BY <1>8, <2>2
<1>10. head2 \in [Volumes -> LockSlots \cup {Null}] /\ Lists(ls2, head2, vm2)
  <2> HIDE DEF vm, vm2, v
  <2>1. v \in Volumes
    BY <1>9
  <2>2. /\ ls \in [LockSlots -> Lock] /\ head \in [Volumes -> LockSlots \cup {Null}]
        /\ Lists(ls, head, vm)
    BY <1>2
  <2>3. ls[l].next \in LockSlots \cup {Null}
    BY <2>2 DEF Lock
  <2>4. /\ head2 \in [Volumes -> LockSlots \cup {Null}] /\ AgreeBut(head, head2, Volumes, v)
        /\ head2[v] = IF head[v] = l THEN ls[l].next ELSE head[v]
    BY <2>1, <2>2, <2>3 DEF AgreeBut
  <2> HIDE DEF head2
  <2>5. ls2 = UnlinkVolumeLock(ls, l)
    BY DEF ls2
  <2> QED BY <1>5, <1>6, <2>1, <2>2, <2>4, <2>5, Unlinked
<1>11. Pool(lp2, LockSlots, {x \in LockSlots : ls2[x].entry # Null})
  <2>1. {x \in LockSlots : ls2[x].entry # Null} \subseteq used \ {l}
    BY <1>3, <1>4
  <2>2. l \in used
    OBVIOUS
  <2> HIDE DEF used
  <2> QED BY <1>2, <2>1, <2>2, GivenBack
<1> HIDE DEF lp2, os2, head2, e, v
<1>12. Sound(es, pool, heap, ls2, head2, lp2, fs, fp, os2, e)
  BY <1>2, <1>3, <1>9, <1>10, <1>11 DEF Sound
<1> QED BY <1>9, <1>12 DEF ls2, lp2, os2, head2, e, v

-----------------------------------------------------------------------------
(* The packets.                                                            *)

\* The inductive invariant: between packets no reference is pending.
Now == Sound(entries, entryPool, entryHeap, locks, lockHead, lockPool, fhs, fhPool, objects, Null)
Inv == Now /\ current \in Volumes \cup {Null} /\ mounts \in Volumes

\* lock_from_entry(): the lock takes the packet's reference over, or it is released.
LEMMA LockMade ==
  ASSUME NEW es, NEW pool, NEW e \in EntrySlots,
         Sound(es, pool, entryHeap', locks, lockHead, lockPool, fhs, fhPool, objects, e),
         LockFromEntry(es, pool, e), fhs' = fhs, fhPool' = fhPool
  PROVE  Now'
<1> DEFINE free == LockSlots \ (ToSet(lockPool) \cup {l \in LockSlots : locks[l].entry # Null})
<1>1. PICK a \in Allocations(lockPool, free) :
        \/ /\ a.slot # Null
           /\ entries' = es /\ entryPool' = pool
           /\ locks' = LinkVolumeLock(locks, lockHead, es[e].vol, a.slot, e)
           /\ lockHead' = [lockHead EXCEPT ![es[e].vol] = a.slot]
           /\ objects' = [objects EXCEPT ![es[e].vol] = @ + 1]
           /\ lockPool' = a.pool
        \/ /\ LET r == ReleaseEntry(es, pool, e)
              IN  entries' = r.entries /\ entryPool' = r.pool
           /\ lockPool' = a.pool
           /\ UNCHANGED <<locks, lockHead, objects>>
  BY DEF LockFromEntry, LockAllocations, ActiveLocks
<1>2. /\ Sound(es, pool, entryHeap', locks, lockHead, a.pool, fhs, fhPool, objects, e)
      /\ a.slot # Null =>
           Sound(es, pool, entryHeap', LinkVolumeLock(locks, lockHead, es[e].vol, a.slot, e),
                 [lockHead EXCEPT ![es[e].vol] = a.slot], a.pool, fhs, fhPool,
                 [objects EXCEPT ![es[e].vol] = @ + 1], Null)
  BY SoundLock
<1>3. LET r == ReleaseEntry(es, pool, e)
      IN  Sound(r.entries, r.pool, entryHeap', locks, lockHead, a.pool, fhs, fhPool, objects, Null)
  BY <1>2, SoundReleased
<1> HIDE DEF free
<1> QED BY <1>1, <1>2, <1>3 DEF Now

\* The entry an object in use refers to.
LEMMA LockEntry ==
  ASSUME Now, NEW l \in ActiveLocks
  PROVE  /\ l \in LockSlots /\ locks[l].entry \in EntrySlots
         /\ entries[locks[l].entry].refs > 0 /\ entries[locks[l].entry].vol \in Volumes
         /\ IsStart(entries[locks[l].entry])
<1> DEFINE e == locks[l].entry
<1>1. l \in LockSlots /\ e # Null /\ EntryOf(locks)[l] = e
  BY DEF ActiveLocks, EntryOf
<1>2. e \in EntrySlots /\ Maps(EntryOf(locks), LockSlots, fhs, FhSlots)
  BY <1>1, SoundMaps DEF Now, Sound, Lock
<1> HIDE DEF e
<1>3. /\ Count(EntryOf(locks), LockSlots, e) \in Nat /\ Count(EntryOf(locks), LockSlots, e) # 0
      /\ Count(fhs, FhSlots, e) \in Nat
  BY <1>1, <1>2, CountType DEF Maps
<1>4. entries[e].refs = Count(EntryOf(locks), LockSlots, e) + Count(fhs, FhSlots, e) + 0
  BY <1>2, NullIsNone DEF Now, Sound, Refs
<1>5. entries[e].refs > 0
  BY <1>3, <1>4
<1>6. entries[e].vol \in Volumes /\ IsStart(entries[e])
  BY <1>2, <1>5 DEF Now, Sound, Refs, AllStarts
<1> QED BY <1>1, <1>2, <1>5, <1>6 DEF e

\* The same for a handle.
LEMMA FhEntry ==
  ASSUME Now, NEW f \in ActiveFhs
  PROVE  /\ f \in FhSlots /\ fhs[f] \in EntrySlots
         /\ entries[fhs[f]].refs > 0 /\ entries[fhs[f]].vol \in Volumes
         /\ IsStart(entries[fhs[f]])
<1> DEFINE e == fhs[f]
<1>1. f \in FhSlots /\ e # Null
  BY DEF ActiveFhs
<1>2. e \in EntrySlots /\ Maps(EntryOf(locks), LockSlots, fhs, FhSlots)
  BY <1>1, SoundMaps DEF Now, Sound
<1>3. /\ Count(EntryOf(locks), LockSlots, e) \in Nat /\ Count(fhs, FhSlots, e) # 0
      /\ Count(fhs, FhSlots, e) \in Nat
  BY <1>1, <1>2, CountType DEF Maps
<1> HIDE DEF e
<1>4. entries[e].refs = Count(EntryOf(locks), LockSlots, e) + Count(fhs, FhSlots, e) + 0
  BY <1>2, NullIsNone DEF Now, Sound, Refs
<1>5. entries[e].refs > 0
  BY <1>3, <1>4
<1>6. entries[e].vol \in Volumes /\ IsStart(entries[e])
  BY <1>2, <1>5 DEF Now, Sound, Refs, AllStarts
<1> QED BY <1>1, <1>2, <1>5, <1>6 DEF e

\* Where a client may start.
LEMMA StartIs ==
  ASSUME Now, NEW l \in Starts
  PROVE  IsStart(StartOf(l))
<1>1. CASE l = Null
  <2>1. RootNode \in Node /\ RootNode.at = Root /\ Parent[Root] = Root
    BY FixedNodes, TreeAssumption
  <2>2. StartOf(l) = RootStart
    BY <1>1 DEF StartOf
  <2>3. IsStart(RootStart)
    BY <2>1 DEF RootStart, IsStart, TrueAncestry
  <2> QED BY <2>2, <2>3
<1>2. CASE l # Null
  <2>1. l \in ActiveLocks /\ StartOf(l) = entries[locks[l].entry]
    BY <1>2 DEF Starts, StartOf
  <2> QED BY <2>1, LockEntry
<1> QED BY <1>1, <1>2

\* A new entry for what resolution found.
LEMMA NewEntryIs ==
  ASSUME NEW r, Resolved(r), current \in Volumes
  PROVE  /\ NewEntry(r) \in Entry /\ IsStart(NewEntry(r)) /\ NewEntry(r).refs = 1
         /\ NewEntry(r).vol \in Volumes /\ NewEntry(r).vol = current
<1>1. NewEntry(r) \in Entry /\ NewEntry(r).refs = 1 /\ NewEntry(r).vol = current
  BY DEF NewEntry, Entry, Resolved
<1>2. IsStart(NewEntry(r))
  BY DEF NewEntry, IsStart, TrueAncestry, Resolved
<1> QED BY <1>1, <1>2

\* A lock on what resolution found, or the blank entry back to the pool.
LEMMA LockForResolved ==
  ASSUME Now, current \in Volumes, NEW a \in EntryAllocations, a.slot # Null, entryHeap' = a.heap,
         NEW r, Resolved(r), LockResolved(a, r), fhs' = fhs, fhPool' = fhPool
  PROVE  Now'
<1>1. a \in Allocations(entryPool, entryHeap)
  BY DEF EntryAllocations
<1>2. CASE DropBlank(a)
  <2>1. Sound(entries, <<a.slot>> \o a.pool, a.heap, locks, lockHead, lockPool, fhs, fhPool,
              objects, Null)
    BY <1>1, SoundBlank DEF Now
  <2> QED BY <1>2, <2>1 DEF DropBlank, Now
<1>3. CASE LockFromEntry(Fill(a, r), a.pool, a.slot)
  <2> DEFINE x == NewEntry(r)
             es2 == [entries EXCEPT ![a.slot] = x]
  <2>1. x \in Entry /\ IsStart(x) /\ x.refs = 1 /\ x.vol \in Volumes
    BY NewEntryIs
  <2>3. es2 = Fill(a, r)
    BY DEF Fill
  <2> HIDE DEF x
  <2>2. /\ Sound(es2, a.pool, a.heap, locks, lockHead, lockPool, fhs, fhPool, objects, a.slot)
        /\ a.slot \in EntrySlots
    BY <1>1, <2>1, SoundFilled DEF Now
  <2> HIDE DEF es2
  <2>4. Sound(es2, a.pool, entryHeap', locks, lockHead, lockPool, fhs, fhPool, objects, a.slot)
    BY <2>2
  <2>5. LockFromEntry(es2, a.pool, a.slot)
    BY <1>3, <2>3
  <2> QED BY <2>2, <2>4, <2>5, LockMade
<1> QED BY <1>2, <1>3 DEF LockResolved

\* ACTION_LOCATE_OBJECT.
LEMMA LockObjectKeeps ==
  ASSUME Inv, NEW l \in Starts, NEW path \in Paths, LockObject(l, path)
  PROVE  Inv'
<1>1. PICK a \in EntryAllocations, cached \in CacheStates, id \in Ids :
        /\ a.slot # Null /\ entryHeap' = a.heap
        /\ \E r \in {ResolveIntoEntry(StartOf(l), path, cached, ResolverOf[current], id)} :
             LockResolved(a, r)
  BY DEF LockObject
<1>2. /\ current \in Volumes /\ fhs' = fhs /\ fhPool' = fhPool /\ current' = current
      /\ mounts' = mounts
  BY DEF LockObject, Inv
<1> DEFINE r == ResolveIntoEntry(StartOf(l), path, cached, ResolverOf[current], id)
<1>3. path \in Seq(ToSet(path)) /\ ResolverOf[current] \in Resolvers
  BY <1>2, ObjectsAssumption DEF Volumes
<1>4. IsStart(StartOf(l))
  BY StartIs DEF Inv
<1>5. Resolved(r)
  BY <1>3, <1>4, ResolutionSound
<1>6. LockResolved(a, r)
  BY <1>1
<1> HIDE DEF r
<1>7. Now'
  BY <1>1, <1>2, <1>5, <1>6, LockForResolved DEF Inv
<1> QED BY <1>2, <1>7 DEF Inv

\* One more lock on an entry in use.
LEMMA ShareKeeps ==
  ASSUME Now, NEW e \in EntrySlots, entries[e].refs > 0, ShareEntry(e), entryHeap' = entryHeap,
         fhs' = fhs, fhPool' = fhPool
  PROVE  Now'
<1> DEFINE es2 == [entries EXCEPT ![e].refs = @ + 1]
<1>1. Sound(es2, entryPool, entryHeap, locks, lockHead, lockPool, fhs, fhPool, objects, e)
  BY SoundShared DEF Now
<1>2. LockFromEntry(es2, entryPool, e)
  BY DEF ShareEntry
<1> HIDE DEF es2
<1>3. Sound(es2, entryPool, entryHeap', locks, lockHead, lockPool, fhs, fhPool, objects, e)
  BY <1>1
<1> QED BY <1>2, <1>3, LockMade

\* ACTION_COPY_DIR of a lock.
LEMMA DupLockKeeps ==
  ASSUME Inv, NEW l \in Starts, DupLock(l)
  PROVE  Inv'
<1>1. l \in ActiveLocks /\ Now
  BY DEF DupLock, Starts, Inv
<1>2. locks[l].entry \in EntrySlots /\ entries[locks[l].entry].refs > 0
  BY <1>1, LockEntry
<1>3. /\ ShareEntry(locks[l].entry) /\ entryHeap' = entryHeap /\ fhs' = fhs /\ fhPool' = fhPool
      /\ current' = current /\ mounts' = mounts
  BY DEF DupLock
<1>4. Now'
  BY <1>1, <1>2, <1>3, ShareKeeps
<1> QED BY <1>3, <1>4 DEF Inv

\* ACTION_COPY_DIR_FH of a handle.
LEMMA DupLockFromFhKeeps ==
  ASSUME Inv, NEW f \in FhStarts, DupLockFromFh(f)
  PROVE  Inv'
<1>1. f \in ActiveFhs /\ Now
  BY DEF FhStarts, Inv
<1>2. fhs[f] \in EntrySlots /\ entries[fhs[f]].refs > 0
  BY <1>1, FhEntry
<1>3. /\ ShareEntry(fhs[f]) /\ entryHeap' = entryHeap /\ fhs' = fhs /\ fhPool' = fhPool
      /\ current' = current /\ mounts' = mounts
  BY DEF DupLockFromFh
<1>4. Now'
  BY <1>1, <1>2, <1>3, ShareKeeps
<1> QED BY <1>3, <1>4 DEF Inv

\* ACTION_COPY_DIR without a lock: a new entry for the root.
LEMMA DupRootKeeps ==
  ASSUME Inv, DupRoot
  PROVE  Inv'
<1>1. PICK a \in EntryAllocations :
        /\ a.slot # Null /\ entryHeap' = a.heap
        /\ LockFromEntry([entries EXCEPT ![a.slot] = NewEntry(RootStart)], a.pool, a.slot)
  BY DEF DupRoot
<1>2. /\ current \in Volumes /\ fhs' = fhs /\ fhPool' = fhPool /\ current' = current
      /\ mounts' = mounts
  BY DEF DupRoot, Inv
<1> DEFINE x == NewEntry(RootStart)
           es2 == [entries EXCEPT ![a.slot] = x]
<1>3. Resolved(RootStart)
  <2>1. RootNode \in Node /\ RootNode.at = Root /\ Parent[Root] = Root
    BY FixedNodes, TreeAssumption
  <2> QED BY <2>1 DEF RootStart, Resolved
<1>4. x \in Entry /\ IsStart(x) /\ x.refs = 1 /\ x.vol \in Volumes
  BY <1>2, <1>3, NewEntryIs
<1>5. a \in Allocations(entryPool, entryHeap) /\ LockFromEntry(es2, a.pool, a.slot)
  BY <1>1 DEF EntryAllocations
<1> HIDE DEF x
<1>6. /\ Sound(es2, a.pool, a.heap, locks, lockHead, lockPool, fhs, fhPool, objects, a.slot)
      /\ a.slot \in EntrySlots
  BY <1>1, <1>4, <1>5, SoundFilled DEF Inv, Now
<1> HIDE DEF es2
<1>7. Sound(es2, a.pool, entryHeap', locks, lockHead, lockPool, fhs, fhPool, objects, a.slot)
  BY <1>1, <1>6
<1>8. Now'
  BY <1>2, <1>5, <1>6, <1>7, LockMade
<1> QED BY <1>2, <1>8 DEF Inv

\* The parent of an object's entry gets a lock.
LEMMA ParentEntryKeeps ==
  ASSUME Inv, NEW e \in EntrySlots, current \in Volumes, ParentEntry(e)
  PROVE  Inv'
<1>1. PICK a \in EntryAllocations, id \in Ids :
        /\ a.slot # Null /\ entryHeap' = a.heap
        /\ \E r \in {ResolveParentWithCache(entries[e], ResolverOf[current], id)} :
             LockResolved(a, r)
  BY DEF ParentEntry
<1>2. fhs' = fhs /\ fhPool' = fhPool /\ current' = current /\ mounts' = mounts
  BY DEF ParentEntry
<1> DEFINE r == ResolveParentWithCache(entries[e], ResolverOf[current], id)
<1>3. ResolverOf[current] \in Resolvers
  BY ObjectsAssumption DEF Volumes
<1>4. IsStart(entries[e])
  BY DEF Inv, Now, Sound, AllStarts
<1>5. Resolved(r)
  BY <1>3, <1>4, ParentSound
<1>6. LockResolved(a, r)
  BY <1>1
<1> HIDE DEF r
<1>7. Now'
  BY <1>1, <1>2, <1>5, <1>6, LockForResolved DEF Inv
<1> QED BY <1>2, <1>7 DEF Inv

\* ACTION_PARENT of a lock and ACTION_PARENT_FH of a handle.
LEMMA ParentKeeps ==
  ASSUME Inv
  PROVE  /\ \A l \in Starts : ParentOfLock(l) => Inv'
         /\ \A f \in FhStarts : ParentOfFh(f) => Inv'
<1>1. ASSUME NEW l \in Starts, ParentOfLock(l)
      PROVE  Inv'
  <2>1. l \in ActiveLocks /\ entries[locks[l].entry].vol = current
    BY <1>1 DEF ParentOfLock, Starts
  <2>2. locks[l].entry \in EntrySlots /\ current \in Volumes
    BY <2>1, LockEntry DEF Inv
  <2> QED BY <1>1, <2>2, ParentEntryKeeps DEF ParentOfLock
<1>2. ASSUME NEW f \in FhStarts, ParentOfFh(f)
      PROVE  Inv'
  <2>1. f \in ActiveFhs /\ entries[fhs[f]].vol = current
    BY DEF FhStarts
  <2>2. fhs[f] \in EntrySlots /\ current \in Volumes
    BY <2>1, FhEntry DEF Inv
  <2> QED BY <1>2, <2>2, ParentEntryKeeps DEF ParentOfFh
<1> QED BY <1>1, <1>2

\* ACTION_FINDINPUT: a handle on what resolution found, or the blank entry back.
LEMMA OpenObjectKeeps ==
  ASSUME Inv, NEW l \in Starts, NEW path \in Paths, OpenObject(l, path)
  PROVE  Inv'
<1>1. PICK a \in EntryAllocations, cached \in CacheStates, id \in Ids :
        /\ a.slot # Null /\ entryHeap' = a.heap
        /\ \E r \in {ResolveIntoEntry(StartOf(l), path, cached, ResolverOf[current], id)} :
             \/ DropBlank(a) /\ UNCHANGED <<fhs, fhPool>>
             \/ \E b \in FhAllocations :
                  \/ /\ b.slot # Null
                     /\ entryPool' = a.pool
                     /\ entries' = Fill(a, r)
                     /\ fhs' = [fhs EXCEPT ![b.slot] = a.slot] /\ fhPool' = b.pool
                     /\ objects' = [objects EXCEPT ![current] = @ + 1]
                     /\ UNCHANGED <<locks, lockHead, lockPool>>
                  \/ DropBlank(a) /\ UNCHANGED <<fhs, fhPool>>
  BY DEF OpenObject
<1>2. current \in Volumes /\ current' = current /\ mounts' = mounts
  BY DEF OpenObject, Inv
<1> DEFINE r == ResolveIntoEntry(StartOf(l), path, cached, ResolverOf[current], id)
<1>3. path \in Seq(ToSet(path)) /\ ResolverOf[current] \in Resolvers
  BY <1>2, ObjectsAssumption DEF Volumes
<1>4. IsStart(StartOf(l))
  BY StartIs DEF Inv
<1>5. Resolved(r)
  BY <1>3, <1>4, ResolutionSound
<1>6. a \in Allocations(entryPool, entryHeap) /\ Now
  BY DEF EntryAllocations, Inv
<1>7. \/ DropBlank(a) /\ UNCHANGED <<fhs, fhPool>>
      \/ \E b \in FhAllocations :
           /\ b.slot # Null /\ entryPool' = a.pool /\ entries' = Fill(a, r)
           /\ fhs' = [fhs EXCEPT ![b.slot] = a.slot] /\ fhPool' = b.pool
           /\ objects' = [objects EXCEPT ![current] = @ + 1]
           /\ UNCHANGED <<locks, lockHead, lockPool>>
  BY <1>1
<1> HIDE DEF r
<1>8. CASE DropBlank(a) /\ UNCHANGED <<fhs, fhPool>>
  <2>1. Sound(entries, <<a.slot>> \o a.pool, a.heap, locks, lockHead, lockPool, fhs, fhPool,
              objects, Null)
    BY <1>1, <1>6, SoundBlank DEF Now
  <2> QED BY <1>1, <1>2, <1>8, <2>1 DEF DropBlank, Now, Inv
<1>9. ASSUME NEW b \in FhAllocations, b.slot # Null, entryPool' = a.pool, entries' = Fill(a, r),
             fhs' = [fhs EXCEPT ![b.slot] = a.slot], fhPool' = b.pool,
             objects' = [objects EXCEPT ![current] = @ + 1],
             UNCHANGED <<locks, lockHead, lockPool>>
      PROVE  Inv'
  <2> DEFINE x == NewEntry(r)
             es2 == [entries EXCEPT ![a.slot] = x]
             e == a.slot
  <2>1. x \in Entry /\ IsStart(x) /\ x.refs = 1 /\ x.vol \in Volumes /\ x.vol = current
    BY <1>2, <1>5, NewEntryIs
  <2>2. entries' = es2
    BY <1>9 DEF Fill
  <2> HIDE DEF x
  <2>3. /\ Sound(es2, a.pool, a.heap, locks, lockHead, lockPool, fhs, fhPool, objects, a.slot)
        /\ a.slot \in EntrySlots /\ es2[a.slot] = x
    BY <1>1, <1>6, <2>1, SoundFilled DEF Now
  <2> HIDE DEF es2, e
  <2>4. b \in Allocations(fhPool, FhSlots \ (ToSet(fhPool) \cup {f \in FhSlots : fhs[f] # Null}))
    BY <1>9 DEF FhAllocations, ActiveFhs
  <2>5. /\ Sound(es2, a.pool, a.heap, locks, lockHead, lockPool, fhs, fhPool, objects, e)
        /\ e \in EntrySlots /\ es2[e].vol = current
    BY <2>1, <2>3 DEF e
  <2>6. Sound(es2, a.pool, a.heap, locks, lockHead, lockPool, [fhs EXCEPT ![b.slot] = e], b.pool,
              [objects EXCEPT ![es2[e].vol] = @ + 1], Null)
    BY <1>9, <2>4, <2>5, SoundHandle
  <2>7. Now'
    BY <1>1, <1>9, <2>2, <2>5, <2>6 DEF Now, e
  <2> QED BY <1>2, <2>7 DEF Inv
<1> QED BY <1>7, <1>8, <1>9

\* ACTION_FREE_LOCK.
LEMMA FreeLockKeeps ==
  ASSUME Inv, NEW l \in ActiveLocks, FreeLock(l)
  PROVE  Inv'
<1> DEFINE e == locks[l].entry
           v == entries[e].vol
           head2 == IF lockHead[v] = l THEN [lockHead EXCEPT ![v] = locks[l].next] ELSE lockHead
           os2 == ReleaseVolumeObject(objects, v)
           ls2 == UnlinkVolumeLock(locks, l)
           lp2 == <<l>> \o lockPool
           r == ReleaseEntry(entries, entryPool, e)
<1>1. Now /\ l \in LockSlots /\ locks[l].entry # Null
  BY DEF Inv, ActiveLocks
<1>2. /\ e \in EntrySlots
      /\ Sound(entries, entryPool, entryHeap, ls2, head2, lp2, fhs, fhPool, os2, e)
  BY <1>1, SoundUnlock DEF Now
<1>3. /\ locks' = ls2 /\ lockHead' = head2 /\ lockPool' = lp2 /\ objects' = os2
      /\ entries' = r.entries /\ entryPool' = r.pool /\ entryHeap' = entryHeap
      /\ fhs' = fhs /\ fhPool' = fhPool /\ current' = current /\ mounts' = mounts
  BY DEF FreeLock, FreeLockAfter, HeadAfterUnlink
<1> HIDE DEF e, head2, os2, ls2, lp2
<1>4. Sound(r.entries, r.pool, entryHeap, ls2, head2, lp2, fhs, fhPool, os2, Null)
  BY <1>2, SoundReleased
<1> HIDE DEF r
<1>5. Now'
  BY <1>3, <1>4 DEF Now
<1> QED BY <1>3, <1>5 DEF Inv

\* ACTION_END.
LEMMA CloseObjectKeeps ==
  ASSUME Inv, NEW f \in ActiveFhs, CloseObject(f)
  PROVE  Inv'
<1> DEFINE e == fhs[f]
           fs2 == [fhs EXCEPT ![f] = Null]
           fp2 == <<f>> \o fhPool
           os2 == ReleaseVolumeObject(objects, entries[e].vol)
           r == ReleaseEntry(entries, entryPool, e)
<1>1. Now /\ f \in FhSlots /\ fhs[f] # Null
  BY DEF Inv, ActiveFhs
<1>2. /\ e \in EntrySlots
      /\ Sound(entries, entryPool, entryHeap, locks, lockHead, lockPool, fs2, fp2, os2, e)
  BY <1>1, SoundClosed DEF Now
<1>3. /\ fhs' = fs2 /\ fhPool' = fp2 /\ objects' = os2
      /\ entries' = r.entries /\ entryPool' = r.pool /\ entryHeap' = entryHeap
      /\ locks' = locks /\ lockHead' = lockHead /\ lockPool' = lockPool
      /\ current' = current /\ mounts' = mounts
  BY DEF CloseObject
<1> HIDE DEF e, fs2, fp2, os2
<1>4. Sound(r.entries, r.pool, entryHeap, locks, lockHead, lockPool, fs2, fp2, os2, Null)
  BY <1>2, SoundReleased
<1> HIDE DEF r
<1>5. Now'
  BY <1>3, <1>4 DEF Now
<1> QED BY <1>3, <1>5 DEF Inv

\* ACTION_FH_FROM_LOCK: the handle takes one more reference to the lock's entry
\* before the lock gives up its own.
LEMMA OpenFromLockKeeps ==
  ASSUME Inv, NEW l \in Starts, OpenFromLock(l)
  PROVE  Inv'
<1> DEFINE e == locks[l].entry
           es1 == [entries EXCEPT ![e].refs = @ + 1]
           v == entries[e].vol
           os1 == [objects EXCEPT ![v] = @ + 1]
           head2 == IF lockHead[v] = l THEN [lockHead EXCEPT ![v] = locks[l].next] ELSE lockHead
           os2 == ReleaseVolumeObject(os1, v)
           ls2 == UnlinkVolumeLock(locks, l)
           lp2 == <<l>> \o lockPool
           r == ReleaseEntry(es1, entryPool, e)
<1>1. l \in ActiveLocks /\ Now /\ l \in LockSlots
  BY DEF OpenFromLock, Starts, Inv, ActiveLocks
<1>2. e \in EntrySlots /\ entries[e].refs > 0 /\ v \in Volumes
  BY <1>1, LockEntry
<1>3. /\ Sound(es1, entryPool, entryHeap, locks, lockHead, lockPool, fhs, fhPool, objects, e)
      /\ es1[e].vol = v
  BY <1>1, <1>2, SoundShared DEF Now
<1>4. PICK b \in Allocations(fhPool, FhSlots \ (ToSet(fhPool) \cup {f \in FhSlots : fhs[f] # Null})) :
        /\ b.slot # Null
        /\ FreeLockAfter(es1, os1, l)
        /\ fhs' = [fhs EXCEPT ![b.slot] = e] /\ fhPool' = b.pool
  BY DEF OpenFromLock, FhAllocations, ActiveFhs
<1> DEFINE fs2 == [fhs EXCEPT ![b.slot] = e]
<1>5. /\ locks' = ls2 /\ lockHead' = head2 /\ lockPool' = lp2 /\ objects' = os2
      /\ entries' = r.entries /\ entryPool' = r.pool
  BY <1>3, <1>4 DEF FreeLockAfter, HeadAfterUnlink
<1>6. entryHeap' = entryHeap /\ current' = current /\ mounts' = mounts
  BY DEF OpenFromLock
<1> HIDE DEF es1
<1>7. Sound(es1, entryPool, entryHeap, locks, lockHead, lockPool, fs2, b.pool,
            [objects EXCEPT ![es1[e].vol] = @ + 1], Null)
  BY <1>2, <1>3, <1>4, SoundHandle
<1>8. Sound(es1, entryPool, entryHeap, locks, lockHead, lockPool, fs2, b.pool, os1, Null)
  BY <1>3, <1>7
<1> HIDE DEF os1, fs2
<1>9. Sound(es1, entryPool, entryHeap, ls2, head2, lp2, fs2, b.pool, os2, e)
  <2>1. locks[l].entry # Null
    BY <1>1 DEF ActiveLocks
  <2>2. LET e1 == locks[l].entry
            h2 == IF lockHead[es1[e1].vol] = l THEN [lockHead EXCEPT ![es1[e1].vol] = locks[l].next]
                  ELSE lockHead
        IN  Sound(es1, entryPool, entryHeap, UnlinkVolumeLock(locks, l), h2, <<l>> \o lockPool, fs2,
                  b.pool, ReleaseVolumeObject(os1, es1[e1].vol), e1)
    BY <1>1, <1>8, <2>1, SoundUnlock
  <2> QED BY <1>3, <2>2
<1> HIDE DEF e, head2, os2, ls2, lp2
<1>10. Sound(r.entries, r.pool, entryHeap, ls2, head2, lp2, fs2, b.pool, os2, Null)
  BY <1>2, <1>9, SoundReleased
<1>11. fhs' = fs2 /\ fhPool' = b.pool
  BY <1>4 DEF fs2
<1> HIDE DEF r
<1>12. Now'
  BY <1>5, <1>6, <1>10, <1>11 DEF Now
<1> QED BY <1>6, <1>12 DEF Inv

\* What begin_shutdown() leaves: the pools back on the heap.
LEMMA ShutdownKeeps ==
  ASSUME Inv, Shutdown
  PROVE  Inv'
<1>1. /\ entries' = entries /\ locks' = locks /\ fhs' = fhs /\ lockHead' = lockHead
      /\ objects' = objects /\ entryPool' = <<>> /\ lockPool' = <<>> /\ fhPool' = <<>>
      /\ entryHeap' = entryHeap \cup ToSet(entryPool) /\ current' = Null /\ mounts' = MaxVolumes
  BY DEF Shutdown
<1>2. MaxVolumes \in Volumes
  BY ObjectsAssumption DEF Volumes
<1>3. Pool(<<>>, LockSlots, {l \in LockSlots : locks[l].entry # Null})
  BY DEF Pool, IsInjective
<1>4. Pool(<<>>, FhSlots, {f \in FhSlots : fhs[f] # Null})
  BY DEF Pool, IsInjective
<1>5. Parted(entries, <<>>, entryHeap \cup ToSet(entryPool))
  <2>1. Parted(entries, entryPool, entryHeap)
    BY DEF Inv, Now, Sound
  <2>2. ToSet(entryPool) \subseteq EntrySlots
    BY <2>1, InToSet DEF Parted
  <2>3. ToSet(<<>>) = {}
    BY DEF ToSet
  <2>4. <<>> \in Seq(EntrySlots) /\ IsInjective(<<>>)
    BY DEF IsInjective
  <2> QED BY <2>1, <2>2, <2>3, <2>4 DEF Parted
<1>6. Now'
  BY <1>1, <1>3, <1>4, <1>5 DEF Inv, Now, Sound
<1> QED BY <1>1, <1>2, <1>6 DEF Inv

\* No objects at first.
LEMMA InitInv ==
  Init => Inv
<1> SUFFICES ASSUME Init PROVE Inv
  OBVIOUS
<1>1. Maps(EntryOf(locks), LockSlots, fhs, FhSlots) /\ locks \in [LockSlots -> Lock]
      /\ fhs \in [FhSlots -> EntrySlots \cup {Null}]
  <2>1. NoLock \in Lock
    BY DEF NoLock, Lock
  <2>2. locks \in [LockSlots -> Lock] /\ fhs \in [FhSlots -> EntrySlots \cup {Null}]
    BY <2>1 DEF Init
  <2> QED BY <2>2, SoundMaps
<1>2. /\ entries \in [EntrySlots -> Entry] /\ AllStarts(entries)
      /\ \A e \in EntrySlots : entries[e].refs = 0
  BY NoEntryIs DEF Init, AllStarts
<1>3. /\ \A l \in LockSlots : EntryOf(locks)[l] = Null /\ locks[l].entry = Null
      /\ \A f \in FhSlots : fhs[f] = Null
  BY DEF Init, EntryOf, NoLock
<1>4. /\ \A l \in LockSlots : VolOf(EntryOf(locks), LockSlots, entries)[l] = Null
      /\ \A f \in FhSlots : VolOf(fhs, FhSlots, entries)[f] = Null
  BY <1>3 DEF VolOf
<1>5. Refs(entries, EntryOf(locks), LockSlots, fhs, FhSlots, objects, Null)
  <2>1. \A e \in EntrySlots : Count(EntryOf(locks), LockSlots, e) = 0 /\ Count(fhs, FhSlots, e) = 0
    BY <1>1, <1>3, NullIsNone, CountType DEF Maps
  <2>2. \A v \in Volumes : /\ Count(VolOf(EntryOf(locks), LockSlots, entries), LockSlots, v) = 0
                           /\ Count(VolOf(fhs, FhSlots, entries), FhSlots, v) = 0
    BY <1>1, <1>4, NullIsNone, CountType DEF Maps
  <2>3. \A v \in Volumes : objects[v] = 0
    BY DEF Init
  <2> QED BY <1>2, <2>1, <2>2, <2>3, NullIsNone DEF Refs
<1>6. Parted(entries, <<>>, EntrySlots) /\ entryPool = <<>> /\ entryHeap = EntrySlots
  <2>1. ToSet(<<>>) = {}
    BY DEF ToSet
  <2>2. <<>> \in Seq(EntrySlots) /\ IsInjective(<<>>)
    BY DEF IsInjective
  <2> QED BY <1>2, <2>1, <2>2 DEF Parted, Init
<1>7. Pool(lockPool, LockSlots, {l \in LockSlots : locks[l].entry # Null})
  BY DEF Pool, IsInjective, Init
<1>8. Pool(fhPool, FhSlots, {f \in FhSlots : fhs[f] # Null})
  BY DEF Pool, IsInjective, Init
<1>9. Lists(locks, lockHead, VolOf(EntryOf(locks), LockSlots, entries))
  <2> SUFFICES ASSUME NEW v \in Volumes
               PROVE  IsList(locks, lockHead[v],
                             Mine(VolOf(EntryOf(locks), LockSlots, entries), v), <<>>)
    BY DEF Lists
  <2>1. Mine(VolOf(EntryOf(locks), LockSlots, entries), v) = {}
    BY <1>4, NullIsNone DEF Mine
  <2>2. lockHead[v] = Null
    BY DEF Init
  <2>3. <<>> \in Seq(LockSlots) /\ IsInjective(<<>>) /\ ToSet(<<>>) = {} /\ Len(<<>>) = 0
    BY DEF IsInjective, ToSet
  <2> QED BY <2>1, <2>2, <2>3 DEF IsList
<1>10. /\ lockHead \in [Volumes -> LockSlots \cup {Null}] /\ objects \in [Volumes -> Nat]
       /\ current \in Volumes /\ mounts \in Volumes
  BY ObjectsAssumption DEF Init, Volumes
<1>11. Now
  BY <1>1, <1>2, <1>5, <1>6, <1>7, <1>8, <1>9, <1>10 DEF Now, Sound
<1> QED BY <1>10, <1>11 DEF Inv

\* Every packet keeps the invariant.
LEMMA NextKeeps ==
  Inv /\ [Next]_vars => Inv'
<1> SUFFICES ASSUME Inv, [Next]_vars PROVE Inv'
  OBVIOUS
<1>1. ASSUME UNCHANGED <<entries, locks, fhs, entryPool, lockPool, fhPool, entryHeap, lockHead,
                         objects>>,
             current' \in Volumes \cup {Null}, mounts' \in Volumes
      PROVE  Inv'
  BY <1>1 DEF Inv, Now
<1>2. ASSUME NEW l \in Starts, NEW path \in Paths, ReadSoftLink(l, path)
      PROVE  Inv'
  BY <1>1, <1>2 DEF ReadSoftLink, Inv
<1>3. ASSUME NEW l1, NEW l2, SameLock(l1, l2)
      PROVE  Inv'
  BY <1>1, <1>3 DEF SameLock, Inv
<1>4. CASE UnmountVolume
  BY <1>1, <1>4 DEF UnmountVolume, Inv
<1>5. CASE MountVolume
  <2>1. mounts + 1 \in Volumes
    BY <1>5, ObjectsAssumption DEF MountVolume, Inv, Volumes
  <2> QED BY <1>1, <1>5, <2>1 DEF MountVolume
<1>6. CASE UNCHANGED vars
  BY <1>1, <1>6 DEF vars, Inv
<1> QED BY <1>2, <1>3, <1>4, <1>5, <1>6, LockObjectKeeps, OpenObjectKeeps, DupLockKeeps,
           DupLockFromFhKeeps, DupRootKeeps, ParentKeeps, OpenFromLockKeeps, FreeLockKeeps,
           CloseObjectKeeps, ShutdownKeeps DEF Next

\* The invariant holds at all times.
THEOREM ObjectsSound == Spec => []Inv
BY InitInv, NextKeeps, PTL DEF Spec

-----------------------------------------------------------------------------
(* What follows from the invariant.                                        *)

\* Every variable has its type.
THEOREM TypeCorrect == Spec => []TypeOK
<1>1. Inv => TypeOK
  <2>1. ASSUME Now
        PROVE  lockPool \in Seq(LockSlots) /\ fhPool \in Seq(FhSlots)
               /\ entryPool \in Seq(EntrySlots) /\ entryHeap \subseteq EntrySlots
    BY <2>1 DEF Now, Sound, Pool, Parted
  <2> QED BY <2>1 DEF Inv, Now, Sound, TypeOK, Entry, Lock
<1> QED BY <1>1, ObjectsSound, PTL

\* What an entry remembers of its ancestors is true, for every path the clients
\* use, every state of the directory cache and every way a backend finds parents.
THEOREM AncestryCorrect == Spec => []AncestryTrue
<1>1. Inv => AncestryTrue
  BY DEF Inv, Now, Sound, AllStarts, IsStart, AncestryTrue, UsedEntries
<1> QED BY <1>1, ObjectsSound, PTL

\* No order of duplicates, takeovers, failures and releases leaks an entry, frees
\* it too early or puts an object into a pool twice.
THEOREM RefsCorrect == Spec => []RefsExact
<1>1. ASSUME Now PROVE RefsExact
  <2>0. /\ entries \in [EntrySlots -> Entry] /\ Parted(entries, entryPool, entryHeap)
        /\ locks \in [LockSlots -> Lock] /\ fhs \in [FhSlots -> EntrySlots \cup {Null}]
        /\ Refs(entries, EntryOf(locks), LockSlots, fhs, FhSlots, objects, Null)
        /\ Pool(lockPool, LockSlots, ActiveLocks) /\ Pool(fhPool, FhSlots, ActiveFhs)
    BY <1>1 DEF Now, Sound, ActiveLocks, ActiveFhs
  <2>1. ASSUME NEW e \in EntrySlots
        PROVE  entries[e].refs = Cardinality({l \in ActiveLocks : locks[l].entry = e})
                                 + Cardinality({f \in ActiveFhs : fhs[f] = e})
    <3>1. {l \in ActiveLocks : locks[l].entry = e} = {l \in LockSlots : EntryOf(locks)[l] = e}
      BY NullIsNone DEF ActiveLocks, EntryOf
    <3>2. {f \in ActiveFhs : fhs[f] = e} = {f \in FhSlots : fhs[f] = e}
      BY NullIsNone DEF ActiveFhs
    <3>3. entries[e].refs = Count(EntryOf(locks), LockSlots, e) + Count(fhs, FhSlots, e) + 0
      BY <2>0, NullIsNone DEF Refs
    <3>4. Count(EntryOf(locks), LockSlots, e) \in Nat /\ Count(fhs, FhSlots, e) \in Nat
      BY CountType, ObjectsAssumption
    <3>5. entries[e].refs = Count(EntryOf(locks), LockSlots, e) + Count(fhs, FhSlots, e)
      BY <3>3, <3>4
    <3> QED BY <3>1, <3>2, <3>5 DEF Count
  <2>2. ASSUME NEW v \in Volumes
        PROVE  objects[v] = Cardinality({l \in ActiveLocks : entries[locks[l].entry].vol = v})
                            + Cardinality({f \in ActiveFhs : entries[fhs[f]].vol = v})
    <3>1. {l \in ActiveLocks : entries[locks[l].entry].vol = v} =
            {l \in LockSlots : VolOf(EntryOf(locks), LockSlots, entries)[l] = v}
      BY NullIsNone, VolOfLock DEF ActiveLocks
    <3>2. {f \in ActiveFhs : entries[fhs[f]].vol = v} =
            {f \in FhSlots : VolOf(fhs, FhSlots, entries)[f] = v}
      BY NullIsNone DEF ActiveFhs, VolOf
    <3>3. objects[v] = Count(VolOf(EntryOf(locks), LockSlots, entries), LockSlots, v)
                       + Count(VolOf(fhs, FhSlots, entries), FhSlots, v)
      BY <2>0 DEF Refs
    <3> QED BY <3>1, <3>2, <3>3 DEF Count
  <2>3. IsInjective(entryPool) /\ IsInjective(lockPool) /\ IsInjective(fhPool)
    BY <2>0 DEF Parted, Pool
  <2>4. ToSet(lockPool) \cap ActiveLocks = {} /\ ToSet(fhPool) \cap ActiveFhs = {}
    BY <2>0, InToSet DEF Pool
  <2>5. \A e \in EntrySlots : entries[e].refs \in Nat
    BY <2>0 DEF Entry
  <2>6. \A e \in EntrySlots : e \in UsedEntries <=> e \notin ToSet(entryPool) \cup entryHeap
    BY <2>0, <2>5 DEF Parted, UsedEntries
  <2>7. ToSet(entryPool) \subseteq EntrySlots /\ entryHeap \subseteq EntrySlots
        /\ ToSet(entryPool) \cap entryHeap = {} /\ UsedEntries \subseteq EntrySlots
    BY <2>0, InToSet DEF Parted, UsedEntries
  <2>8. /\ ToSet(entryPool) \cap (UsedEntries \cup entryHeap) = {} /\ UsedEntries \cap entryHeap = {}
        /\ EntrySlots = UsedEntries \cup entryHeap \cup ToSet(entryPool)
    BY <2>6, <2>7
  <2> QED BY <2>1, <2>2, <2>3, <2>4, <2>8 DEF RefsExact
<1> QED BY <1>1, ObjectsSound, PTL DEF Inv

\* As many locks as the sequence of a list is long.
LEMMA ListLength ==
  ASSUME NEW ls, NEW first, NEW mine, NEW q, IsList(ls, first, mine, q)
  PROVE  IsFiniteSet(mine) /\ Cardinality(mine) = Len(q) /\ Len(q) \in Nat
<1>1. q \in Seq(LockSlots) /\ IsInjective(q) /\ ToSet(q) = mine
  BY DEF IsList
<1>2. Len(q) \in Nat /\ DOMAIN q = 1..Len(q) /\ q \in [1..Len(q) -> LockSlots]
  BY <1>1
<1>3. q \in [1..Len(q) -> mine] /\ \A x \in mine : \E i \in 1..Len(q) : q[i] = x
  BY <1>1, <1>2, InToSet
<1>4. \A i, j \in 1..Len(q) : q[i] = q[j] => i = j
  BY <1>1, <1>2 DEF IsInjective
<1> DEFINE n == Len(q)
<1> HIDE DEF n
<1>5. q \in Bijection(1..n, mine)
  BY <1>3, <1>4 DEF n, Bijection, Injection, Surjection, IsInjective
<1>6. ExistsBijection(1..n, mine)
  BY <1>5 DEF ExistsBijection
<1>7. n \in Nat /\ IsFiniteSet(1..n) /\ Cardinality(1..n) = n
  BY <1>2, FS_Interval, SMTT(40) DEF n
<1>8. IsFiniteSet(mine) /\ Cardinality(mine) = n
  BY <1>6, <1>7, FS_Bijection
<1> QED BY <1>2, <1>8 DEF n

\* Following the links of a list from its first member.
LEMMA ChainIs ==
  ASSUME NEW ls, NEW first, NEW mine, NEW q, IsList(ls, first, mine, q), NEW n \in Nat, n = Len(q),
         NEW chain,
         \A i \in 0..n : chain[i] = IF i = 0 THEN first
                                   ELSE IF chain[i - 1] = Null THEN Null ELSE ls[chain[i - 1]].next
  PROVE  \A i \in 0..n : chain[i] = IF i = n THEN Null ELSE q[i + 1]
<1> DEFINE P == {i \in Nat : i <= n => chain[i] = IF i = n THEN Null ELSE q[i + 1]}
<1>1. \A i \in 0..n : chain[i] = IF i = 0 THEN first
                                 ELSE IF chain[i - 1] = Null THEN Null ELSE ls[chain[i - 1]].next
  OBVIOUS
<1>2. 0 \in P
  <2>1. chain[0] = first
    BY <1>1
  <2>2. first = IF n = 0 THEN Null ELSE q[1]
    BY DEF IsList
  <2> QED BY <2>1, <2>2
<1>3. ASSUME NEW i \in P PROVE i + 1 \in P
  <2>1. i \in Nat
    OBVIOUS
  <2>2. ASSUME i + 1 <= n PROVE chain[i + 1] = IF i + 1 = n THEN Null ELSE q[i + 2]
    <3>1. chain[i] = q[i + 1] /\ i + 1 \in 1..n /\ i + 1 \in 0..n /\ i + 1 # 0 /\ (i + 1) - 1 = i
      BY <2>1, <2>2
    <3>2. q[i + 1] # Null
      BY <3>1, NullIsNone DEF IsList
    <3>3. chain[i + 1] = ls[q[i + 1]].next
      BY <1>1, <3>1, <3>2
    <3>4. ls[q[i + 1]].next = IF i + 1 = n THEN Null ELSE q[(i + 1) + 1]
      BY <3>1 DEF IsList
    <3>5. (i + 1) + 1 = i + 2
      BY <2>1
    <3> QED BY <3>3, <3>4, <3>5
  <2>3. i + 1 \in Nat /\ (i + 1) + 1 = i + 2
    BY <2>1
  <2> QED BY <2>2, <2>3
<1>4. P \in SUBSET Nat
  OBVIOUS
<1> HIDE DEF P
<1>5. P = Nat
  BY <1>2, <1>3, <1>4, Searching!NatInd
<1>6. \A i \in Nat : i <= n => chain[i] = IF i = n THEN Null ELSE q[i + 1]
  BY <1>5 DEF P
<1> QED BY <1>6

\* What the links of a list lead to, there and back.
LEMMA ListFollowed ==
  ASSUME NEW ls, NEW first, NEW mine, NEW q, IsList(ls, first, mine, q), NEW n \in Nat, n = Len(q),
         NEW chain, \A i \in 0..n : chain[i] = IF i = n THEN Null ELSE q[i + 1]
  PROVE  /\ {chain[i] : i \in 0..(n - 1)} = mine /\ chain[n] = Null
         /\ \A i \in 0..(n - 1) : ls[chain[i]].prev = IF i = 0 THEN Null ELSE chain[i - 1]
<1>1. \A i \in 0..(n - 1) : chain[i] = q[i + 1] /\ i + 1 \in 1..n
  OBVIOUS
<1>2. DOMAIN q = 1..n /\ ToSet(q) = mine
  BY DEF IsList
<1>3. \A i \in 0..(n - 1) : chain[i] \in mine
  BY <1>1, <1>2, InToSet
<1>4. ASSUME NEW x \in mine PROVE \E i \in 0..(n - 1) : chain[i] = x
  <2>1. PICK j \in 1..n : q[j] = x
    BY <1>2, InToSet
  <2>2. j - 1 \in 0..(n - 1) /\ (j - 1) + 1 = j
    OBVIOUS
  <2>3. chain[j - 1] = x
    BY <1>1, <2>1, <2>2
  <2> QED BY <2>2, <2>3
<1>5. chain[n] = Null
  OBVIOUS
<1>6. ASSUME NEW i \in 0..(n - 1)
      PROVE  ls[chain[i]].prev = IF i = 0 THEN Null ELSE chain[i - 1]
  <2>1. ls[q[i + 1]].prev = IF i + 1 = 1 THEN Null ELSE q[(i + 1) - 1]
    BY <1>1 DEF IsList
  <2>2. i # 0 => i - 1 \in 0..(n - 1) /\ (i - 1) + 1 = i /\ (i + 1) - 1 = i /\ i + 1 # 1
    OBVIOUS
  <2>3. i # 0 => chain[i - 1] = q[i]
    BY <1>1, <2>2
  <2> QED BY <1>1, <2>1, <2>2, <2>3
<1>7. {chain[i] : i \in 0..(n - 1)} = mine
  BY <1>3, <1>4, SMTT(40)
<1> QED BY <1>5, <1>6, <1>7

\* The links of every volume lead through exactly its locks, forwards and back.
THEOREM LockListCorrect == Spec => []LockListExact
<1>1. ASSUME Now PROVE LockListExact
  <2> SUFFICES ASSUME NEW v \in Volumes
               PROVE  LET mine == {l \in ActiveLocks : entries[locks[l].entry].vol = v}
                          N == Cardinality(mine)
                          chain[i \in 0..N] ==
                            IF i = 0 THEN lockHead[v]
                            ELSE IF chain[i - 1] = Null THEN Null ELSE locks[chain[i - 1]].next
                      IN  /\ {chain[i] : i \in 0..(N - 1)} = mine /\ chain[N] = Null
                          /\ \A i \in 0..(N - 1) :
                               locks[chain[i]].prev = IF i = 0 THEN Null ELSE chain[i - 1]
    BY Zenon DEF LockListExact
  <2> DEFINE mine == {l \in ActiveLocks : entries[locks[l].entry].vol = v}
             N == Cardinality(mine)
             follow(f) == [i \in 0..N |-> IF i = 0 THEN lockHead[v]
                                          ELSE IF f[i - 1] = Null THEN Null ELSE locks[f[i - 1]].next]
             chain == CHOOSE f : f = follow(f)
  <2>1. mine = Mine(VolOf(EntryOf(locks), LockSlots, entries), v)
    BY NullIsNone, VolOfLock DEF ActiveLocks, Mine
  <2>2. PICK q : IsList(locks, lockHead[v], mine, q)
    BY <1>1, <2>1 DEF Now, Sound, Lists
  <2> HIDE DEF mine
  <2>3. N \in Nat /\ N = Len(q)
    BY <2>2, ListLength
  <2> DEFINE w == [i \in 0..N |-> IF i = N THEN Null ELSE q[i + 1]]
  <2> HIDE DEF N
  <2>4. w = follow(w)
    <3>1. ASSUME NEW i \in 0..N
          PROVE  w[i] = IF i = 0 THEN lockHead[v]
                        ELSE IF w[i - 1] = Null THEN Null ELSE locks[w[i - 1]].next
      <4>1. CASE i = 0
        <5>1. lockHead[v] = IF N = 0 THEN Null ELSE q[1]
          BY <2>2, <2>3 DEF IsList
        <5> QED BY <4>1, <5>1, <2>3
      <4>2. CASE i # 0
        <5>1. i \in 1..N /\ i - 1 \in 0..N /\ i - 1 # N /\ (i - 1) + 1 = i
          BY <2>3, <4>2
        <5>2. w[i - 1] = q[i] /\ q[i] # Null
          BY <2>2, <2>3, <5>1, NullIsNone DEF IsList
        <5>3. locks[q[i]].next = IF i = N THEN Null ELSE q[i + 1]
          BY <2>2, <2>3, <5>1 DEF IsList
        <5> QED BY <4>2, <5>2, <5>3
      <4> QED BY <4>1, <4>2
    <3> QED BY <3>1
  <2>5. chain = follow(chain)
    <3> HIDE DEF w, follow
    <3> QED BY <2>4
  <2> HIDE DEF chain, w
  <2>6. \A i \in 0..N : chain[i] = IF i = 0 THEN lockHead[v]
                                   ELSE IF chain[i - 1] = Null THEN Null ELSE locks[chain[i - 1]].next
    BY <2>5
  <2>7. \A i \in 0..N : chain[i] = IF i = N THEN Null ELSE q[i + 1]
    BY <2>2, <2>3, <2>6, ChainIs
  <2>8. /\ {chain[i] : i \in 0..(N - 1)} = mine /\ chain[N] = Null
        /\ \A i \in 0..(N - 1) : locks[chain[i]].prev = IF i = 0 THEN Null ELSE chain[i - 1]
    BY <2>2, <2>3, <2>7, ListFollowed
  <2> QED BY <2>8, Zenon DEF chain, N, mine
<1> QED BY <1>1, ObjectsSound, PTL DEF Inv

-----------------------------------------------------------------------------
(* What the search finds.                                                  *)

\* A turn of the search, as one of three steps: it leaves the innermost
\* directory, finds the target, or enters a directory.
Quiet(list, k, target) == list[k] # target /\ list[k] \notin Dirs
Leaves(s, s2, target) ==
  LET n == Len(s.frames)
      top == s.frames[n]
  IN  /\ \A k \in DOMAIN Listing[top.dir] : k > top.resume => Quiet(Listing[top.dir], k, target)
      /\ ~s2.found /\ Len(s2.frames) = n - 1
      /\ \A k \in 1..(n - 1) : s2.frames[k] = s.frames[k]
Enters(s, s2, target, m) ==
  LET n == Len(s.frames)
      top == s.frames[n]
      list == Listing[top.dir]
  IN  /\ m > top.resume /\ list[m] \in Dirs /\ list[m] # target
      /\ \A k \in DOMAIN list : k > top.resume /\ k < m => Quiet(list, k, target)
      /\ ~s2.found /\ Len(s2.frames) = n + 1
      /\ \A k \in 1..(n - 1) : s2.frames[k] = s.frames[k]
      /\ s2.frames[n].dir = top.dir /\ s2.frames[n].resume = m
      /\ s2.frames[n + 1].dir = list[m] /\ s2.frames[n + 1].resume = 0

\* A turn that is taken is one of the three.
LEMMA TurnTaken ==
  ASSUME NEW target \in Places, NEW s, NEW i, SearchGood(s, i, target), s.frames # <<>>, ~s.found
  PROVE  /\ Len(s.frames) \in Nat \ {0}
         /\ \A k \in 1..Len(s.frames) : s.frames[k].dir \in Dirs /\ s.frames[k].resume \in Nat
         /\ \/ Leaves(s, SearchTurn(target, s), target)
            \/ SearchTurn(target, s).found
            \/ \E m \in DOMAIN Listing[s.frames[Len(s.frames)].dir] :
                 Enters(s, SearchTurn(target, s), target, m)
<1> DEFINE F == [dir : Dirs, resume : Nat]
           fs == s.frames
           n == Len(fs)
           top == fs[n]
           list == Listing[top.dir]
           hits == {k \in DOMAIN list : k > top.resume /\ (list[k] = target \/ list[k] \in Dirs)}
           m == Min(hits)
           marked == [top EXCEPT !.resume = m]
           left == Front(fs) \o <<marked>>
           next == [dir |-> list[m], resume |-> 0]
<1>1. s = [frames |-> fs, found |-> s.found] /\ fs \in Seq(F) /\ s.found \in BOOLEAN
  BY SMTT(40) DEF SearchGood
<1>2. \A x \in F : x.dir \in Dirs /\ x.resume \in Nat
  OBVIOUS
<1> HIDE DEF F
<1>3. n \in Nat \ {0} /\ top \in F /\ Last(fs) = top
  BY <1>1, FrontLast
<1>4. \A k \in 1..n : fs[k].dir \in Dirs /\ fs[k].resume \in Nat
  BY <1>1, <1>2
<1>5. top.dir \in Dirs /\ top.resume \in Nat
  BY <1>2, <1>3
<1>6. CASE hits = {}
  <2>1. SearchTurn(target, s) = [frames |-> Front(fs), found |-> FALSE]
    BY <1>1, <1>3, <1>6, Zenon DEF SearchTurn
  <2>2. Len(Front(fs)) = n - 1 /\ \A k \in 1..(n - 1) : Front(fs)[k] = fs[k]
    BY <1>1, FrontLast
  <2>3. \A k \in DOMAIN list : k > top.resume => Quiet(list, k, target)
    BY <1>6, Zenon DEF Quiet
  <2>4. Leaves(s, [frames |-> Front(fs), found |-> FALSE], target)
    BY <2>2, <2>3 DEF Leaves
  <2> QED BY <1>3, <1>4, <2>1, <2>4
<1>7. CASE hits # {}
  <2>1. hits \subseteq DOMAIN list /\ hits \subseteq Nat /\ DOMAIN list \subseteq Nat
    BY <1>5, TreeAssumption
  <2>2. m \in hits /\ m \in Nat /\ \A k \in hits : m <= k
    <3> HIDE DEF hits
    <3> QED BY <2>1, <1>7, MinIn
  <2>3. CASE list[m] = target
    <3>1. SearchTurn(target, s) = [frames |-> fs, found |-> TRUE]
      BY <1>1, <1>3, <1>7, <2>3 DEF SearchTurn
    <3> QED BY <1>3, <1>4, <3>1
  <2>4. CASE list[m] # target
    <3>1. SearchTurn(target, s) = [frames |-> Append(left, next), found |-> FALSE]
      BY <1>1, <1>3, <1>7, <2>4, ZenonT(40) DEF SearchTurn
    <3>2. list[m] \in Dirs /\ m \in DOMAIN list /\ m > top.resume
      BY <2>2, <2>4, ZenonT(40)
    <3>3. \A k \in DOMAIN list : k > top.resume /\ k < m => Quiet(list, k, target)
      <4> TAKE k \in DOMAIN list
      <4> HAVE k > top.resume /\ k < m
      <4>1. k \notin hits
        <5> HIDE DEF hits, m
        <5> QED BY <2>1, <2>2
      <4> QED BY <4>1, Zenon DEF Quiet
    <3>4. marked \in F /\ marked.dir = top.dir /\ marked.resume = m /\ next \in F
          /\ next.dir = list[m] /\ next.resume = 0
      BY <1>3, <2>2, <3>2, Zenon DEF F
    <3> HIDE DEF marked, next, hits
    <3>5. left \in Seq(F) /\ Len(left) = n /\ left[n] = marked
          /\ \A k \in 1..(n - 1) : left[k] = fs[k]
      BY <1>1, <3>4, LastReplaced
    <3> HIDE DEF left
    <3>6. /\ Len(Append(left, next)) = Len(left) + 1 /\ Append(left, next)[Len(left) + 1] = next
          /\ \A k \in 1..Len(left) : Append(left, next)[k] = left[k]
      BY <3>4, <3>5, Appended
    <3> DEFINE new == Append(left, next)
    <3>7. /\ Len(new) = n + 1 /\ new[n + 1] = next /\ new[n] = marked
          /\ \A k \in 1..(n - 1) : new[k] = fs[k]
      BY <1>3, <3>5, <3>6
    <3> HIDE DEF new
    <3>8. SearchTurn(target, s) = [frames |-> new, found |-> FALSE]
      BY <3>1 DEF new
    <3> HIDE DEF m
    <3>9. Enters(s, SearchTurn(target, s), target, m)
      <4> DEFINE s2 == SearchTurn(target, s)
      <4>1. s2.frames = new /\ ~s2.found
        BY <3>8
      <4> HIDE DEF s2
      <4>2. /\ ~s2.found /\ Len(s2.frames) = n + 1
            /\ \A k \in 1..(n - 1) : s2.frames[k] = s.frames[k]
            /\ s2.frames[n].dir = top.dir /\ s2.frames[n].resume = m
            /\ s2.frames[n + 1].dir = list[m] /\ s2.frames[n + 1].resume = 0
        BY <4>1, <3>4, <3>7
      <4>3. Enters(s, s2, target, m)
        BY <4>2, <3>2, <3>3, <2>4, Zenon DEF Enters
      <4> QED BY <4>3 DEF s2
    <3>10. \E k \in DOMAIN list : Enters(s, SearchTurn(target, s), target, k)
      BY <3>2, <3>9, Zenon
    <3> QED BY <1>3, <1>4, <3>10, Zenon
  <2> QED BY <2>3, <2>4
<1> QED BY <1>6, <1>7
\* What the search has done, by the directories E it has entered so far: those
\* of the frames are open, and of the others, and of what an open one's frame
\* has passed, every directory was entered and nothing was the target.  Every
\* turn so far entered a directory or left one.
Passed(s, d, j) ==
  \A k \in 1..Len(s.frames) : s.frames[k].dir = d => j <= s.frames[k].resume
Covers(s, E, target) ==
  /\ E \subseteq Dirs /\ Root \in E
  /\ \A d \in E \ {Root} : Parent[d] \in E
  /\ \A k \in 1..Len(s.frames) : s.frames[k].dir \in E
  /\ \A k, m \in 1..Len(s.frames) : s.frames[k].dir = s.frames[m].dir => k = m
  /\ \A d \in E : \A j \in DOMAIN Listing[d] :
       Passed(s, d, j) => Listing[d][j] # target /\ (Listing[d][j] \in Dirs => Listing[d][j] \in E)
  /\ \A d \in E \ {Root} : \A k \in 1..Len(s.frames) :
       s.frames[k].dir = Parent[d] =>
         \E j \in DOMAIN Listing[Parent[d]] : j <= s.frames[k].resume /\ Listing[Parent[d]][j] = d
CoverGood(s, i, target) ==
  /\ SearchGood(s, i, target)
  /\ ~s.found => \E E : /\ Covers(s, E, target)
                        /\ s.frames # <<>> => i + 1 + Len(s.frames) = 2 * Cardinality(E)
Covering == INSTANCE FoldInduction WITH Step <- SearchStep, Good <- CoverGood

\* Leaving a directory.
LEMMA LeavesCovers ==
  ASSUME NEW target \in Places, NEW s, NEW s2, NEW E, Covers(s, E, target),
         Len(s.frames) \in Nat \ {0}, \A k \in 1..Len(s.frames) : s.frames[k].resume \in Nat,
         Leaves(s, s2, target)
  PROVE  Covers(s2, E, target)
<1> DEFINE n == Len(s.frames)
           top == s.frames[n]
<1>1. /\ \A k \in DOMAIN Listing[top.dir] : k > top.resume => Quiet(Listing[top.dir], k, target)
      /\ Len(s2.frames) = n - 1 /\ \A k \in 1..(n - 1) : s2.frames[k] = s.frames[k]
  BY DEF Leaves
<1>2. n \in Nat \ {0} /\ \A k \in 1..(n - 1) : k \in 1..n
  OBVIOUS
<1>3. n \in 1..n /\ top.resume \in Nat
  BY <1>2
<1>4. ASSUME NEW d \in E, NEW j \in DOMAIN Listing[d], Passed(s2, d, j)
      PROVE  Listing[d][j] # target /\ (Listing[d][j] \in Dirs => Listing[d][j] \in E)
  <2>1. CASE Passed(s, d, j)
    BY <2>1 DEF Covers
  <2>2. CASE ~Passed(s, d, j)
    <3>1. PICK k \in 1..n : s.frames[k].dir = d /\ ~(j <= s.frames[k].resume)
      BY <2>2 DEF Passed
    <3>2. k = n
      <4>1. CASE k \in 1..(n - 1)
        BY <4>1, <3>1, <1>1, <1>4 DEF Passed
      <4> QED BY <4>1, <1>2
    <3>3. d = top.dir /\ ~(j <= top.resume)
      BY <3>1, <3>2
    <3>4. j \in Nat
      BY Listed DEF Covers
    <3>5. Quiet(Listing[d], j, target)
      BY <3>3, <3>4, <1>1, <1>3
    <3> QED BY <3>5 DEF Quiet
  <2> QED BY <2>1, <2>2
<1>5. \A k \in 1..Len(s2.frames) : k \in 1..n /\ s2.frames[k] = s.frames[k]
  BY <1>1, <1>2
<1>6. \A k \in 1..n : s.frames[k].dir \in E
  BY DEF Covers
<1>7. \A k, m \in 1..n : s.frames[k].dir = s.frames[m].dir => k = m
  BY DEF Covers
<1>8. \A d \in E \ {Root} : \A k \in 1..n :
       s.frames[k].dir = Parent[d] =>
         \E j \in DOMAIN Listing[Parent[d]] : j <= s.frames[k].resume /\ Listing[Parent[d]][j] = d
  BY DEF Covers
<1>9. E \subseteq Dirs /\ Root \in E /\ \A d \in E \ {Root} : Parent[d] \in E
  BY DEF Covers
<1> HIDE DEF n, top
<1>10. \A k, m \in 1..Len(s2.frames) : s2.frames[k].dir = s2.frames[m].dir => k = m
  BY <1>5, <1>7, Zenon
<1>11. \A d \in E \ {Root} : \A k \in 1..Len(s2.frames) :
       s2.frames[k].dir = Parent[d] =>
         \E j \in DOMAIN Listing[Parent[d]] : j <= s2.frames[k].resume /\ Listing[Parent[d]][j] = d
  BY <1>5, <1>8, Zenon
<1>12. \A k \in 1..Len(s2.frames) : s2.frames[k].dir \in E
  BY <1>5, <1>6, Zenon
<1> QED BY <1>4, <1>9, <1>10, <1>11, <1>12, Zenon DEF Covers

\* Entering a directory, which was not entered before.
LEMMA EntersCovers ==
  ASSUME PlainTree, NEW target \in Places, NEW s, NEW s2, NEW E, Covers(s, E, target),
         Len(s.frames) \in Nat \ {0}, \A k \in 1..Len(s.frames) : s.frames[k].resume \in Nat,
         NEW m \in DOMAIN Listing[s.frames[Len(s.frames)].dir], Enters(s, s2, target, m)
  PROVE  LET c == Listing[s.frames[Len(s.frames)].dir][m]
         IN  c \notin E /\ Covers(s2, E \cup {c}, target)
<1> DEFINE n == Len(s.frames)
           top == s.frames[n]
           list == Listing[top.dir]
           c == list[m]
           E2 == E \cup {c}
<1>1. /\ m > top.resume /\ c \in Dirs /\ c # target
      /\ \A k \in DOMAIN list : k > top.resume /\ k < m => Quiet(list, k, target)
      /\ Len(s2.frames) = n + 1
      /\ \A k \in 1..(n - 1) : s2.frames[k] = s.frames[k]
      /\ s2.frames[n].dir = top.dir /\ s2.frames[n].resume = m
      /\ s2.frames[n + 1].dir = c /\ s2.frames[n + 1].resume = 0
  BY Zenon DEF Enters
<1>2. n \in Nat \ {0} /\ n \in 1..n /\ top.resume \in Nat
  OBVIOUS
<1>3. /\ E \subseteq Dirs /\ Root \in E /\ \A d \in E \ {Root} : Parent[d] \in E
      /\ \A k \in 1..n : s.frames[k].dir \in E
      /\ \A k, l \in 1..n : s.frames[k].dir = s.frames[l].dir => k = l
  BY DEF Covers
<1>4. top.dir \in E /\ top.dir \in Dirs /\ m \in DOMAIN list
  BY <1>2, <1>3
<1>5. /\ c \in Places \ {Root} /\ Parent[c] = top.dir /\ DOMAIN list \subseteq Nat
      /\ \A j \in DOMAIN list : j > 0
  <2>1. c \in Places \ {Root} /\ Parent[c] = top.dir /\ DOMAIN list \subseteq Nat
    BY <1>4, Listed
  <2>2. list \in Seq(Places \ {Root})
    BY <1>4, TreeAssumption
  <2> HIDE DEF list
  <2> QED BY <2>1, <2>2
<1>6. \A a, b \in DOMAIN list : list[a] = list[b] => a = b
  BY <1>4 DEF PlainTree, IsInjective
<1>7. c \notin E
  <2> SUFFICES ASSUME c \in E PROVE FALSE
    OBVIOUS
  <2>0. \A d \in E \ {Root} : \A k \in 1..Len(s.frames) :
          s.frames[k].dir = Parent[d] => \E j \in DOMAIN Listing[Parent[d]] :
            j <= s.frames[k].resume /\ Listing[Parent[d]][j] = d
    BY Zenon DEF Covers
  <2>1. PICK j \in DOMAIN list : j <= top.resume /\ list[j] = c
    <3>1. c \in E \ {Root} /\ s.frames[n].dir = Parent[c]
      BY <1>5
    <3>2. \E j \in DOMAIN Listing[Parent[c]] :
            j <= s.frames[n].resume /\ Listing[Parent[c]][j] = c
      <4> HIDE DEF c
      <4> QED BY <2>0, <3>1, <1>2
    <3> QED BY <3>2, <1>5
  <2>2. j = m /\ j \in Nat
    BY <2>1, <1>4, <1>5, <1>6, Zenon
  <2>3. j <= top.resume
    BY <2>1
  <2> HIDE DEF top
  <2> QED BY <2>2, <2>3, <1>1, <1>2
<1>8. \A k \in 1..Len(s2.frames) : k \in 1..(n - 1) \/ k = n \/ k = n + 1
  BY <1>1, <1>2
<1>9. \A k \in 1..(n - 1) : k \in 1..n /\ k # n /\ k # n + 1
  BY <1>2
<1>10. \A k \in 1..n : s2.frames[k].dir = s.frames[k].dir
  <2> TAKE k \in 1..n
  <2>1. k \in 1..(n - 1) \/ k = n
    BY <1>2
  <2> QED BY <2>1, <1>1
<1>11. \A k \in 1..n : s.frames[k].resume <= s2.frames[k].resume
  <2> TAKE k \in 1..n
  <2>1. k \in 1..(n - 1) \/ k = n
    BY <1>2
  <2>2. CASE k \in 1..(n - 1)
    <3>1. s2.frames[k] = s.frames[k] /\ s.frames[k].resume \in Nat
      BY <2>2, <1>1
    <3> QED BY <3>1
  <2>3. CASE k = n
    <3>1. m \in Nat
      BY <1>4, <1>5
    <3> QED BY <3>1, <2>3, <1>1, <1>2
  <2> QED BY <2>1, <2>2, <2>3
<1>12. \A k \in 1..Len(s2.frames) : k \in 1..n \/ k = n + 1
  BY <1>1, <1>2
<1>13. \A k \in 1..Len(s2.frames) : s2.frames[k].dir \in E2
  <2> HIDE DEF c
  <2> QED BY <1>1, <1>3, <1>10, <1>12
<1>14. ASSUME NEW k \in 1..Len(s2.frames), NEW l \in 1..Len(s2.frames),
              s2.frames[k].dir = s2.frames[l].dir
       PROVE  k = l
  <2> HIDE DEF c
  <2>1. \A x \in 1..n : s2.frames[x].dir # c
    BY <1>3, <1>7, <1>10
  <2>2. s2.frames[n + 1].dir = c
    BY <1>1
  <2>3. \A x, y \in 1..n : s2.frames[x].dir = s2.frames[y].dir => x = y
    BY <1>3, <1>10, Zenon
  <2> QED BY <2>1, <2>2, <2>3, <1>12, <1>14, Zenon
<1>15. ASSUME NEW d \in E2, NEW j \in DOMAIN Listing[d], Passed(s2, d, j)
       PROVE  Listing[d][j] # target /\ (Listing[d][j] \in Dirs => Listing[d][j] \in E2)
  <2>0. \A x \in 1..(n + 1) : s2.frames[x].dir = d => j <= s2.frames[x].resume
    BY <1>15, <1>1 DEF Passed
  <2>1. CASE d = c
    <3>1. j \in Nat /\ j > 0
      <4>1. Listing[c] \in Seq(Places \ {Root})
        BY <1>1, TreeAssumption
      <4> HIDE DEF c
      <4> QED BY <2>1, <4>1
    <3>2. j <= 0
      BY <2>0, <2>1, <1>1, <1>2
    <3> QED BY <3>1, <3>2
  <2>2. CASE d = top.dir
    <3>1. j \in Nat /\ j <= m /\ m \in Nat
      <4>1. n \in 1..(n + 1)
        BY <1>2
      <4>2. s2.frames[n].dir = d /\ s2.frames[n].resume = m /\ j \in DOMAIN list
        BY <1>1, <2>2, Zenon
      <4>3. j <= s2.frames[n].resume
        BY <2>0, <4>1, <4>2, Zenon
      <4> QED BY <1>4, <1>5, <4>2, <4>3, Zenon
    <3>2. CASE j = m
      BY <3>2, <2>2, <1>1
    <3>3. CASE j # m /\ j > top.resume
      <4>1. Quiet(list, j, target)
        BY <3>1, <3>3, <2>2, <1>1
      <4> QED BY <4>1, <2>2 DEF Quiet
    <3>4. CASE ~(j > top.resume)
      <4>1. j <= top.resume
        BY <3>1, <3>4, <1>2
      <4>2. Passed(s, d, j)
        BY <4>1, <2>2, <1>2, <1>3 DEF Passed
      <4>3. d \in E
        BY <2>2, <1>4
      <4> QED BY <4>2, <4>3 DEF Covers
    <3> QED BY <3>2, <3>3, <3>4
  <2>3. CASE d # c /\ d # top.dir
    <3>1. d \in E
      BY <2>3
    <3>2. Passed(s, d, j)
      <4> SUFFICES ASSUME NEW k \in 1..n, s.frames[k].dir = d
                   PROVE  j <= s.frames[k].resume
        BY DEF Passed
      <4>1. k # n
        BY <2>3
      <4>2. k \in 1..(n - 1) /\ k \in 1..(n + 1)
        BY <4>1, <1>2
      <4> QED BY <4>2, <2>0, <1>1
    <3> QED BY <3>1, <3>2 DEF Covers
  <2> QED BY <2>1, <2>2, <2>3
<1>16. ASSUME NEW d \in E2 \ {Root}, NEW k \in 1..Len(s2.frames), s2.frames[k].dir = Parent[d]
       PROVE  \E j \in DOMAIN Listing[Parent[d]] :
                j <= s2.frames[k].resume /\ Listing[Parent[d]][j] = d
  <2>1. CASE d = c
    <3>1. Parent[d] = top.dir
      BY <2>1, <1>5
    <3>2. k = n
      <4>1. n \in 1..Len(s2.frames) /\ s2.frames[n].dir = s2.frames[k].dir
        BY <3>1, <1>1, <1>2, <1>16
      <4> HIDE DEF top, n
      <4> QED BY <4>1, <1>14
    <3>3. s2.frames[k].resume = m /\ m <= m
      BY <3>2, <1>1, <1>4, <1>5
    <3> QED BY <3>1, <3>3, <2>1, <1>4, Zenon
  <2>2. CASE d # c
    <3>1. d \in E \ {Root} /\ Parent[d] \in E
      BY <2>2, <1>3
    <3>2. k \in 1..n
      BY <3>1, <1>7, <1>12, <1>1, <1>16
    <3>3. s.frames[k].dir = Parent[d]
      BY <3>2, <1>10, <1>16
    <3>4. PICK j \in DOMAIN Listing[Parent[d]] :
            j <= s.frames[k].resume /\ Listing[Parent[d]][j] = d
      BY <3>1, <3>2, <3>3 DEF Covers
    <3>5. j \in Nat /\ s.frames[k].resume \in Nat /\ s2.frames[k].resume \in Nat
      <4>1. j \in Nat
        BY <3>1, <1>3, Listed
      <4>2. k \in 1..(n - 1) \/ k = n
        BY <3>2, <1>2
      <4>3. m \in Nat
        BY <1>4, <1>5
      <4> QED BY <4>1, <4>2, <4>3, <3>2, <1>1
    <3>6. j <= s2.frames[k].resume
      BY <3>4, <3>5, <3>2, <1>11
    <3> QED BY <3>4, <3>6
  <2> QED BY <2>1, <2>2
<1>17. E2 \subseteq Dirs /\ Root \in E2 /\ \A d \in E2 \ {Root} : Parent[d] \in E2
  <2> HIDE DEF c
  <2> QED BY <1>1, <1>3, <1>4, <1>5
<1>18. Covers(s2, E2, target)
  <2> HIDE DEF E2, n, top, list
  <2> QED BY <1>13, <1>14, <1>15, <1>16, <1>17, Zenon DEF Covers
<1> QED BY <1>7, <1>18, Zenon
\* A turn keeps the account.
LEMMA TurnCovers ==
  ASSUME PlainTree, NEW target \in Places, NEW s, NEW i \in Nat, CoverGood(s, i, target)
  PROVE  CoverGood(SearchTurn(target, s), i + 1, target)
<1> DEFINE s2 == SearchTurn(target, s)
           n == Len(s.frames)
<1>1. SearchGood(s, i, target)
  BY DEF CoverGood
<1>2. SearchGood(s2, i + 1, target)
  BY <1>1, SearchTurnGood
<1>3. CASE s.found
  <2>1. s2 = s
    BY <1>3, Zenon DEF SearchTurn
  <2> QED BY <1>2, <1>3, <2>1, Zenon DEF CoverGood
<1>4. CASE ~s.found /\ s.frames = <<>>
  <2>1. s2 = s
    BY <1>4, Zenon DEF SearchTurn
  <2>2. \E E : Covers(s, E, target)
    BY <1>4, Zenon DEF CoverGood
  <2> QED BY <1>2, <1>4, <2>1, <2>2, Zenon DEF CoverGood
<1>5. CASE ~s.found /\ s.frames # <<>>
  <2>1. PICK E : Covers(s, E, target) /\ i + 1 + n = 2 * Cardinality(E)
    BY <1>5, Zenon DEF CoverGood
  <2>2. /\ n \in Nat \ {0}
        /\ \A k \in 1..n : s.frames[k].dir \in Dirs /\ s.frames[k].resume \in Nat
        /\ \/ Leaves(s, s2, target) \/ s2.found
           \/ \E m \in DOMAIN Listing[s.frames[n].dir] : Enters(s, s2, target, m)
    BY <1>1, <1>5, TurnTaken, Zenon
  <2>3. IsFiniteSet(E) /\ Cardinality(E) \in Nat
    <3>1. IsFiniteSet(E)
      BY <2>1, DirPlaces, TreeAssumption, FS_Subset DEF Covers
    <3> QED BY <3>1, FS_CardinalityType
  <2> HIDE DEF s2
  <2>4. CASE s2.found
    BY <2>4, <1>2, Zenon DEF CoverGood, s2
  <2>5. CASE Leaves(s, s2, target)
    <3>1. Covers(s2, E, target)
      BY <2>1, <2>2, <2>5, LeavesCovers
    <3>2. Len(s2.frames) = n - 1
      BY <2>5 DEF Leaves
    <3>3. (i + 1) + 1 + Len(s2.frames) = 2 * Cardinality(E)
      <4> DEFINE K == Cardinality(E)
      <4>1. K \in Nat /\ i + 1 + n = 2 * K /\ n \in Nat
        BY <2>1, <2>2, <2>3
      <4> HIDE DEF n, K
      <4>2. (i + 1) + 1 + (n - 1) = 2 * K
        BY <4>1
      <4> QED BY <3>2, <4>2 DEF n, K
    <3> QED BY <1>2, <3>1, <3>3, Zenon DEF CoverGood, s2
  <2>6. ASSUME NEW m \in DOMAIN Listing[s.frames[n].dir], Enters(s, s2, target, m)
        PROVE  CoverGood(s2, i + 1, target)
    <3> DEFINE c == Listing[s.frames[n].dir][m]
    <3>1. c \notin E /\ Covers(s2, E \cup {c}, target)
      BY <2>1, <2>2, <2>6, EntersCovers
    <3>2. Len(s2.frames) = n + 1
      BY <2>6, Zenon DEF Enters
    <3> HIDE DEF c
    <3>3. Cardinality(E \cup {c}) = Cardinality(E) + 1
      BY <2>3, <3>1, FS_AddElement
    <3>4. (i + 1) + 1 + Len(s2.frames) = 2 * Cardinality(E \cup {c})
      <4> DEFINE K == Cardinality(E)
      <4>1. K \in Nat /\ i + 1 + n = 2 * K /\ n \in Nat
        BY <2>1, <2>2, <2>3
      <4> HIDE DEF n, K
      <4>2. (i + 1) + 1 + (n + 1) = 2 * (K + 1)
        BY <4>1
      <4> QED BY <3>2, <3>3, <4>2 DEF n, K
    <3> QED BY <1>2, <3>1, <3>4, Zenon DEF CoverGood
  <2> QED BY <2>2, <2>4, <2>5, <2>6 DEF s2
<1> QED BY <1>3, <1>4, <1>5

\* The search finds every directory but the root and the CDDA directory, which
\* odfs_resolve_parent_search() is not asked about: it neither runs in circles
\* nor passes a branch over, and it needs no more turns than two for each
\* directory.
THEOREM SearchComplete ==
  ASSUME PlainTree, NEW target \in Dirs \ {Root, CddaRoot}
  PROVE  Search[target].found
<1> DEFINE b == [frames |-> <<[dir |-> Root, resume |-> 0]>>, found |-> FALSE]
           N == 2 * Cardinality(Places) + 1
           s == Search[target]
<1>0. target \in Places
  BY DirPlaces
<1>1. N \in Nat /\ DOMAIN Turns = 1..N /\ Cardinality(Places) \in Nat
  <2>1. Cardinality(Places) \in Nat
    BY TreeAssumption, FS_CardinalityType
  <2> QED BY <2>1 DEF Turns
<1>2. s = Covering!Fold(b, Turns, target)
  BY <1>0 DEF Search, FoldLeft, MapThenFoldSet, Covering!Fold, Max, Covering!Max, SearchStep
<1>3. CoverGood(b, 0, target)
  <2>1. SearchGood(b, 0, target)
    BY DirPlaces DEF SearchGood
  <2>2. b.frames \in Seq([dir : Dirs, resume : Nat]) /\ Len(b.frames) = 1 /\ b.frames[1].dir = Root
        /\ b.frames[1].resume = 0 /\ b.frames # <<>>
    BY DirPlaces
  <2> HIDE DEF b
  <2>3. ASSUME NEW d \in {Root}, NEW j \in DOMAIN Listing[d]
        PROVE  ~Passed(b, d, j)
    <3>1. Listing[Root] \in Seq(Places \ {Root})
      BY DirPlaces, TreeAssumption
    <3>2. j \in Nat /\ j > 0
      BY <3>1
    <3> QED BY <2>2, <3>2 DEF Passed
  <2>4. \A k \in 1..Len(b.frames) : k = 1
    BY <2>2
  <2>5. Covers(b, {Root}, target)
    BY <2>2, <2>3, <2>4, DirPlaces DEF Covers
  <2>6. Cardinality({Root}) = 1
    BY FS_Singleton
  <2> QED BY <2>1, <2>2, <2>5, <2>6 DEF CoverGood
<1>4. ASSUME NEW w, NEW i \in 1..N, CoverGood(w, i - 1, target)
      PROVE  CoverGood(SearchStep(w, Turns[i], target), i, target)
  <2>1. i - 1 \in Nat /\ (i - 1) + 1 = i
    BY <1>1
  <2>2. CoverGood(SearchTurn(target, w), (i - 1) + 1, target)
    BY <1>0, <1>4, <2>1, TurnCovers
  <2> QED BY <2>1, <2>2 DEF SearchStep
<1> HIDE DEF b, N, s
<1>5. CoverGood(s, N, target)
  BY <1>1, <1>2, <1>3, <1>4, Covering!FoldGood
<1>6. SUFFICES ASSUME ~s.found
               PROVE  FALSE
  BY DEF s
<1>7. PICK E : /\ Covers(s, E, target)
               /\ s.frames # <<>> => N + 1 + Len(s.frames) = 2 * Cardinality(E)
  BY <1>5, <1>6, Zenon DEF CoverGood
<1>8. E \subseteq Dirs /\ Root \in E
  BY <1>7 DEF Covers
<1>9. s.frames = <<>>
  <2>1. IsFiniteSet(Places) /\ E \subseteq Places
    BY <1>8, DirPlaces, TreeAssumption
  <2>2. Cardinality(E) \in Nat /\ Cardinality(E) <= Cardinality(Places)
    BY <2>1, FS_Subset, FS_CardinalityType
  <2>3. Len(s.frames) \in Nat
    BY <1>5 DEF CoverGood, SearchGood
  <2> QED BY <1>1, <1>7, <2>2, <2>3 DEF N
<1>10. ASSUME NEW d \in E, NEW p \in ToSet(Listing[d])
       PROVE  p # target /\ (p \in Dirs => p \in E)
  <2>1. PICK j \in DOMAIN Listing[d] : Listing[d][j] = p
    BY DEF ToSet
  <2>2. Passed(s, d, j)
    BY <1>9 DEF Passed
  <2> QED BY <1>7, <2>1, <2>2 DEF Covers
<1>11. ASSUME NEW p \in Dirs \ {Root, CddaRoot}
       PROVE  /\ Parent[p] \in Dirs \ {CddaRoot} /\ p \in ToSet(Listing[Parent[p]])
  BY DirPlaces, TreeAssumption DEF PlainTree
<1>12. Dirs \ {CddaRoot} \subseteq E
  <2> DEFINE S == (Dirs \ E) \ {CddaRoot}
  <2> SUFFICES ASSUME S # {} PROVE FALSE
    OBVIOUS
  <2>1. S \in SUBSET (Places \ {Root})
    BY <1>8, DirPlaces
  <2>2. PICK p \in S : Parent[p] \notin S
    <3> HIDE DEF S
    <3> QED BY <2>1 DEF PlainTree
  <2>3. p \in Dirs \ {Root, CddaRoot}
    BY <1>8
  <2>4. Parent[p] \in E
    BY <1>11, <2>2, <2>3
  <2> QED BY <1>10, <1>11, <2>2, <2>3, <2>4
<1> QED BY <1>10, <1>11, <1>12
-----------------------------------------------------------------------------
(* What a path denotes.                                                    *)

\* A resolver that is asked about a directory has an answer.
LEMMA ParentIsFound ==
  ASSUME PlainTree, NEW place \in Dirs \ {Root, CddaRoot}, NEW by \in Resolvers, NEW id \in Ids
  PROVE  ResolveParent(place, by, id).err = "ok"
BY SearchComplete, DirPlaces DEF ResolveParent, ResolvedBySearch

\* A name in a directory, by the tree and by the lookup.
Named(dir, name) == {p \in Places \ {Root} : Parent[p] = dir /\ NameOf[p] = name}

\* The lookup finds that one place, or says that there is none.
LEMMA NameTells ==
  ASSUME PlainTree, NEW dir \in Dirs, NEW name
  PROVE  /\ InterceptsCdda(dir, name) =>
              /\ Named(dir, name) = {CddaRoot} /\ CddaRoot \in Places /\ KindOf[CddaRoot] = "dir"
              /\ dir = Root
         /\ ~InterceptsCdda(dir, name) /\ Children(dir, name) = {} => Named(dir, name) = {}
         /\ ~InterceptsCdda(dir, name) /\ Children(dir, name) # {} =>
              /\ Named(dir, name) = {ChildNamed(dir, name)}
              /\ ChildNamed(dir, name) \in Places \ {Root} /\ Parent[ChildNamed(dir, name)] = dir
<1>1. \A p, q \in Named(dir, name) : p = q
  BY DEF PlainTree, Named
<1>2. CASE InterceptsCdda(dir, name)
  <2>1. dir = Root /\ CddaRoot \in Places \ {Root} /\ Parent[CddaRoot] = Root
        /\ name = NameOf[CddaRoot]
    BY <1>2, TreeAssumption DEF InterceptsCdda
  <2>2. CddaRoot \in Named(dir, name)
    BY <2>1 DEF Named
  <2> QED BY <1>1, <1>2, <2>1, <2>2 DEF PlainTree
<1>3. CASE ~InterceptsCdda(dir, name)
  <2>1. ASSUME NEW p \in Named(dir, name)
        PROVE  Children(dir, name) # {}
    <3>1. p # CddaRoot
      BY <1>3, TreeAssumption DEF InterceptsCdda, Named
    <3>2. p \in ToSet(Listing[dir])
      BY <3>1, TreeAssumption DEF Named
    <3>3. PICK i \in DOMAIN Listing[dir] : Listing[dir][i] = p
      BY <3>2 DEF ToSet
    <3> QED BY <3>3 DEF Children, Named
  <2>2. CASE Children(dir, name) = {}
    BY <1>3, <2>1, <2>2
  <2>3. CASE Children(dir, name) # {}
    <3>1. ChildNamed(dir, name) \in Named(dir, name)
      BY <2>3, ChildIsChild DEF Named
    <3> QED BY <1>1, <1>3, <2>3, <3>1, ChildIsChild
  <2> QED BY <2>2, <2>3
<1> QED BY <1>2, <1>3

\* What a step of a path denotes, in the terms of the lookup.
LEMMA DenoteName ==
  ASSUME PlainTree, NEW at \in Places, NEW name, name # "/"
  PROVE  DenoteStep([at |-> at, err |-> "ok"], name) =
           IF KindOf[at] # "dir" THEN [at |-> at, err |-> "not dir"]
           ELSE IF InterceptsCdda(at, name) THEN [at |-> CddaRoot, err |-> "ok"]
           ELSE IF Children(at, name) = {} THEN [at |-> at, err |-> "not found"]
           ELSE IF KindOf[ChildNamed(at, name)] = "link" THEN [at |-> at, err |-> "is link"]
           ELSE [at |-> ChildNamed(at, name), err |-> "ok"]
<1> DEFINE d == [at |-> at, err |-> "ok"]
<1>1. DenoteStep(d, name) =
        IF at \notin Dirs THEN [at |-> at, err |-> "not dir"]
        ELSE IF Named(at, name) = {} THEN [at |-> at, err |-> "not found"]
        ELSE IF \E p \in Named(at, name) : KindOf[p] = "link" THEN [at |-> at, err |-> "is link"]
        ELSE [at |-> CHOOSE p \in Named(at, name) : TRUE, err |-> "ok"]
  <2>1. /\ d.at = at /\ d.err = "ok"
        /\ \A x : [d EXCEPT !.err = x] = [at |-> at, err |-> x]
        /\ \A x : [d EXCEPT !.at = x] = [at |-> x, err |-> "ok"]
    OBVIOUS
  <2> HIDE DEF d
  <2>2. {p \in Places \ {Root} : Parent[p] = d.at /\ NameOf[p] = name} = Named(at, name)
    BY <2>1 DEF Named
  <2> QED BY <2>1, <2>2 DEF DenoteStep
<1>2. CASE KindOf[at] # "dir"
  BY <1>1, <1>2, DirPlaces
<1>3. CASE KindOf[at] = "dir"
  <2>1. at \in Dirs
    BY <1>3, DirPlaces
  <2>2. CASE InterceptsCdda(at, name)
    <3>1. Named(at, name) = {CddaRoot} /\ KindOf[CddaRoot] = "dir"
      BY <2>1, <2>2, NameTells
    <3> QED BY <1>1, <1>3, <2>1, <2>2, <3>1
  <2>3. CASE ~InterceptsCdda(at, name) /\ Children(at, name) = {}
    <3>1. Named(at, name) = {}
      BY <2>1, <2>3, NameTells
    <3> QED BY <1>1, <1>3, <2>1, <2>3, <3>1
  <2>4. CASE ~InterceptsCdda(at, name) /\ Children(at, name) # {}
    <3>1. Named(at, name) = {ChildNamed(at, name)}
      BY <2>1, <2>4, NameTells
    <3> QED BY <1>1, <1>3, <2>1, <2>4, <3>1
  <2> QED BY <2>2, <2>3, <2>4
<1> QED BY <1>2, <1>3

\* The steps of the reference.
DenoteElement(d, i, q) == IF IsStep(q, i) THEN DenoteStep(d, q[i]) ELSE d
DenoteGood(d, i, q) == d = [at |-> d.at, err |-> d.err]
Denoting == INSTANCE FoldInduction WITH Step <- DenoteElement, Good <- DenoteGood

\* What the components q denote from a place.
DenotesFrom(place, q) == Denoting!Fold([at |-> place, err |-> "ok"], Indices(q), q)

\* A path denotes what its components behind the colon do.
LEMMA DenotesIs ==
  ASSUME NEW place, NEW path
  PROVE  Denotes(place, path) = DenotesFrom(place, AfterColon(path))
BY DEF Denotes, FoldLeftDomain, FoldLeft, MapThenFoldSet, Denoting!Fold, Max, Denoting!Max,
       DenoteElement, Indices, DenotesFrom

\* The walk stands where the path denotes, and a link that stopped it is in the
\* directory it stands in.
Agree(w, d) ==
  /\ IsWalk(w) /\ Standing(w)
  /\ d = [at |-> w.cur.at, err |-> w.err]
  /\ w.err = "is link" => Parent[w.link] = w.linkDir /\ w.linkDir = w.cur.at

\* A climb goes to the parent, wherever that is found.
LEMMA ClimbAgrees ==
  ASSUME PlainTree, NEW w, NEW by \in Resolvers, NEW id \in Ids, IsWalk(w), Standing(w), w.err = "ok"
  PROVE  LET w2 == Climb(w, by, id) IN w2.err = "ok" /\ w2.cur.at = Parent[w.cur.at]
<1>1. w.cur.at \in Places /\ w.parent.at = Parent[w.cur.at] /\ Parent[Root] = Root
  BY FixedNodes, TreeAssumption DEF Standing
<1>2. CASE Same(w.cur, Root)
  BY <1>1, <1>2 DEF Climb, Same
<1>3. CASE ~Same(w.cur, Root) /\ (Same(w.parent, Root) \/ Same(w.parent, CddaRoot))
  <2>1. Climb(w, by, id) = [cur |-> w.parent, parent |-> RootNode, grand |-> RootNode,
          has |-> TRUE, err |-> w.err, linkDir |-> w.linkDir, link |-> w.link, rest |-> w.rest]
    BY <1>3 DEF Climb, IsWalk
  <2> QED BY <1>1, <2>1
<1>4. CASE /\ ~Same(w.cur, Root) /\ ~(Same(w.parent, Root) \/ Same(w.parent, CddaRoot))
           /\ w.has
  <2>1. Climb(w, by, id) = [cur |-> w.parent, parent |-> w.grand, grand |-> w.cur,
          has |-> FALSE, err |-> w.err, linkDir |-> w.linkDir, link |-> w.link, rest |-> w.rest]
    BY <1>4 DEF Climb, IsWalk
  <2> QED BY <1>1, <2>1
<1>5. CASE /\ ~Same(w.cur, Root) /\ ~(Same(w.parent, Root) \/ Same(w.parent, CddaRoot))
           /\ ~w.has
  <2> DEFINE r == ResolveParent(w.parent.at, by, id)
  <2>1. Climb(w, by, id) = ClimbResolved(w, r)
    BY <1>5 DEF Climb
  <2>2. w.parent.at \in Dirs \ {Root, CddaRoot}
    BY <1>1, <1>5, DirPlaces DEF Same
  <2>3. r.err = "ok"
    BY <2>2, ParentIsFound
  <2> HIDE DEF r
  <2>4. ClimbResolved(w, r) = [cur |-> w.parent, parent |-> r.parent, grand |-> r.grand,
          has |-> TRUE, err |-> w.err, linkDir |-> w.linkDir, link |-> w.link, rest |-> w.rest]
    BY <2>3 DEF ClimbResolved, IsWalk
  <2> QED BY <1>1, <2>1, <2>4
<1> QED BY <1>2, <1>3, <1>4, <1>5

\* A step of the walk is a step of the path.
LEMMA StepAgrees ==
  ASSUME PlainTree, NEW w, NEW d, Agree(w, d), NEW step, NEW by \in Resolvers, NEW id \in Ids
  PROVE  Agree(WalkStep(w, step, by, id), DenoteStep(d, step))
<1> DEFINE w2 == WalkStep(w, step, by, id)
           at == w.cur.at
           child == ChildNamed(at, step)
<1>1. IsWalk(w) /\ Standing(w) /\ d = [at |-> at, err |-> w.err] /\ at \in Places
  BY FixedNodes DEF Agree, Standing
<1>0. ASSUME NEW x, NEW e, IsWalk(x), Standing(x), e = [at |-> x.cur.at, err |-> x.err],
             x.err = "is link" => Parent[x.link] = x.linkDir /\ x.linkDir = x.cur.at
      PROVE  Agree(x, e)
  BY <1>0, Zenon DEF Agree
<1>2. CASE w.err # "ok"
  <2>1. w2 = [cur |-> w.cur, parent |-> w.parent, grand |-> w.grand, has |-> w.has, err |-> w.err,
              linkDir |-> w.linkDir, link |-> w.link, rest |-> Append(w.rest, step)]
    BY <1>1, <1>2 DEF WalkStep, IsWalk
  <2>2. DenoteStep(d, step) = d
    BY <1>1, <1>2 DEF DenoteStep
  <2> HIDE DEF w2
  <2>3. IsWalk(w2) /\ Standing(w2)
    BY <1>1, <2>1 DEF IsWalk, Standing
  <2>4. w2.cur = w.cur /\ w2.err = w.err /\ w2.link = w.link /\ w2.linkDir = w.linkDir
    BY <2>1
  <2>5. w.err = "is link" => Parent[w.link] = w.linkDir /\ w.linkDir = w.cur.at
    BY DEF Agree
  <2>6. Agree(w2, d)
    BY <1>0, <1>1, <2>3, <2>4, <2>5
  <2> QED BY <2>2, <2>6 DEF w2
<1>3. CASE w.err = "ok" /\ step = "/"
  <2>1. w2 = Climb(w, by, id)
    BY <1>3 DEF WalkStep
  <2>2. IsWalk(w2) /\ Standing(w2)
    BY <1>1, <2>1, ClimbStands
  <2>3. w2.err = "ok" /\ w2.cur.at = Parent[at]
    BY <1>1, <1>3, <2>1, ClimbAgrees
  <2>4. DenoteStep(d, step) = [at |-> Parent[at], err |-> "ok"]
    BY <1>1, <1>3 DEF DenoteStep
  <2> QED BY <2>2, <2>3, <2>4 DEF Agree
<1>4. CASE w.err = "ok" /\ step # "/"
  <2>1. w2 = Descend(w, step, id)
    BY <1>4 DEF WalkStep
  <2>2. IsWalk(w2) /\ Standing(w2)
    BY <1>1, <2>1, DescendStands
  <2> DEFINE down(n) == [cur |-> n, parent |-> w.cur, grand |-> w.parent, has |-> TRUE,
               err |-> w.err, linkDir |-> w.linkDir, link |-> w.link, rest |-> w.rest]
             stop(err, dir, link) == [cur |-> w.cur, parent |-> w.parent, grand |-> w.grand,
               has |-> w.has, err |-> err, linkDir |-> dir, link |-> link, rest |-> w.rest]
  <2>3. w2 = IF KindOf[at] # "dir" THEN stop("not dir", w.linkDir, w.link)
             ELSE IF InterceptsCdda(at, step) THEN down(CddaNode)
             ELSE IF Children(at, step) = {} THEN stop("not found", w.linkDir, w.link)
             ELSE IF KindOf[child] = "link" THEN stop("is link", at, child)
             ELSE down([at |-> child, id |-> id])
    BY <1>1, <2>1 DEF Descend, Failed, IsWalk
  <2>4. DenoteStep(d, step) =
          IF KindOf[at] # "dir" THEN [at |-> at, err |-> "not dir"]
          ELSE IF InterceptsCdda(at, step) THEN [at |-> CddaRoot, err |-> "ok"]
          ELSE IF Children(at, step) = {} THEN [at |-> at, err |-> "not found"]
          ELSE IF KindOf[child] = "link" THEN [at |-> at, err |-> "is link"]
          ELSE [at |-> child, err |-> "ok"]
    BY <1>1, <1>4, DenoteName
  <2> DEFINE d2 == DenoteStep(d, step)
  <2>5. CASE KindOf[at] # "dir"
    <3>1. w2 = stop("not dir", w.linkDir, w.link) /\ d2 = [at |-> at, err |-> "not dir"]
      BY <2>3, <2>4, <2>5
    <3> HIDE DEF w2, d2
    <3>2. w2.cur = w.cur /\ w2.err = "not dir"
      BY <3>1
    <3>3. Agree(w2, d2)
      BY <1>0, <2>2, <3>1, <3>2
    <3> QED BY <3>3 DEF w2, d2
  <2>6. CASE KindOf[at] = "dir" /\ InterceptsCdda(at, step)
    <3>1. w2 = down(CddaNode) /\ d2 = [at |-> CddaRoot, err |-> "ok"]
      BY <2>3, <2>4, <2>6
    <3> HIDE DEF w2, d2
    <3>2. w2.cur.at = CddaRoot /\ w2.err = "ok"
      BY <1>4, <2>6, <3>1 DEF CddaNode
    <3>3. Agree(w2, d2)
      BY <1>0, <2>2, <3>1, <3>2
    <3> QED BY <3>3 DEF w2, d2
  <2>7. CASE KindOf[at] = "dir" /\ ~InterceptsCdda(at, step) /\ Children(at, step) = {}
    <3>1. w2 = stop("not found", w.linkDir, w.link) /\ d2 = [at |-> at, err |-> "not found"]
      BY <2>3, <2>4, <2>7
    <3> HIDE DEF w2, d2
    <3>2. w2.cur = w.cur /\ w2.err = "not found"
      BY <3>1
    <3>3. Agree(w2, d2)
      BY <1>0, <2>2, <3>1, <3>2
    <3> QED BY <3>3 DEF w2, d2
  <2>8. CASE KindOf[at] = "dir" /\ ~InterceptsCdda(at, step) /\ Children(at, step) # {}
    <3>1. Parent[child] = at
      BY <1>1, <2>8, DirPlaces, NameTells
    <3>2. CASE KindOf[child] = "link"
      <4>1. w2 = stop("is link", at, child) /\ d2 = [at |-> at, err |-> "is link"]
        BY <2>3, <2>4, <2>8, <3>2
      <4> HIDE DEF w2, d2, child
      <4>2. w2.cur = w.cur /\ w2.err = "is link" /\ w2.linkDir = at /\ w2.link = child
        BY <4>1
      <4>3. Agree(w2, d2)
        BY <1>0, <2>2, <3>1, <4>1, <4>2
      <4> QED BY <4>3 DEF w2, d2
    <3>3. CASE KindOf[child] # "link"
      <4>1. w2 = down([at |-> child, id |-> id]) /\ d2 = [at |-> child, err |-> "ok"]
        BY <2>3, <2>4, <2>8, <3>3
      <4> HIDE DEF w2, d2, child
      <4>2. w2.cur.at = child /\ w2.err = "ok"
        BY <1>4, <4>1
      <4>3. Agree(w2, d2)
        BY <1>0, <2>2, <4>1, <4>2
      <4> QED BY <4>3 DEF w2, d2
    <3> QED BY <3>2, <3>3
  <2> QED BY <2>5, <2>6, <2>7, <2>8
<1> QED BY <1>2, <1>3, <1>4

\* resolve_amiga_path() ends where the path leads, with the error the path
\* deserves: at every step the walk stands where the reference does.
THEOREM WalkExact ==
  ASSUME PlainTree, NEW start, IsStart(start), NEW S, NEW path \in Seq(S), NEW by \in Resolvers,
         NEW id \in Ids
  PROVE  Agree(ResolveAmigaPath(start, path, by, id), Denotes(start.node.at, path))
<1> DEFINE q == AfterColon(path)
           n == Len(q)
           p == <<q, by, id>>
           b == WalkFrom(start)
           c == [at |-> start.node.at, err |-> "ok"]
<1>1. q \in Seq(S) /\ n \in Nat /\ DOMAIN q = 1..n
  BY AfterColonSeq
<1>2. ResolveAmigaPath(start, path, by, id) = Walking!Fold(b, Indices(q), p)
  BY DEF ResolveAmigaPath, FoldLeftDomain, FoldLeft, MapThenFoldSet, Walking!Fold, Max,
         Walking!Max, WalkElement, Indices
<1>3. Denotes(start.node.at, path) = Denoting!Fold(c, Indices(q), q)
  BY DenotesIs DEF DenotesFrom
<1> HIDE DEF q, n
<1>4. DOMAIN Indices(q) = 1..n /\ \A i \in 1..n : Indices(q)[i] = i
  BY <1>1 DEF Indices
<1>5. Agree(b, c)
  <2>1. IsWalk(b) /\ Standing(b)
    BY WalkFromStands
  <2>2. b.cur = start.node /\ b.err = "ok"
    BY DEF WalkFrom
  <2> HIDE DEF b
  <2> QED BY <2>1, <2>2 DEF Agree
<1>6. PICK f : /\ f[0] = b /\ Walking!Fold(b, Indices(q), p) = f[n]
               /\ \A i \in 1..n : f[i] = WalkElement(f[i - 1], Indices(q)[i], p)
  <2> HIDE DEF b, p
  <2> DEFINE seq == Indices(q)
  <2>1. DOMAIN seq = 1..n
    BY <1>4
  <2> HIDE DEF seq
  <2>2. PICK f : Walking!States(f, b, seq, n, p) /\ Walking!Fold(b, seq, p) = f[n]
    BY <1>1, <2>1, Walking!FoldRun
  <2>3. f[0] = b /\ \A i \in 1..n : f[i] = WalkElement(f[i - 1], seq[i], p)
    BY <2>2 DEF Walking!States
  <2> QED BY <2>2, <2>3 DEF seq
<1>7. PICK g : /\ g[0] = c /\ Denoting!Fold(c, Indices(q), q) = g[n]
               /\ \A i \in 1..n : g[i] = DenoteElement(g[i - 1], Indices(q)[i], q)
  <2> HIDE DEF c
  <2> DEFINE seq == Indices(q)
  <2>1. DOMAIN seq = 1..n
    BY <1>4
  <2> HIDE DEF seq
  <2>2. PICK g : Denoting!States(g, c, seq, n, q) /\ Denoting!Fold(c, seq, q) = g[n]
    BY <1>1, <2>1, Denoting!FoldRun
  <2>3. g[0] = c /\ \A i \in 1..n : g[i] = DenoteElement(g[i - 1], seq[i], q)
    BY <2>2 DEF Denoting!States
  <2> QED BY <2>2, <2>3 DEF seq
<1>8. ASSUME NEW i \in 1..n, Agree(f[i - 1], g[i - 1])
      PROVE  Agree(f[i], g[i])
  <2>1. f[i] = IF IsStep(q, i) THEN WalkStep(f[i - 1], q[i], by, id) ELSE f[i - 1]
    BY <1>4, <1>6 DEF WalkElement
  <2>2. g[i] = IF IsStep(q, i) THEN DenoteStep(g[i - 1], q[i]) ELSE g[i - 1]
    BY <1>4, <1>7 DEF DenoteElement
  <2> QED BY <1>8, <2>1, <2>2, StepAgrees
<1> HIDE DEF b, c, p
<1> DEFINE P == {m \in Nat : m <= n => Agree(f[m], g[m])}
<1>9. 0 \in P
  BY <1>5, <1>6, <1>7
<1>10. ASSUME NEW m \in P
       PROVE  m + 1 \in P
  <2>1. SUFFICES ASSUME m + 1 <= n
                 PROVE  Agree(f[m + 1], g[m + 1])
    OBVIOUS
  <2>2. m + 1 \in 1..n /\ (m + 1) - 1 = m /\ Agree(f[m], g[m])
    BY <1>1, <2>1
  <2> QED BY <1>8, <2>2
<1> HIDE DEF P
<1>11. P = Nat
  <2>1. P \in SUBSET Nat
    BY DEF P
  <2> QED BY <1>9, <1>10, <2>1, Searching!NatInd
<1>12. Agree(f[n], g[n])
  BY <1>1, <1>11 DEF P
<1> QED BY <1>2, <1>3, <1>6, <1>7, <1>12

\* The cache's walk, while it has an answer, and the answers it gives.
RingAgrees(w, d) ==
  /\ w.dir \in Places /\ (CddaRoot = NoPlace \/ w.dir # Root)
  /\ w.err = "ok" => d = [at |-> w.dir, err |-> "ok"]
  /\ w.err \notin {"ok", "unsupported"} => d.err = w.err

\* A step of the cached lookup is a step of the path.
LEMMA RingStepAgrees ==
  ASSUME PlainTree, NEW cached, NEW w, w = [dir |-> w.dir, ring |-> w.ring, err |-> w.err],
         NEW d, RingAgrees(w, d), NEW step
  PROVE  LET w2 == MetaStep(cached, w, step)
         IN  /\ RingAgrees(w2, DenoteStep(d, step))
             /\ w2 = [dir |-> w2.dir, ring |-> w2.ring, err |-> w2.err]
<1> DEFINE w2 == MetaStep(cached, w, step)
           d2 == DenoteStep(d, step)
           at == w.dir
           child == ChildNamed(at, step)
           stop(err) == [dir |-> w.dir, ring |-> w.ring, err |-> err]
<1>1. at \in Places /\ (CddaRoot = NoPlace \/ at # Root)
  BY DEF RingAgrees
<1>2. ASSUME NEW err, w2 = stop(err), err \notin {"ok", "unsupported"} => d2.err = err, err # "ok"
      PROVE  RingAgrees(w2, d2) /\ w2 = [dir |-> w2.dir, ring |-> w2.ring, err |-> w2.err]
  <2> HIDE DEF w2, d2
  <2>1. w2.dir = at /\ w2.err = err /\ w2.ring = w.ring
    BY <1>2
  <2> QED BY <1>1, <1>2, <2>1 DEF RingAgrees
<1>3. CASE w.err # "ok"
  <2>1. w2 = w
    BY <1>3 DEF MetaStep
  <2>2. w.err \notin {"ok", "unsupported"} => d2 = d
    BY <1>3, Zenon DEF RingAgrees, DenoteStep
  <2> QED BY <1>3, <2>1, <2>2 DEF RingAgrees
<1>4. CASE w.err = "ok" /\ step = "/"
  <2>1. w2 = stop("unsupported")
    BY <1>4 DEF MetaStep
  <2> HIDE DEF w2, d2
  <2>2. RingAgrees(w2, d2) /\ w2 = [dir |-> w2.dir, ring |-> w2.ring, err |-> w2.err]
    BY <1>2, <2>1
  <2> QED BY <2>2 DEF w2, d2
<1>5. CASE w.err = "ok" /\ step # "/"
  <2>0. d = [at |-> at, err |-> "ok"]
    BY <1>5 DEF RingAgrees
  <2>1. d2 = IF KindOf[at] # "dir" THEN [at |-> at, err |-> "not dir"]
             ELSE IF InterceptsCdda(at, step) THEN [at |-> CddaRoot, err |-> "ok"]
             ELSE IF Children(at, step) = {} THEN [at |-> at, err |-> "not found"]
             ELSE IF KindOf[child] = "link" THEN [at |-> at, err |-> "is link"]
             ELSE [at |-> child, err |-> "ok"]
    BY <1>1, <1>5, <2>0, DenoteName
  <2>2. w2 = IF KindOf[at] # "dir" THEN stop("not dir")
             ELSE IF at \notin cached THEN stop("unsupported")
             ELSE IF Children(at, step) = {} THEN stop("not found")
             ELSE IF KindOf[child] = "link" THEN stop("unsupported")
             ELSE [dir |-> child, ring |-> Append(w.ring, child), err |-> "ok"]
    <3>1. \A x : [w EXCEPT !.err = x] = stop(x)
      OBVIOUS
    <3>2. [w EXCEPT !.dir = child, !.ring = Append(@, child)] =
            [dir |-> child, ring |-> Append(w.ring, child), err |-> "ok"]
      <4> DEFINE v == [w EXCEPT !.dir = child, !.ring = Append(@, child)]
      <4>1. DOMAIN w = {"dir", "ring", "err"} /\ w.err = "ok"
        BY <1>5
      <4> HIDE DEF child
      <4>2. v.dir = child /\ v.ring = Append(w.ring, child) /\ v.err = "ok"
        BY <4>1
      <4>3. DOMAIN v = {"dir", "ring", "err"} /\ v = [x \in DOMAIN v |-> v[x]]
        BY <4>1
      <4> HIDE DEF v
      <4>4. v = [dir |-> child, ring |-> Append(w.ring, child), err |-> "ok"]
        BY <4>2, <4>3
      <4> QED BY <4>4 DEF v
    <3> HIDE DEF stop
    <3> QED BY <1>5, <3>1, <3>2 DEF MetaStep
  <2>3. KindOf[at] = "dir" => ~InterceptsCdda(at, step)
    BY <1>1, DirPlaces, NameTells, TreeAssumption DEF InterceptsCdda
  <2> HIDE DEF w2, d2
  <2>4. CASE \/ KindOf[at] # "dir" \/ at \notin cached \/ Children(at, step) = {}
             \/ KindOf[child] = "link"
    <3>1. PICK err \in {"not dir", "unsupported", "not found"} :
            w2 = stop(err) /\ (err # "unsupported" => d2 = [at |-> at, err |-> err])
      <4> HIDE DEF child, stop
      <4>1. CASE KindOf[at] # "dir"
        BY <4>1, <2>1, <2>2
      <4>2. CASE KindOf[at] = "dir" /\ at \notin cached
        BY <4>2, <2>2
      <4>3. CASE KindOf[at] = "dir" /\ at \in cached /\ Children(at, step) = {}
        BY <4>3, <2>1, <2>2, <2>3
      <4>4. CASE /\ KindOf[at] = "dir" /\ at \in cached /\ Children(at, step) # {}
                 /\ KindOf[child] = "link"
        BY <4>4, <2>2
      <4> QED BY <2>4, <4>1, <4>2, <4>3, <4>4
    <3>2. RingAgrees(w2, d2) /\ w2 = [dir |-> w2.dir, ring |-> w2.ring, err |-> w2.err]
      <4>1. w2 = stop(err) /\ err # "ok"
        BY <3>1
      <4>2. err \notin {"ok", "unsupported"} => d2.err = err
        <5>1. ASSUME err # "unsupported"
              PROVE  d2.err = err
          <6>1. d2 = [at |-> at, err |-> err]
            BY <3>1, <5>1
          <6> HIDE DEF at
          <6> QED BY <6>1
        <5> QED BY <5>1
      <4> HIDE DEF stop
      <4> QED BY <1>2, <4>1, <4>2, Zenon
    <3> QED BY <3>2 DEF w2, d2
  <2>5. CASE ~(\/ KindOf[at] # "dir" \/ at \notin cached \/ Children(at, step) = {}
               \/ KindOf[child] = "link")
    <3>1. w2 = [dir |-> child, ring |-> Append(w.ring, child), err |-> "ok"]
          /\ d2 = [at |-> child, err |-> "ok"]
      BY <2>1, <2>2, <2>3, <2>5
    <3>2. child \in Places \ {Root}
      BY <1>1, <2>3, <2>5, DirPlaces, NameTells
    <3> HIDE DEF child
    <3>3. w2.dir = child /\ w2.err = "ok"
      BY <3>1
    <3>4. RingAgrees(w2, d2) /\ w2 = [dir |-> w2.dir, ring |-> w2.ring, err |-> w2.err]
      BY <3>1, <3>2, <3>3 DEF RingAgrees
    <3> QED BY <3>4 DEF w2, d2
  <2> QED BY <2>4, <2>5
<1> QED BY <1>3, <1>4, <1>5

\* odfs_meta_lookup_path() finds what the path denotes, and what it refuses is
\* not there.
THEOREM RingExact ==
  ASSUME PlainTree, NEW cached, NEW dir \in Places, CddaRoot = NoPlace \/ dir # Root,
         NEW S, NEW q \in Seq(S)
  PROVE  RingAgrees(MetaLookupPath(cached, dir, q), DenotesFrom(dir, q))
<1> DEFINE n == Len(q)
           p == <<q, cached, dir>>
           b == [dir |-> dir, ring |-> <<>>, err |-> "ok"]
           c == [at |-> dir, err |-> "ok"]
           IsRing(w) == w = [dir |-> w.dir, ring |-> w.ring, err |-> w.err]
<1>1. n \in Nat /\ DOMAIN q = 1..n
  OBVIOUS
<1>2. MetaLookupPath(cached, dir, q) = Ringing!Fold(b, Indices(q), p)
  BY DEF MetaLookupPath, FoldLeftDomain, FoldLeft, MapThenFoldSet, Ringing!Fold, Max,
         Ringing!Max, RingElement, Indices
<1>3. DenotesFrom(dir, q) = Denoting!Fold(c, Indices(q), q)
  BY DEF DenotesFrom
<1> HIDE DEF n
<1>4. DOMAIN Indices(q) = 1..n /\ \A i \in 1..n : Indices(q)[i] = i
  BY <1>1 DEF Indices
<1>5. RingAgrees(b, c) /\ IsRing(b)
  BY DEF RingAgrees
<1>6. PICK f : /\ f[0] = b /\ Ringing!Fold(b, Indices(q), p) = f[n]
               /\ \A i \in 1..n : f[i] = RingElement(f[i - 1], Indices(q)[i], p)
  <2> HIDE DEF b, p
  <2> DEFINE seq == Indices(q)
  <2>1. DOMAIN seq = 1..n
    BY <1>4
  <2> HIDE DEF seq
  <2>2. PICK f : Ringing!States(f, b, seq, n, p) /\ Ringing!Fold(b, seq, p) = f[n]
    BY <1>1, <2>1, Ringing!FoldRun
  <2>3. f[0] = b /\ \A i \in 1..n : f[i] = RingElement(f[i - 1], seq[i], p)
    BY <2>2 DEF Ringing!States
  <2> QED BY <2>2, <2>3 DEF seq
<1>7. PICK g : /\ g[0] = c /\ Denoting!Fold(c, Indices(q), q) = g[n]
               /\ \A i \in 1..n : g[i] = DenoteElement(g[i - 1], Indices(q)[i], q)
  <2> HIDE DEF c
  <2> DEFINE seq == Indices(q)
  <2>1. DOMAIN seq = 1..n
    BY <1>4
  <2> HIDE DEF seq
  <2>2. PICK g : Denoting!States(g, c, seq, n, q) /\ Denoting!Fold(c, seq, q) = g[n]
    BY <1>1, <2>1, Denoting!FoldRun
  <2>3. g[0] = c /\ \A i \in 1..n : g[i] = DenoteElement(g[i - 1], seq[i], q)
    BY <2>2 DEF Denoting!States
  <2> QED BY <2>2, <2>3 DEF seq
<1>8. ASSUME NEW i \in 1..n, RingAgrees(f[i - 1], g[i - 1]), IsRing(f[i - 1])
      PROVE  RingAgrees(f[i], g[i]) /\ IsRing(f[i])
  <2>1. f[i] = IF IsStep(q, i) THEN MetaStep(cached, f[i - 1], q[i]) ELSE f[i - 1]
    BY <1>4, <1>6 DEF RingElement
  <2>2. g[i] = IF IsStep(q, i) THEN DenoteStep(g[i - 1], q[i]) ELSE g[i - 1]
    BY <1>4, <1>7 DEF DenoteElement
  <2>3. /\ RingAgrees(MetaStep(cached, f[i - 1], q[i]), DenoteStep(g[i - 1], q[i]))
        /\ IsRing(MetaStep(cached, f[i - 1], q[i]))
    BY <1>8, RingStepAgrees
  <2> HIDE DEF IsRing
  <2> QED BY <1>8, <2>1, <2>2, <2>3
<1> HIDE DEF b, c, p, IsRing
<1> DEFINE P == {m \in Nat : m <= n => RingAgrees(f[m], g[m]) /\ IsRing(f[m])}
<1>9. 0 \in P
  BY <1>5, <1>6, <1>7
<1>10. ASSUME NEW m \in P
       PROVE  m + 1 \in P
  <2>1. SUFFICES ASSUME m + 1 <= n
                 PROVE  RingAgrees(f[m + 1], g[m + 1]) /\ IsRing(f[m + 1])
    OBVIOUS
  <2>2. m + 1 \in 1..n /\ (m + 1) - 1 = m /\ RingAgrees(f[m], g[m]) /\ IsRing(f[m])
    BY <1>1, <2>1
  <2> QED BY <1>8, <2>2
<1> HIDE DEF P
<1>11. P = Nat
  <2>1. P \in SUBSET Nat
    BY DEF P
  <2> QED BY <1>9, <1>10, <2>1, Searching!NatInd
<1>12. RingAgrees(f[n], g[n])
  BY <1>1, <1>11 DEF P
<1> QED BY <1>2, <1>3, <1>6, <1>7, <1>12
-----------------------------------------------------------------------------
(* Answers.                                                                *)

\* An answer is right if it names the place, or the error, the path denotes.
Right(r, d) == r.err = d.err /\ (r.err = "ok" => r.node.at = d.at)

\* A path of one name, and none.
LEMMA DenotesOne ==
  ASSUME NEW place, NEW S, NEW q \in Seq(S)
  PROVE  /\ q = <<>> => DenotesFrom(place, q) = [at |-> place, err |-> "ok"]
         /\ Len(q) = 1 => DenotesFrom(place, q) = DenoteStep([at |-> place, err |-> "ok"], q[1])
<1> DEFINE c == [at |-> place, err |-> "ok"]
           seq == Indices(q)
           n == Len(q)
<1>1. n \in Nat /\ DOMAIN q = 1..n /\ DOMAIN seq = 1..n /\ DenotesFrom(place, q) = Denoting!Fold(c, seq, q)
  BY DEF Indices, DenotesFrom
<1>2. CASE q = <<>>
  <2>1. n = 0
    BY <1>2
  <2> HIDE DEF c, seq, n
  <2>2. PICK g : Denoting!States(g, c, seq, n, q) /\ Denoting!Fold(c, seq, q) = g[n]
    BY <1>1, Denoting!FoldRun
  <2>3. g[0] = c
    BY <2>2 DEF Denoting!States
  <2> QED BY <1>1, <1>2, <2>1, <2>2, <2>3 DEF c, n
<1>3. CASE n = 1
  <2>1. DOMAIN seq = 1..1 /\ seq[1] = 1 /\ IsStep(q, 1)
    BY <1>1, <1>3 DEF Indices, IsStep
  <2> HIDE DEF c, seq
  <2>2. Denoting!Fold(c, seq, q) = DenoteElement(c, seq[1], q)
    BY <2>1, Denoting!FoldOne
  <2>3. DenoteElement(c, seq[1], q) = DenoteStep(c, q[1])
    BY <2>1 DEF DenoteElement
  <2> QED BY <1>1, <1>3, <2>2, <2>3 DEF c
<1> QED BY <1>2, <1>3

\* One name, looked up.
LEMMA LookupRight ==
  ASSUME PlainTree, NEW start, IsStart(start), NEW id \in Ids, NEW name, name # "/"
  PROVE  Right(FromLookup(start, name, id), DenoteStep([at |-> start.node.at, err |-> "ok"], name))
<1> DEFINE at == start.node.at
           child == ChildNamed(at, name)
           r == FromLookup(start, name, id)
           d == DenoteStep([at |-> at, err |-> "ok"], name)
<1>1. at \in Places
  BY FixedNodes DEF IsStart
<1>2. d = IF KindOf[at] # "dir" THEN [at |-> at, err |-> "not dir"]
          ELSE IF InterceptsCdda(at, name) THEN [at |-> CddaRoot, err |-> "ok"]
          ELSE IF Children(at, name) = {} THEN [at |-> at, err |-> "not found"]
          ELSE IF KindOf[child] = "link" THEN [at |-> at, err |-> "is link"]
          ELSE [at |-> child, err |-> "ok"]
  BY <1>1, DenoteName
<1>3. r = IF KindOf[at] # "dir" THEN NotFound("not dir")
          ELSE IF InterceptsCdda(at, name) THEN SingleParents(start, CddaNode)
          ELSE IF Children(at, name) = {} THEN NotFound("not found")
          ELSE IF KindOf[child] = "link" THEN NotFound("is link")
          ELSE SingleParents(start, [at |-> child, id |-> id])
  BY DEF FromLookup
<1>4. \A err : NotFound(err).err = err
  BY NotFoundIs
<1>5. \A node : SingleParents(start, node).err = "ok" /\ SingleParents(start, node).node = node
  BY DEF SingleParents, Found
<1> HIDE DEF r, d, child
<1> SUFFICES Right(r, d)
  BY DEF r, d
<1>6. CASE KindOf[at] # "dir"
  <2>1. r.err = "not dir" /\ d.err = "not dir"
    BY <1>2, <1>3, <1>4, <1>6
  <2> QED BY <2>1 DEF Right
<1>7. CASE KindOf[at] = "dir" /\ InterceptsCdda(at, name)
  <2>1. r.err = "ok" /\ d.err = "ok" /\ r.node.at = d.at
    BY <1>2, <1>3, <1>5, <1>7 DEF CddaNode
  <2> QED BY <2>1 DEF Right
<1>8. CASE KindOf[at] = "dir" /\ ~InterceptsCdda(at, name) /\ Children(at, name) = {}
  <2>1. r.err = "not found" /\ d.err = "not found"
    BY <1>2, <1>3, <1>4, <1>8
  <2> QED BY <2>1 DEF Right
<1>9. CASE /\ KindOf[at] = "dir" /\ ~InterceptsCdda(at, name) /\ Children(at, name) # {}
           /\ KindOf[child] = "link"
  <2>1. r.err = "is link" /\ d.err = "is link"
    BY <1>2, <1>3, <1>4, <1>9
  <2> QED BY <2>1 DEF Right
<1>10. CASE /\ KindOf[at] = "dir" /\ ~InterceptsCdda(at, name) /\ Children(at, name) # {}
            /\ KindOf[child] # "link"
  <2>1. r = SingleParents(start, [at |-> child, id |-> id]) /\ d = [at |-> child, err |-> "ok"]
    BY <1>2, <1>3, <1>10, Zenon
  <2>2. r.err = "ok" /\ r.node = [at |-> child, id |-> id]
    BY <1>5, <2>1
  <2> QED BY <2>1, <2>2 DEF Right
<1> QED BY <1>6, <1>7, <1>8, <1>9, <1>10

\* Without the cache.
LEMMA UncachedRight ==
  ASSUME PlainTree, NEW start, IsStart(start), NEW S, NEW path \in Seq(S), PlainPath(path),
         NEW by \in Resolvers, NEW id \in Ids
  PROVE  Right(ResolveUncached(start, path, by, id), Denotes(start.node.at, path))
<1> DEFINE q == AfterColon(path)
           w == ResolveAmigaPath(start, path, by, id)
           d == Denotes(start.node.at, path)
<1>1. q \in Seq(S)
  BY AfterColonSeq
<1>2. CASE "/" \in ToSet(q)
  <2>1. ResolveUncached(start, path, by, id) = FromWalk(w)
    BY <1>2 DEF ResolveUncached
  <2>2. Agree(w, d)
    BY WalkExact
  <2> HIDE DEF w, d
  <2>3. w.err = d.err /\ w.cur.at = d.at
    BY <2>2 DEF Agree
  <2>4. FromWalk(w).err = w.err /\ (w.err = "ok" => FromWalk(w).node = w.cur)
    BY NotFoundIs DEF FromWalk, Found
  <2>5. Right(FromWalk(w), d)
    BY <2>3, <2>4 DEF Right
  <2> QED BY <2>1, <2>5 DEF d
<1>3. CASE "/" \notin ToSet(q) /\ q = <<>>
  <2>1. ResolveUncached(start, path, by, id) = StartAgain(start)
    BY <1>3 DEF ResolveUncached
  <2>2. StartAgain(start).err = "ok" /\ StartAgain(start).node = start.node
    BY DEF StartAgain, Found
  <2>3. d = [at |-> start.node.at, err |-> "ok"]
    BY <1>1, <1>3, DenotesIs, DenotesOne
  <2> QED BY <2>1, <2>2, <2>3 DEF Right
<1>4. CASE "/" \notin ToSet(q) /\ q # <<>>
  <2>1. ResolveUncached(start, path, by, id) = FromLookup(start, q[1], id)
    BY <1>4 DEF ResolveUncached
  <2>2. \A i \in 1..Len(q) : q[i] # "/"
    BY <1>1, <1>4, InToSet
  <2>3. \A i \in 1..(Len(q) - 1) : "/" \in {q[i], q[i + 1]}
    BY Zenon DEF PlainPath
  <2> HIDE DEF q
  <2>4. Len(q) = 1
    <3>1. Len(q) \in Nat \ {0}
      BY <1>1, <1>4
    <3>2. ~(Len(q) > 1)
      <4> SUFFICES ASSUME Len(q) > 1 PROVE FALSE
        OBVIOUS
      <4>1. 1 \in 1..(Len(q) - 1) /\ 1 \in 1..Len(q) /\ 1 + 1 \in 1..Len(q)
        BY <3>1
      <4> QED BY <4>1, <2>2, <2>3
    <3> DEFINE k == Len(q)
    <3>3. k \in Nat \ {0} /\ ~(k > 1)
      BY <3>1, <3>2
    <3> HIDE DEF k
    <3>4. k = 1
      BY <3>3
    <3> QED BY <3>4 DEF k
  <2>5. q[1] # "/"
    BY <2>2, <2>4
  <2>6. d = DenoteStep([at |-> start.node.at, err |-> "ok"], q[1])
    BY <1>1, <2>4, DenotesIs, DenotesOne DEF q
  <2>7. Right(FromLookup(start, q[1], id), DenoteStep([at |-> start.node.at, err |-> "ok"], q[1]))
    BY <2>5, LookupRight
  <2> QED BY <2>1, <2>6, <2>7
<1> QED BY <1>2, <1>3, <1>4

\* resolve_object_into_entry() answers with what the path denotes, whatever is
\* cached, whatever the start remembers of its ancestors and whoever finds
\* parents: its three ways to resolve a path agree with each other.
THEOREM ResolutionExact ==
  ASSUME PlainTree, NEW start, IsStart(start), NEW S, NEW path \in Seq(S), PlainPath(path),
         NEW by \in Resolvers, NEW id \in Ids, NEW cached
  PROVE  Right(ResolveIntoEntry(start, path, cached, by, id), Denotes(start.node.at, path))
<1> DEFINE q == AfterColon(path)
           dir == start.node.at
           meta == MetaLookupPath(cached, dir, q)
           d == Denotes(dir, path)
           r == ResolveIntoEntry(start, path, cached, by, id)
<1>1. q \in Seq(S) /\ dir \in Places
  BY AfterColonSeq, FixedNodes DEF IsStart
<1>2. Right(ResolveUncached(start, path, by, id), d)
  BY UncachedRight
<1>3. CASE ~(q # <<>> /\ KindOf[dir] = "dir" /\ (CddaRoot = NoPlace \/ Lba[dir] # Lba[Root]))
  <2>1. r = ResolveUncached(start, path, by, id)
    BY <1>3 DEF ResolveIntoEntry
  <2> QED BY <1>2, <2>1
<1>4. CASE q # <<>> /\ KindOf[dir] = "dir" /\ (CddaRoot = NoPlace \/ Lba[dir] # Lba[Root])
  <2>1. r = ResolveAfterMeta(meta, start, path, by, id)
    BY <1>4 DEF ResolveIntoEntry
  <2>2. CddaRoot = NoPlace \/ dir # Root
    BY <1>4
  <2>3. RingAgrees(meta, d)
    <3>1. d = DenotesFrom(dir, q)
      BY DenotesIs
    <3> HIDE DEF q, dir
    <3> QED BY <1>1, <2>2, <3>1, RingExact
  <2>4. meta.err = "ok" => IsPathBelow(dir, meta.ring) /\ meta.dir = meta.ring[Len(meta.ring)]
    <3> HIDE DEF q, dir
    <3> QED BY <1>1, <1>4, RingSound
  <2> HIDE DEF meta, d, r
  <2>5. CASE meta.err = "ok"
    <3>1. r = FromRing(start, meta.ring, id)
      BY <2>1, <2>5 DEF ResolveAfterMeta
    <3>2. r.err = "ok" /\ r.node.at = meta.dir
      BY <3>1, <2>4, <2>5 DEF FromRing, SingleParents, Found
    <3>3. d.at = meta.dir /\ d.err = "ok"
      BY <2>3, <2>5 DEF RingAgrees
    <3> QED BY <3>2, <3>3 DEF Right, r, d
  <2>6. CASE meta.err \notin {"ok", "unsupported"}
    <3>1. r.err = meta.err
      BY <2>1, <2>6, NotFoundIs DEF ResolveAfterMeta
    <3>2. d.err = meta.err
      BY <2>3, <2>6 DEF RingAgrees
    <3> QED BY <3>1, <3>2, <2>6 DEF Right, r, d
  <2>7. CASE meta.err = "unsupported"
    <3>1. r = ResolveUncached(start, path, by, id)
      BY <2>1, <2>7 DEF ResolveAfterMeta
    <3> QED BY <1>2, <3>1 DEF r, d
  <2> QED BY <2>5, <2>6, <2>7
<1> QED BY <1>3, <1>4

\* What is due, by the table of it.
LEMMA DueIs ==
  ASSUME NEW p \in Places, NEW path \in Paths
  PROVE  Due[p][path] = Denotes(p, path)
BY DEF Due

\* A right answer is not noted.
LEMMA RightNotNoted ==
  ASSUME PlainUse, Inv, AnswersTrue, NEW l \in Starts, NEW path \in Paths, NEW cached, NEW id \in Ids,
         current \in Volumes,
         Note(StartOf(l), path, ResolveIntoEntry(StartOf(l), path, cached, ResolverOf[current], id))
  PROVE  AnswersTrue'
<1> DEFINE start == StartOf(l)
           r == ResolveIntoEntry(start, path, cached, ResolverOf[current], id)
           d == Denotes(start.node.at, path)
<1>1. IsStart(start) /\ start.node.at \in Places
  BY StartIs, FixedNodes DEF Inv, IsStart
<1>2. path \in Seq(ToSet(path)) /\ ResolverOf[current] \in Resolvers
  BY ObjectsAssumption DEF Volumes
<1>3. Right(r, d)
  <2> HIDE DEF start
  <2>1. PlainTree /\ PlainPath(path)
    BY DEF PlainUse, PlainPaths
  <2> QED BY <1>1, <1>2, <2>1, ResolutionExact
<1>4. Due[start.node.at][path] = d
  BY <1>1, DueIs
<1>5. Note(start, path, r)
  OBVIOUS
<1> HIDE DEF start, r, d
<1>6. Answer(r.node.at, r.err) = Answer(d.at, d.err)
  BY <1>3 DEF Right, Answer
<1> QED BY <1>4, <1>5, <1>6 DEF Note, AnswersTrue

\* A link is read where it is.
LEMMA ReadSoftLinkTrue ==
  ASSUME PlainUse, Inv, AnswersTrue, NEW l \in Starts, NEW path \in Paths, ReadSoftLink(l, path)
  PROVE  AnswersTrue'
<1> DEFINE start == StartOf(l)
           d == Denotes(start.node.at, path)
<1>1. IsStart(start) /\ start.node.at \in Places
  BY StartIs, FixedNodes DEF Inv, IsStart
<1>2. current \in Volumes
  BY DEF ReadSoftLink, Inv
<1>3. path \in Seq(ToSet(path)) /\ ResolverOf[current] \in Resolvers
  BY <1>2, ObjectsAssumption DEF Volumes
<1>4. Due[start.node.at][path] = d
  BY <1>1, DueIs
<1>5. PICK id \in Ids :
        \E w \in {ResolveAmigaPath(start, path, ResolverOf[current], id)}, e \in {d} :
          LET same == w.err = e.err /\ (w.err = "ok" => w.cur.at = e.at)
              link == w.err = "is link" => Parent[w.link] = w.linkDir /\ w.linkDir = e.at
          IN  wrong' = wrong \cup (IF same /\ link THEN {} ELSE {[from |-> start.node.at, path |-> path, got |-> w, due |-> e]})
  BY <1>4, Zenon DEF ReadSoftLink
<1> DEFINE w == ResolveAmigaPath(start, path, ResolverOf[current], id)
<1>6. Agree(w, d)
  <2> HIDE DEF start
  <2>1. PlainTree
    BY DEF PlainUse, PlainPaths
  <2> QED BY <1>1, <1>3, <2>1, WalkExact
<1>7. LET same == w.err = d.err /\ (w.err = "ok" => w.cur.at = d.at)
          link == w.err = "is link" => Parent[w.link] = w.linkDir /\ w.linkDir = d.at
      IN  wrong' = wrong \cup (IF same /\ link THEN {} ELSE {[from |-> start.node.at, path |-> path, got |-> w, due |-> d]})
  BY <1>5, Zenon
<1> HIDE DEF start, d, w
<1>8. /\ w.err = d.err /\ w.cur.at = d.at
      /\ w.err = "is link" => Parent[w.link] = w.linkDir /\ w.linkDir = d.at
  BY <1>6 DEF Agree
<1> QED BY <1>7, <1>8 DEF AnswersTrue

\* SameLock() errs only by taking one object for two, and only over their ids.
LEMMA SameLockTrue ==
  ASSUME AnswersTrue, NEW l1 \in ActiveLocks \cup {Null}, NEW l2 \in ActiveLocks \cup {Null},
         SameLock(l1, l2)
  PROVE  AnswersTrue'
<1> DEFINE both == \A l \in {l1, l2} : l # Null => entries[locks[l].entry].vol = current
           a == StartOf(l1).node
           b == StartOf(l2).node
           told == SameLockAnswer(l1, l2)
           due == a.at = b.at /\ both
           ids == a.id = b.id
<1>1. wrong' = wrong \cup (IF both /\ told # due
                           THEN {[told |-> told, due |-> due, sameId |-> ids]} ELSE {})
  BY Zenon DEF SameLock
<1>2. ASSUME both, told # due
      PROVE  told = FALSE /\ due = TRUE /\ ids = FALSE
  <2> DEFINE vol(l) == IF l = Null THEN current ELSE entries[locks[l].entry].vol
  <2>1. vol(l1) = vol(l2)
    BY <1>2
  <2>2. told = (vol(l1) = vol(l2) /\ (IF l1 = Null \/ l2 = Null THEN a.at = b.at ELSE NodesSame(a, b)))
    BY DEF SameLockAnswer
  <2>3. due = (a.at = b.at)
    BY <1>2
  <2> HIDE DEF told, vol, a, b, both, due
  <2>4. told \in BOOLEAN /\ due \in BOOLEAN /\ (told => due)
    BY <2>1, <2>2, <2>3 DEF NodesSame
  <2>5. told = FALSE /\ due = TRUE
    BY <1>2, <2>4
  <2> QED BY <2>1, <2>2, <2>3, <2>5 DEF NodesSame
<1> HIDE DEF both, told, due, ids
<1> QED BY <1>1, <1>2 DEF AnswersTrue, OneTakenForTwo

\* Every packet is answered as the tree says.
LEMMA NextTrue ==
  ASSUME PlainUse, Inv, AnswersTrue, [Next]_vars
  PROVE  AnswersTrue'
<1>1. ASSUME wrong' = wrong
      PROVE  AnswersTrue'
  BY <1>1 DEF AnswersTrue
<1>2. current # Null => current \in Volumes
  BY DEF Inv
<1>3. ASSUME NEW l \in Starts, NEW path \in Paths, LockObject(l, path)
      PROVE  AnswersTrue'
  <2>1. PICK cached \in CacheStates, id \in Ids :
          Note(StartOf(l), path, ResolveIntoEntry(StartOf(l), path, cached, ResolverOf[current], id))
    BY <1>3, Zenon DEF LockObject
  <2>2. current \in Volumes
    BY <1>2, <1>3 DEF LockObject
  <2> QED BY <2>1, <2>2, RightNotNoted
<1>4. ASSUME NEW l \in Starts, NEW path \in Paths, OpenObject(l, path)
      PROVE  AnswersTrue'
  <2>1. PICK cached \in CacheStates, id \in Ids :
          Note(StartOf(l), path, ResolveIntoEntry(StartOf(l), path, cached, ResolverOf[current], id))
    BY <1>4, Zenon DEF OpenObject
  <2>2. current \in Volumes
    BY <1>2, <1>4 DEF OpenObject
  <2> QED BY <2>1, <2>2, RightNotNoted
<1>5. ASSUME NEW l \in Starts, DupLock(l) \/ ParentOfLock(l) \/ OpenFromLock(l)
      PROVE  AnswersTrue'
  BY <1>1, <1>5, Zenon DEF DupLock, ParentOfLock, ParentEntry, OpenFromLock
<1>6. ASSUME NEW f \in FhStarts, DupLockFromFh(f) \/ ParentOfFh(f)
      PROVE  AnswersTrue'
  BY <1>1, <1>6, Zenon DEF DupLockFromFh, ParentOfFh, ParentEntry
<1>7. ASSUME NEW l \in ActiveLocks, FreeLock(l)
      PROVE  AnswersTrue'
  BY <1>1, <1>7, Zenon DEF FreeLock
<1>8. ASSUME NEW f \in ActiveFhs, CloseObject(f)
      PROVE  AnswersTrue'
  BY <1>1, <1>8, Zenon DEF CloseObject
<1>9. CASE DupRoot \/ UnmountVolume \/ MountVolume \/ Shutdown \/ UNCHANGED vars
  BY <1>1, <1>9, Zenon DEF DupRoot, UnmountVolume, MountVolume, Shutdown, vars
<1> QED BY <1>3, <1>4, <1>5, <1>6, <1>7, <1>8, <1>9, ReadSoftLinkTrue, SameLockTrue DEF Next

\* Every path and every link is answered as the tree says, whatever is cached,
\* remembered of the ancestors or given out as ids, and SameLock() errs only by
\* taking one object whose nodes carry different ids for two.
THEOREM AnswersCorrect ==
  ASSUME PlainUse
  PROVE  Spec => []AnswersTrue
<1>1. Init => AnswersTrue
  BY DEF Init, AnswersTrue
<1>2. Inv /\ AnswersTrue /\ [Next]_vars => AnswersTrue'
  BY NextTrue
<1> QED BY <1>1, <1>2, ObjectsSound, PTL DEF Spec
=============================================================================
