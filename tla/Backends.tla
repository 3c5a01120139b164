------------------------------ MODULE Backends ------------------------------
(***************************************************************************)
(* A client of the ISO 9660, HFS, HFS+, UDF and CDDA backends: it lists a  *)
(* directory in several calls, looks names up, reads files and links, and  *)
(* climbs to parents, on a disc whose true content, `tree`, is known.      *)
(*                                                                         *)
(* The backends keep no state between calls but what the mount found out,  *)
(* and CDDA its buffer of audio frames: the client holds the nodes it was  *)
(* given and the cookie of its listing.  In every call one block may turn  *)
(* out to be unreadable.                                                   *)
(***************************************************************************)
EXTENDS HfsCatalog, UdfDir, CddaTracks

CONSTANTS
  Discs,       \* the discs
  Takes,       \* the numbers of entries a caller takes from one call
  Resumed,     \* the formats whose listings a caller resumes by the cookie
  Absent,      \* a name no directory has
  Ranges       \* the <<offset, length>> pairs read

VARIABLES
  disc,        \* the disc
  dir,         \* the node of the directory the client is in
  cookie,      \* resume_offset of the listing
  got,         \* the nodes the listing has delivered
  st,          \* the listing: "more", "end" or "error"
  faulty,      \* some block could not be read during the listing
  audio,       \* the buffer of audio frames
  answer       \* what was asked last, and the answer

vars == <<disc, dir, cookie, got, st, faulty, audio, answer>>
listing == <<cookie, got, st, faulty>>

----------------------------------------------------------------------------
(* The true content of a disc. *)

Facts(node) == [id |-> node.id, name |-> node.name, kind |-> node.kind]
\* What a listing of directory k should show: every visible object, under
\* names made unique from the first to the last.
Shown(d, k) ==
  LET kids == SelectSeq(d.tree[k], LAMBDA o : ~o.hidden)
      All(named) == [i \in DOMAIN named |-> Facts(named[i])]
  IN  All(Named([items |-> kids, err |-> "ok"]).items)
Objects(d) == UNION {ToSet(d.tree[k]) : k \in DOMAIN d.tree}
Object(d, id) == CHOOSE o \in Objects(d) : o.id = id
TrueParent(d, id) == CHOOSE k \in DOMAIN d.tree : \E o \in ToSet(d.tree[k]) : o.id = id
\* The node of a directory as its parent shows it.
TrueNode(d, k) ==
  IF k = d.root THEN [id |-> k, name |-> <<"/">>, kind |-> "dir"]
  ELSE CHOOSE e \in ToSet(Shown(d, TrueParent(d, k))) : e.id = k
Up(d, k) == IF k = d.root THEN k ELSE TrueParent(d, k)

----------------------------------------------------------------------------
(* The operations of the mounted backend (include/odfs/backend.h). *)

Root(d) ==
  CASE d.fmt = "iso" -> IsoRoot(d)
    [] d.fmt \in {"hfs", "hfsplus"} -> HfsRoot
    [] d.fmt = "udf" -> UdfRoot(d)
    [] d.fmt = "cdda" -> CddaRoot(d)
Readdir(d, node, from, n, bad) ==
  CASE d.fmt = "iso" -> IsoReaddir(d, node, from, n, bad)
    [] d.fmt = "hfs" -> HfsReaddir(d, node, from, n, bad)
    [] d.fmt = "hfsplus" -> HfspReaddir(d, node, from, n, bad)
    [] d.fmt = "udf" -> UdfReaddir(d, node, from, n, bad)
    [] d.fmt = "cdda" -> CddaReaddir(d, from, n)
Lookup(d, node, name, bad) ==
  CASE d.fmt = "iso" -> IsoLookup(d, node, name, bad)
    [] d.fmt = "hfs" -> HfsLookup(d, node, name, bad)
    [] d.fmt = "hfsplus" -> HfspLookup(d, node, name, bad)
    [] d.fmt = "udf" -> UdfLookup(d, node, name, bad)
    [] d.fmt = "cdda" -> CddaLookup(d, name)
ResolveParent(d, node, bad) ==
  CASE d.fmt = "iso" -> IsoResolveParent(d, node, bad)
    [] d.fmt = "hfs" -> HfsResolveParent(d, node, bad)
    [] d.fmt = "hfsplus" -> HfspResolveParent(d, node, bad)
    [] d.fmt = "udf" -> UdfResolveParent(d, node, bad)
    [] d.fmt = "cdda" -> [err |-> "notfound", parent |-> <<>>, grand |-> <<>>]
Read(d, node, off, n, bad) ==
  CASE d.fmt = "iso" -> IsoRead(d, node, off, n, bad)
    [] d.fmt = "hfs" -> HfsRead(d, node, off, n, bad)
    [] d.fmt = "hfsplus" -> HfspRead(d, node, off, n, bad)
    [] d.fmt = "udf" -> UdfRead(d, node, off, n, bad)
    [] d.fmt = "cdda" -> CddaRead(d, node, off, n, audio, bad)
\* exnext_cb: the handler lets some listings begin anew with every call and
\* passes over the entries up to the one whose key it was given.
ReaddirBehind(d, node, key, n, bad) ==
  LET At(out) == {i \in DOMAIN out : out[i].key = key}
      Behind(out) == IF key = node.key THEN out
                     ELSE IF At(out) = {} THEN <<>> ELSE SubSeq(out, Min(At(out)) + 1, Len(out))
      Stop(r, todo) == [r EXCEPT !.out = SubSeq(todo, 1, Least(n, Len(todo))),
                                 !.err = IF Len(todo) >= n THEN "stop" ELSE @]
      Resume(r) == Stop(r, Behind(r.out))
  IN  Resume(Readdir(d, node, 0, Cardinality(Objects(d)) + 1, bad))
Readlink(d, node, name, bad) ==
  CASE d.fmt = "iso" -> IsoReadlink(d, node, name, bad)
    [] d.fmt = "udf" -> UdfReadlink(d, node, name, bad)

----------------------------------------------------------------------------
\* Nothing but the backend could be the reason for an error.
Unhurt(bad) == bad = 0 /\ ~disc.damaged
Nothing == [op |-> "none"]
Blocks == disc.blocks \cup {0}
Fresh == cookie' = 0 /\ got' = <<>> /\ st' = "more" /\ faulty' = FALSE

Init ==
  /\ disc \in Discs
  /\ dir = Root(disc)
  /\ cookie = 0 /\ got = <<>> /\ st = "more" /\ faulty = FALSE
  /\ audio = NoAudio
  /\ answer = Nothing

\* A call of readdir whose callback takes n entries.
List(n, bad) ==
  /\ st = "more" /\ answer = Nothing
  /\ \E r \in {IF disc.fmt \in Resumed THEN Readdir(disc, dir, cookie, n, bad)
               ELSE ReaddirBehind(disc, dir, IF got = <<>> THEN dir.key ELSE Last(got).key, n, bad)} :
       /\ got' = got \o r.out
       /\ cookie' = r.cookie
       /\ st' = CASE r.err = "stop" -> "more" [] r.err = "ok" -> "end" [] OTHER -> "error"
       /\ faulty' = (faulty \/ bad # 0)
  /\ UNCHANGED <<disc, dir, audio, answer>>

\* A listing that is over, or given up after an error, is forgotten.
Rewind ==
  /\ st # "more"
  /\ Fresh
  /\ UNCHANGED <<disc, dir, audio, answer>>

\* The client goes into a directory the listing has shown.
Enter(i) ==
  /\ got[i].kind = "dir" /\ ~faulty
  /\ dir' = got[i]
  /\ Fresh
  /\ UNCHANGED <<disc, audio, answer>>

\* The operations without a cookie: the listing does not matter to them, and is
\* none.
Ask(a) ==
  /\ got = <<>> /\ st = "more"
  /\ answer' = a
  /\ UNCHANGED <<disc, dir, listing>>
AskLookup(name, bad) ==
  /\ answer = Nothing
  /\ Ask([op |-> "lookup", name |-> name, bad |-> bad] @@ Lookup(disc, dir, name, bad))
  /\ UNCHANGED audio
AskParent(bad) ==
  /\ answer = Nothing
  /\ Ask([op |-> "parent", bad |-> bad] @@ ResolveParent(disc, dir, bad))
  /\ UNCHANGED audio
Found(kind) == answer.op = "lookup" /\ answer.err = "ok" /\ answer.node[1].kind = kind
AskRead(r, bad) ==
  /\ Found("file")
  /\ \E a \in {Read(disc, answer.node[1], r[1], r[2], bad)} :
         /\ Ask([op |-> "read", id |-> answer.node[1].id, range |-> r, bad |-> bad,
                 err |-> a.err, bytes |-> a.bytes])
         /\ audio' = IF disc.fmt = "cdda" THEN a.audio ELSE audio
AskLink(bad) ==
  /\ Found("link")
  /\ Ask([op |-> "link", id |-> answer.node[1].id, name |-> answer.node[1].name, bad |-> bad]
            @@ Readlink(disc, dir, answer.node[1].name, bad))
  /\ UNCHANGED audio

\* The client takes the parent for its directory.
Climb ==
  /\ answer.op = "parent" /\ answer.err = "ok"
  /\ dir' = answer.parent[1]
  /\ answer' = Nothing
  /\ UNCHANGED <<disc, listing, audio>>
Forget ==
  /\ answer # Nothing
  /\ answer' = Nothing
  /\ UNCHANGED <<disc, dir, listing, audio>>

Next ==
  \/ \E n \in Takes, bad \in Blocks : List(n, bad)
  \/ Rewind
  \/ \E i \in DOMAIN got : Enter(i)
  \/ \E name \in {e.name : e \in ToSet(Shown(disc, dir.id))} \cup {Absent}, bad \in Blocks :
        AskLookup(name, bad)
  \/ \E bad \in Blocks : AskParent(bad)
  \/ \E r \in Ranges, bad \in Blocks : AskRead(r, bad)
  \/ \E bad \in Blocks : AskLink(bad)
  \/ Climb
  \/ Forget

Spec == Init /\ [][Next]_vars

----------------------------------------------------------------------------
\* A listing made of several calls, each of which walks the directory from its
\* beginning, names every object anew and resumes behind the last one taken:
\* no two entries have the same name, in whatever case; entries come in the
\* order of the disc, each at most once, with the name and the kind that one
\* walk would give it; and when no block failed and the disc is sound, a listing
\* that is over has shown every object.
ListingExact ==
  LET shown == Shown(disc, dir.id)
      seen == [i \in DOMAIN got |-> Facts(got[i])]
  IN  /\ \A i, j \in DOMAIN got : Folded(got[i].name) = Folded(got[j].name) => i = j
      /\ seen = SelectSeq(shown, LAMBDA e : e \in ToSet(seen))
      /\ ~faulty => IsPrefix(seen, shown)
      /\ ~faulty /\ ~disc.damaged => st # "error" /\ (st = "end" => seen = shown)

\* A lookup finds under a name what the listing shows under it, and nothing
\* else; without a failed read it finds every name the listing shows.
LookupAgrees ==
  answer.op = "lookup" =>
    LET shown == ToSet(Shown(disc, dir.id))
        meant == {e \in shown : Folded(e.name) = Folded(answer.name)}
    IN  /\ answer.err = "ok" => meant = {Facts(answer.node[1])}
        /\ Unhurt(answer.bad) => answer.err = IF meant = {} THEN "notfound" ELSE "ok"

\* The way up from a directory, which its own data give (a ".." record, a
\* thread record, a parent FID), leads to the directory that lists it, with the
\* name it has there, and from there on to the next; the root has no parent.
ParentsExact ==
  answer.op = "parent" =>
    LET up == Up(disc, dir.id)
    IN  /\ answer.err = "ok" => /\ dir.id # disc.root
                                /\ Facts(answer.parent[1]) = TrueNode(disc, up)
                                /\ Facts(answer.grand[1]) = TrueNode(disc, Up(disc, up))
        /\ Unhurt(answer.bad) => answer.err = IF dir.id = disc.root THEN "notfound" ELSE "ok"

\* A read delivers the bytes of the file at the offset, over all its extents
\* and up to its end, or, when a block fails, fewer of them; a link that no
\* suffix renamed and that is not too long leads where the disc says.
ContentsExact ==
  /\ answer.op = "read" =>
       LET bytes == Object(disc, answer.id).bytes
           meant == SubSeq(bytes, answer.range[1] + 1,
                           Least(answer.range[1] + answer.range[2], Len(bytes)))
       IN  /\ IsPrefix(answer.bytes, meant)
           /\ answer.err = "ok" => answer.bytes = meant
           /\ Unhurt(answer.bad) => answer.err = "ok"
  /\ answer.op = "link" =>
       LET link == Object(disc, answer.id)
       IN  /\ answer.err = "ok" => answer.target = link.target
           /\ Unhurt(answer.bad) /\ answer.name = link.name /\ Len(link.bytes) < LinkBytes
                => answer.err = "ok"
=============================================================================
