------------------------------- MODULE DirScan -------------------------------
(***************************************************************************)
(* Directory listings: ACTION_EXAMINE_NEXT and ACTION_EXAMINE_ALL of the   *)
(* handler (platform/amiga/handler_main.c), odfs_readdir() (core/mount.c), *)
(* the directory cache below it (core/cache_meta.c) and the backend below  *)
(* that (backends/iso9660/iso9660.c), with the two kinds of resume cookie  *)
(* that pass between them while directories are built, evicted and found   *)
(* too big, and scans interleave.                                          *)
(*                                                                         *)
(* An ExNext client knows its place by the key in its FileInfoBlock; the   *)
(* lock remembers, for the scan that used it last, a cookie as well.  An   *)
(* ExAll client has nothing but the key.                                   *)
(*                                                                         *)
(* An operator that is used nowhere and stands right before another one is *)
(* a faulty variant of it (README.md, "Faulty variants").                  *)
(***************************************************************************)
EXTENDS MetaCache

CONSTANTS
  NextScans,   \* FileInfoBlocks that are used for ExNext
  AllScans,    \* ExAllControls
  LockOf,      \* the lock each scan works on
  DirOf,       \* the directory of each lock
  Key,         \* amiga_node_key() of each entry of each directory
  DirKey,      \* amiga_node_key() of the directories
  CddaKey,     \* amiga_node_key() of the virtual CDDA directory
  CddaRoots,   \* directories that show it: the root of a mixed-mode disc
  Failures,    \* what may fail: "io" and "nomem"
  MaxFit,      \* bound on the entries that fit into an ExAll buffer
  MaxListed    \* bound on the length of a listing

Scans == NextScans \cup AllScans
Locks == DOMAIN DirOf
Dir(s) == DirOf[LockOf[s]]

ASSUME ScanAssumption ==
  /\ NextScans \cap AllScans = {}
  /\ LockOf \in [Scans -> Locks] /\ \A l \in Locks : DirOf[l] \in Dirs
  /\ \A d \in Dirs : Key[d] \in [1..Count[d] -> Nat \ {0}] /\ DirKey[d] \in Nat \ {0}
  /\ CddaKey \in Nat \ {0} /\ CddaRoots \subseteq Dirs
  /\ Failures \subseteq {"io", "nomem"} /\ MaxFit \in Nat \ {0} /\ MaxListed \in Nat

VARIABLES
  cursor,   \* lock->exnext
  place,    \* fib_DiskKey of an ExNext scan, eac_LastKey of an ExAll scan
  got,      \* ghost: the entries each scan has been given
  ended     \* scans that were told ERROR_NO_MORE_ENTRIES

vars == <<mc, cursor, place, got, ended>>

-----------------------------------------------------------------------------
(* Enumerating a directory from a cookie.                                  *)

\* Resume cookies: an entry index of the cache, or a backend offset, which is
\* abstracted to the number of entries before it; 0 means "from the start".
Cookie == [tagged : BOOLEAN, at : Nat]
Start == [tagged |-> FALSE, at |-> 0]

\* The number of entries a backend gets through: all, or up to a bad sector.
Readable(d) == IF "io" \in Failures THEN 0..Count[d] ELSE {Count[d]}
Builds == IF Failures = {} THEN {TRUE} ELSE BOOLEAN

\* The callback is offered the entries after from and up to upto and stops at
\* hit, or at none of them (0).  meta_replay(), the backend's readdir and
\* meta_skip_cb() each leave their own kind of cookie behind.
Replayed(d, hit) == [tagged |-> TRUE, at |-> IF hit # 0 THEN hit ELSE Count[d]]
BackendCookie(d, n, cookie, hit) ==
  IF hit # 0 THEN [tagged |-> FALSE, at |-> hit]
  ELSE IF n < Count[d] THEN cookie
  ELSE [tagged |-> FALSE, at |-> Count[d] + 1]
Skipped(n, hit) == [tagged |-> TRUE, at |-> IF hit # 0 THEN hit ELSE n]

\* odfs_readdir(): n entries are readable and built tells whether a build works
\* out.  The cache serves the listing or the backend does; an untagged cookie is
\* the backend's.  The entries offered are those up to upto.
Readdir(d, cookie, n, built) ==
  LET untagged == ~cookie.tagged /\ cookie.at # 0
      get == IF Cacheable(d) /\ ~untagged
             THEN MetaGet(mc, d, built /\ n = Count[d])
             ELSE [mc |-> mc, serves |-> FALSE]
  IN  [mc |-> get.mc, serves |-> get.serves, upto |-> IF get.serves THEN Count[d] ELSE n]

\* The cookie odfs_meta_readdir() leaves after a callback that stopped at hit.
CookieAfter(d, cookie, r, hit) ==
  CASE r.serves                     -> Replayed(d, hit)
    [] ~r.serves /\ cookie.tagged   -> Skipped(r.upto, hit)
    [] ~r.serves /\ ~cookie.tagged  -> BackendCookie(d, r.upto, cookie, hit)

-----------------------------------------------------------------------------
(* ExNext.                                                                 *)

NoCursor == [valid |-> FALSE, prev |-> 0, resume |-> Start, cdda |-> FALSE]

\* exnext_cb(): without a starting point, the entry behind the first one that
\* has the client's key.
ExnextHit(d, prev, first, from, upto) ==
  LET known == {i \in (from + 1)..upto : Key[d][i] = prev}
      next  == IF first THEN from + 1 ELSE Min(known) + 1
  IN  IF (first \/ known # {}) /\ next <= upto THEN next ELSE 0

\* exnext_cursor_matches(), on the key the client passes.
CursorAlwaysMatches(s) == cursor[LockOf[s]].valid
CursorMatches(s) == cursor[LockOf[s]].valid /\ cursor[LockOf[s]].prev = place[s]

CursorUpdate(s, prev, resume, cdda) ==
  cursor' = [cursor EXCEPT ![LockOf[s]] =
               [valid |-> TRUE, prev |-> prev, resume |-> resume, cdda |-> cdda]]

\* ACTION_EXAMINE_OBJECT starts a scan over.
Examine(s) ==
  /\ place' = [place EXCEPT ![s] = DirKey[Dir(s)]]
  /\ CursorUpdate(s, DirKey[Dir(s)], Start, FALSE)
  /\ got' = [got EXCEPT ![s] = <<>>]
  /\ ended' = ended \ {s}
  /\ UNCHANGED mc

\* The virtual CDDA directory has been given out: that was the last entry.
CddaWasLast(s) ==
  \/ CursorMatches(s) /\ cursor[LockOf[s]].cdda
  \/ /\ CddaRoots # {} /\ place[s] = CddaKey
     /\ ~CursorMatches(s) /\ place[s] # DirKey[Dir(s)]

\* ACTION_EXAMINE_NEXT.  An error of the enumeration is not looked at.
ExamineNext(s) ==
  /\ place[s] # 0 /\ Len(got[s]) < MaxListed
  /\ LET d == Dir(s)
         use == CursorMatches(s)
         first == use \/ place[s] = DirKey[d]
         resume == IF use THEN cursor[LockOf[s]].resume ELSE Start
     IN
     IF CddaWasLast(s)
     THEN ended' = ended \cup {s} /\ UNCHANGED <<mc, cursor, place, got>>
     ELSE \E n \in Readable(d), built \in Builds :
       LET r == Readdir(d, resume, n, built)
           hit == ExnextHit(d, place[s], first, resume.at, r.upto)
           next == CookieAfter(d, resume, r, hit)
       IN
       /\ mc' = r.mc
       /\ IF hit # 0
          THEN /\ got' = [got EXCEPT ![s] = Append(@, hit)]
               /\ place' = [place EXCEPT ![s] = Key[d][hit]]
               /\ CursorUpdate(s, Key[d][hit], next, FALSE)
               /\ ended' = ended \ {s}
          ELSE IF d \in CddaRoots /\ place[s] # CddaKey
          THEN /\ got' = [got EXCEPT ![s] = Append(@, 0)]
               /\ place' = [place EXCEPT ![s] = CddaKey]
               /\ CursorUpdate(s, CddaKey, next, TRUE)
               /\ ended' = ended \ {s}
          ELSE /\ ended' = ended \cup {s}
               /\ CursorUpdate(s, place[s], next, FALSE)
               /\ UNCHANGED <<got, place>>

-----------------------------------------------------------------------------
(* ExAll.                                                                  *)

\* exall_cb(): the number of entries before the ones behind the client's key.
Behind(d, prev, upto) ==
  LET known == {i \in 1..upto : Key[d][i] = prev}
  IN  IF prev = 0 THEN 0 ELSE IF known = {} THEN upto ELSE Min(known)

\* The virtual CDDA directory follows the entries of a root.
CddaFollows(s, upto) ==
  LET d == Dir(s) IN
  /\ d \in CddaRoots /\ place[s] # CddaKey
  /\ place[s] # 0 => \E i \in 1..upto : Key[d][i] = place[s]

\* What is left of a directory of which upto entries can be read.
Due(s, upto) ==
  SubSeq([k \in 1..upto |-> k], Behind(Dir(s), place[s], upto) + 1, upto)
    \o (IF CddaFollows(s, upto) THEN <<0>> ELSE <<>>)

\* The client is given the entries of due that fit into its buffer.  A buffer
\* too small for one entry is ERROR_BUFFER_OVERFLOW.
Give(s, due, fit) ==
  LET given == SubSeq(due, 1, Min({fit, Len(due)}))
      key   == IF Last(given) = 0 THEN CddaKey ELSE Key[Dir(s)][Last(given)]
  IN  /\ got' = [got EXCEPT ![s] = @ \o given]
      /\ CASE given # <<>> -> place' = [place EXCEPT ![s] = key] /\ UNCHANGED ended
           [] due # <<>> /\ given = <<>> -> UNCHANGED <<place, ended>>
           [] due = <<>> -> place' = [place EXCEPT ![s] = 0] /\ ended' = ended \cup {s}

\* ACTION_EXAMINE_ALL with room for fit entries; every call enumerates from the
\* start and drops the cookie.
ExamineAll(s, fit) ==
  /\ s \notin ended /\ Len(got[s]) < MaxListed
  /\ \E n \in Readable(Dir(s)), built \in Builds :
       LET r == Readdir(Dir(s), Start, n, built)
       IN  mc' = r.mc /\ Give(s, Due(s, r.upto), fit)
  /\ UNCHANGED cursor

\* ACTION_EXAMINE_ALL_END, and a new listing.
ExamineAllEnd(s) ==
  /\ place' = [place EXCEPT ![s] = 0]
  /\ got' = [got EXCEPT ![s] = <<>>]
  /\ ended' = ended \ {s}
  /\ UNCHANGED <<mc, cursor>>

\* odfs_lookup() in any directory builds it and may evict others.
Lookup(d) ==
  /\ Cacheable(d)
  /\ \E n \in Readable(d), built \in Builds :
       mc' = MetaGet(mc, d, built /\ n = Count[d]).mc
  /\ UNCHANGED <<cursor, place, got, ended>>

-----------------------------------------------------------------------------
Init ==
  /\ mc = NewCache
  /\ cursor = [l \in Locks |-> NoCursor]
  /\ place = [s \in Scans |-> 0]
  /\ got = [s \in Scans |-> <<>>]
  /\ ended = {}

Next ==
  \/ \E s \in NextScans : Examine(s) \/ ExamineNext(s)
  \/ \E s \in AllScans : (\E fit \in 0..MaxFit : ExamineAll(s, fit)) \/ ExamineAllEnd(s)
  \/ \E d \in Dirs : Lookup(d)

Spec == Init /\ [][Next]_vars

-----------------------------------------------------------------------------
(* Properties.                                                             *)

\* Every variable stays in its range.
TypeOK ==
  /\ mc.lru \in Seq(Dirs) /\ mc.ref \subseteq Dirs /\ mc.total \in Nat
  /\ mc.over \in [0..(Slots - 1) -> Dirs \cup {Null}] /\ mc.next \in 0..(Slots - 1)
  /\ \A l \in Locks : cursor[l] \in [valid : BOOLEAN, prev : Nat, resume : Cookie, cdda : BOOLEAN]
  /\ place \in [Scans -> Nat] /\ ended \subseteq Scans
  /\ \A s \in Scans : got[s] \in Seq(0..Count[Dir(s)])

\* What a listing should be: the entries in their order, then the CDDA root.
Listing(d) == [i \in 1..Count[d] |-> i] \o (IF d \in CddaRoots THEN <<0>> ELSE <<>>)

\* "the two schemes can coexist across cache builds and evictions" (cache_meta.h):
\* a scan is given every entry once and in order, and the end only after the
\* last, however its directory comes and goes and whoever else uses its lock.
ExactListing ==
  \A s \in Scans : /\ IsPrefix(got[s], Listing(Dir(s)))
                   /\ s \in ended => got[s] = Listing(Dir(s))

\* "a tagged cookie that outlives its cached directory is answered by
\* re-enumerating the backend and skipping already-delivered entries"
\* (cache_meta.c): no ExNext scan is given an entry twice.
NextListsOnce == \A s \in NextScans : IsInjective(got[s])

\* "data entries exhausted - inject CDDA virtual dir if at root"
\* (action_examine_next): whoever has seen the CDDA directory has seen all data.
CddaAfterData ==
  \A s \in NextScans : 0 \in ToSet(got[s]) => got[s] = Listing(Dir(s))

\* ExAll continues behind the entry whose key the client holds: "Use stable
\* on-disc identity" (amiga_node_key); no entry is given twice.
AllListsOnce == \A s \in AllScans : IsInjective(got[s])
=============================================================================
