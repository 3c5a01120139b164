----------------------------- MODULE BlockCache -----------------------------
(***************************************************************************)
(* The sector cache of core/cache_block.c with its links: hash chains for  *)
(* lookup, a doubly linked list in LRU order, a free list that shares the  *)
(* LRU links, and the clustered read of sequential misses.                 *)
(*                                                                         *)
(* The cache is one record and each static helper an operator from record  *)
(* to record; the public functions are the actions.  The cache runs under  *)
(* the handler's single thread of control (or its semaphore), so a call is *)
(* one step.  A sector's contents are named by the sector they belong to.  *)
(*                                                                         *)
(* An operator that is used nowhere and stands right before another one is *)
(* a faulty variant of it (README.md, "Faulty variants").                  *)
(***************************************************************************)
EXTENDS Integers, FiniteSets, SequencesExt

CONSTANTS
  MaxLba,        \* UINT32_MAX: sector numbers wrap behind it
  Wanted,        \* the sectors callers ask for
  Capacity,      \* number of entries
  ReadAhead,     \* ODFS_CACHE_READAHEAD
  HasStreamBuf,  \* the staging buffer was allocated
  PartialReads   \* a failing device read may have written part of its buffer

Lbas == 0..MaxLba
Idx  == 0..(Capacity - 1)
Nil  == -1
Garbage == -1
HashSize == 2 * Capacity + 1

ASSUME CacheAssumption ==
  /\ MaxLba \in Nat \ {0} /\ Wanted \subseteq Lbas
  /\ Capacity \in Nat \ {0} /\ ReadAhead \in Nat \ {0}
  /\ HasStreamBuf \in BOOLEAN /\ PartialReads \in BOOLEAN
  /\ HasStreamBuf => ReadAhead <= Capacity

VARIABLES
  cache,   \* odfs_cache_t
  reply,   \* what the last odfs_cache_read() returned
  ptr      \* a data pointer a caller kept while cache->generation stood still

vars == <<cache, reply, ptr>>

-----------------------------------------------------------------------------
(* Lists.                                                                  *)

\* The n-th element of the list that starts at start, Nil behind its end.
\* No list is longer than the entries there are unless it is broken.
Follow(start, link) ==
  LET at[n \in 0..Capacity] ==
        IF n = 0 THEN start
        ELSE IF at[n - 1] = Nil THEN Nil ELSE link[at[n - 1]]
  IN  at

\* The first position of a list at which P holds; -1 if there is none.
Position(at, P(_)) ==
  LET hits == {n \in 0..Capacity : at[n] # Nil /\ P(at[n])}
  IN  IF hits = {} THEN -1 ELSE Min(hits)

Terminated(start, link) == Follow(start, link)[Capacity] = Nil
Elements(start, link) ==
  {Follow(start, link)[n] : n \in 0..Capacity} \ {Nil}

-----------------------------------------------------------------------------
(* The helpers.                                                            *)

EmptyCache ==
  [bucket |-> [b \in 0..(HashSize - 1) |-> Nil],
   next   |-> [i \in Idx |-> Nil],
   prev   |-> [i \in Idx |-> Nil],
   lnext  |-> [i \in Idx |-> IF i + 1 < Capacity THEN i + 1 ELSE Nil],
   free   |-> 0, head |-> Nil, tail |-> Nil,
   valid  |-> {}, lba |-> [i \in Idx |-> 0], data |-> [i \in Idx |-> Garbage],
   count  |-> 0, lastMiss |-> 0, moved |-> FALSE]

Hash(l) == l % HashSize
Chain(c, l) == Follow(c.bucket[Hash(l)], c.next)

FindIndex(c, l) ==
  LET n == Position(Chain(c, l), LAMBDA i : i \in c.valid /\ c.lba[i] = l)
  IN  IF n = -1 THEN Nil ELSE Chain(c, l)[n]

InsertIndex(c, i) ==
  LET b == Hash(c.lba[i]) IN
  [c EXCEPT !.next[i] = c.bucket[b], !.bucket[b] = i]

RemoveIndex(c, i) ==
  LET b  == Hash(c.lba[i])
      at == Chain(c, c.lba[i])
      n  == Position(at, LAMBDA j : j = i)
  IN  CASE n = -1 -> c
        [] n = 0  -> [c EXCEPT !.bucket[b] = c.next[i], !.next[i] = Nil]
        [] n > 0  -> [c EXCEPT !.next = [@ EXCEPT ![at[n - 1]] = c.next[i], ![i] = Nil]]

LruRemoveKeepsTail(c, i) ==
  LET p == c.prev[i]
      q == c.lnext[i]
  IN  [c EXCEPT
        !.lnext = [j \in Idx |-> IF j = i THEN Nil ELSE IF j = p THEN q ELSE @[j]],
        !.prev  = [j \in Idx |-> IF j = i THEN Nil ELSE IF j = q THEN p ELSE @[j]],
        !.head  = IF p = Nil /\ @ = i THEN q ELSE @]
LruRemove(c, i) ==
  LET p == c.prev[i]
      q == c.lnext[i]
  IN  [c EXCEPT
        !.lnext = [j \in Idx |-> IF j = i THEN Nil ELSE IF j = p THEN q ELSE @[j]],
        !.prev  = [j \in Idx |-> IF j = i THEN Nil ELSE IF j = q THEN p ELSE @[j]],
        !.head  = IF p = Nil /\ @ = i THEN q ELSE @,
        !.tail  = IF q = Nil /\ @ = i THEN p ELSE @]

LruInsertHead(c, i) ==
  [c EXCEPT
    !.prev  = [j \in Idx |-> IF j = i THEN Nil ELSE IF j = c.head THEN i ELSE @[j]],
    !.lnext[i] = c.head,
    !.tail  = IF c.head = Nil THEN i ELSE @,
    !.head  = i]

LruUntouched(c, i) == c
LruMakeMru(c, i) == IF c.head = i THEN c ELSE LruInsertHead(LruRemove(c, i), i)

PopFree(c) ==
  IF c.free = Nil THEN c
  ELSE [c EXCEPT !.free = c.lnext[c.free], !.lnext[c.free] = Nil, !.prev[c.free] = Nil]

\* cache_reserve(): the entry a new sector will go into.
Reserve(c) == IF c.count < Capacity THEN c.free ELSE c.tail

\* cache_commit() gives up on a free list that does not start with the victim.
CommitFails(c, i) == i \notin c.valid /\ c.free # i

\* A valid victim leaves its chain and the list, and the generation moves.
EvictSilently(c, i) == LruRemove(RemoveIndex(c, i), i)
Evict(c, i) == [LruRemove(RemoveIndex(c, i), i) EXCEPT !.moved = TRUE]

Commit(c, i, l) ==
  LET room == IF i \in c.valid
              THEN Evict(c, i)
              ELSE [PopFree(c) EXCEPT !.count = @ + 1]
      set  == [room EXCEPT !.lba[i] = l, !.valid = @ \cup {i}]
  IN  LruInsertHead(InsertIndex(set, i), i)

\* cache_install() of the sectors of a sequence, one after the other.
Install(c, ls) ==
  FoldLeft(LAMBDA d, l : Commit([d EXCEPT !.data[Reserve(d)] = l], Reserve(d), l), c, ls)

\* The run of uncached sectors that a sequential miss on l would fetch; the
\* sum lba + run wraps, which ends the run.
RunLength(c, l) ==
  LET stops == {r \in 1..ReadAhead :
                  r = ReadAhead \/ l + r > MaxLba \/ FindIndex(c, l + r) # Nil}
  IN  Min(stops)

-----------------------------------------------------------------------------
(* The public functions.                                                   *)

Answer(c, i, l) ==
  /\ cache' = [c EXCEPT !.moved = FALSE]
  /\ reply' = [ok |-> TRUE, asked |-> l, got |-> c.data[i]]
  /\ ptr' = [idx |-> i, lba |-> l]

Fails(c, l) ==
  /\ cache' = [c EXCEPT !.moved = FALSE]
  /\ reply' = [ok |-> FALSE, asked |-> l, got |-> 0]
  /\ ptr' = IF c.moved THEN [idx |-> Nil, lba |-> 0] ELSE ptr

\* odfs_cache_read() and odfs_cache_read_cached() of a cached sector.
ReadHit(l) ==
  /\ FindIndex(cache, l) # Nil
  /\ Answer(LruMakeMru(cache, FindIndex(cache, l)), FindIndex(cache, l), l)

Sequential(l) == HasStreamBuf /\ l = (cache.lastMiss + 1) % (MaxLba + 1)

\* A miss that continues the last one fetches the whole run and installs the
\* sector asked for last, so that no other install can evict it.
ReadCluster(l) ==
  /\ FindIndex(cache, l) = Nil /\ Sequential(l)
  /\ LET run == RunLength(cache, l)
         c   == Install(cache, [k \in 1..run |-> l + run - k])
     IN  /\ run > 1
         /\ Answer([c EXCEPT !.lastMiss = l + run - 1], FindIndex(c, l), l)

\* A miss that is not sequential, or whose run is short or unreadable, reads
\* one sector straight into the entry it is about to replace.
ReadSingle(l) ==
  /\ FindIndex(cache, l) = Nil
  /\ LET i == Reserve(cache)
         c == [cache EXCEPT !.data[i] = l, !.lastMiss = l]
     IN  IF CommitFails(c, i) THEN Fails(c, l) ELSE Answer(Commit(c, i, l), i, l)

\* The device cannot read the sector, and may have spoilt the entry's buffer.
CommittedBeforeRead(l) ==
  /\ FindIndex(cache, l) = Nil
  /\ LET i == Reserve(cache)
         c == [cache EXCEPT !.data[i] = Garbage, !.lastMiss = l]
     IN  Fails(Commit(c, i, l), l)
ReadFails(l) ==
  /\ FindIndex(cache, l) = Nil
  /\ LET c == [cache EXCEPT !.lastMiss = l]
     IN  \/ Fails(c, l)
         \/ PartialReads /\ Fails([c EXCEPT !.data[Reserve(cache)] = Garbage], l)

\* odfs_cache_retain() of a sector that read-ahead fetched.
Retain(l) ==
  LET c == IF FindIndex(cache, l) # Nil THEN cache ELSE Install(cache, <<l>>) IN
  /\ cache' = [c EXCEPT !.moved = FALSE]
  /\ ptr' = IF c.moved THEN [idx |-> Nil, lba |-> 0] ELSE ptr
  /\ UNCHANGED reply

\* odfs_cache_flush(): the buffers stay allocated and keep their bytes.
Flush ==
  /\ cache' = [EmptyCache EXCEPT !.lba = cache.lba, !.data = cache.data,
                                 !.lastMiss = cache.lastMiss]
  /\ ptr' = [idx |-> Nil, lba |-> 0]
  /\ UNCHANGED reply

Init ==
  /\ cache = EmptyCache
  /\ reply = [ok |-> FALSE, asked |-> 0, got |-> 0]
  /\ ptr = [idx |-> Nil, lba |-> 0]

Next ==
  \/ \E l \in Wanted : \/ ReadHit(l) \/ ReadCluster(l) \/ ReadSingle(l) \/ ReadFails(l)
                       \/ Retain(l)
  \/ Flush

Spec == Init /\ [][Next]_vars

-----------------------------------------------------------------------------
(* Properties.                                                             *)

\* The fields of the cache stay in their ranges.
TypeOK ==
  /\ cache.bucket \in [0..(HashSize - 1) -> Idx \cup {Nil}]
  /\ cache.next \in [Idx -> Idx \cup {Nil}] /\ cache.lnext \in [Idx -> Idx \cup {Nil}]
  /\ cache.prev \in [Idx -> Idx \cup {Nil}]
  /\ {cache.free, cache.head, cache.tail} \subseteq Idx \cup {Nil}
  /\ cache.valid \subseteq Idx /\ cache.lba \in [Idx -> Lbas]
  /\ cache.data \in [Idx -> Lbas \cup {Garbage}]
  /\ cache.count \in 0..Capacity /\ cache.lastMiss \in Lbas

\* The links that four functions splice stay one structure: the LRU list holds
\* exactly the valid entries, backwards as forwards; the free list, which lives
\* in the same links, holds all others; a valid entry is on the hash chain of
\* its sector and on no other.
LinksConsistent ==
  /\ Terminated(cache.head, cache.lnext) /\ Terminated(cache.free, cache.lnext)
  /\ Elements(cache.head, cache.lnext) = cache.valid
  /\ Elements(cache.tail, cache.prev) = cache.valid
  /\ \A i, j \in cache.valid : cache.lnext[i] = j <=> cache.prev[j] = i
  /\ Elements(cache.free, cache.lnext) = Idx \ cache.valid
  /\ cache.count = Cardinality(cache.valid)
  /\ \A b \in 0..(HashSize - 1) :
       /\ Terminated(cache.bucket[b], cache.next)
       /\ Elements(cache.bucket[b], cache.next) = {i \in cache.valid : Hash(cache.lba[i]) = b}

\* A pointer kept while the generation stood still shows the sector it was got
\* for: "the generation is bumped whenever a valid entry is replaced or dropped,
\* so a caller holding a data pointer can tell it still holds the same sector"
\* (cache.h).  True if a read that fails leaves its buffer alone, as the bounce
\* buffers of OS3 and AROS see to; false where odfs_media_read() goes straight
\* into the buffer of the entry that would be replaced.
PointerStable ==
  ptr.idx # Nil => ptr.idx \in cache.valid /\ cache.data[ptr.idx] = ptr.lba

\* No call files an entry under a sector whose contents it has not put there, and
\* none changes the contents of an entry that stays filed as it was, with one
\* exception: a read that fails may spoil the entry that cache_reserve() named
\* for it, if the device writes into the buffer before it gives up.
ContentsFollowFiling ==
  \A i \in cache'.valid :
    \/ cache'.data[i] = cache'.lba[i]
    \/ /\ i \in cache.valid /\ cache'.lba[i] = cache.lba[i]
       /\ \/ cache'.data[i] = cache.data[i]
          \/ PartialReads /\ i = Reserve(cache) /\ reply'.ok = FALSE
SpoilsOnlyVictim == [][ContentsFollowFiling]_vars

\* The cache is a bounded LRU cache: the LRU list, read as sectors, behaves as
\* LruCache says and every answer is the sector asked for.
LruOrder ==
  LET at == Follow(cache.head, cache.lnext)
  IN  [n \in 1..Cardinality(cache.valid) |-> cache.lba[at[n - 1]]]

Lru == INSTANCE LruCache WITH order <- LruOrder,
                              ReadAhead <- IF HasStreamBuf THEN ReadAhead ELSE 1
ImplementsLru == Lru!Spec
=============================================================================
