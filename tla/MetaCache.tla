------------------------------ MODULE MetaCache ------------------------------
(***************************************************************************)
(* The parsed-directory cache of core/cache_meta.c: whole directories kept *)
(* within a byte budget, found ones protected by a position or by a        *)
(* second-chance flag, and a ring of directories known not to fit.         *)
(*                                                                         *)
(* The cache is one record, its static functions are operators on it.  A   *)
(* directory stands for its key (extent and backend); its size in bytes is *)
(* a header and one unit for each entry.                                   *)
(*                                                                         *)
(* An operator that is used nowhere and stands right before another one is *)
(* a faulty variant of it (README.md, "Faulty variants").                  *)
(***************************************************************************)
EXTENDS Naturals, FiniteSets, SequencesExt

CONSTANTS
  Dirs,        \* the directories of the mounted volume
  Count,       \* number of entries of each
  Uncacheable, \* directories without an extent (HFS) or of the CDDA backend
  Budget,      \* mc->budget
  Header,      \* sizeof(odfs_meta_dir_t)
  LruFront,    \* META_LRU_FRONT
  Slots,       \* ODFS_META_OVERSIZE_SLOTS
  Null         \* an unused slot

ASSUME MetaAssumption ==
  /\ Count \in [Dirs -> Nat] /\ Uncacheable \subseteq Dirs
  /\ Budget \in Nat /\ Header \in Nat \ {0}
  /\ Null \notin Dirs /\ LruFront \in Nat /\ Slots \in Nat \ {0}

VARIABLE mc    \* odfs_meta_cache_t

NewCache ==
  [lru |-> <<>>, ref |-> {}, total |-> 0,
   over |-> [i \in 0..(Slots - 1) |-> Null], next |-> 0]

Bytes(d) == Header + Count[d]
Cached(m, d) == d \in ToSet(m.lru)
Cacheable(d) == Budget # 0 /\ d \notin Uncacheable

\* meta_find_extent() of a cached directory: one that is near the head stays
\* where it is and is flagged.
Position(m, d) == CHOOSE p \in 1..Len(m.lru) : m.lru[p] = d
MetaFind(m, d) ==
  IF Position(m, d) <= LruFront
  THEN [m EXCEPT !.ref = @ \cup {d}]
  ELSE [m EXCEPT !.lru = <<d>> \o RemoveAt(@, Position(m, d))]

\* One round of meta_trim(): the tail goes, or goes back to the head once.
EvictedForFree(m) ==
  [m EXCEPT !.lru = Front(@)]
Evict(m) ==
  [m EXCEPT !.lru = Front(@), !.total = @ - Bytes(Last(m.lru))]
TrimStepStrict(m) == IF m.total <= Budget \/ m.lru = <<>> THEN m ELSE Evict(m)
TrimStep(m) ==
  IF m.total <= Budget \/ m.lru = <<>> THEN m
  ELSE IF Last(m.lru) \in m.ref
  THEN [m EXCEPT !.ref = @ \ {Last(m.lru)}, !.lru = <<Last(@)>> \o Front(@)]
  ELSE Evict(m)

\* Every directory is looked at twice at most.
Trim(m) == FoldLeft(LAMBDA x, k : TrimStep(x), m, [k \in 1..(2 * Len(m.lru)) |-> k])

\* meta_build_cb() gives up when an entry does not fit into the budget.
TooBig(d) == Count[d] > 0 /\ Bytes(d) > Budget

\* The failed builds that are remembered, and the ring they go into.
Remembered(d, built) == built /\ TooBig(d)
SlotAfter(i) == (i + 1) % Slots

\* meta_get(): what becomes of the cache, and whether there is a directory to
\* serve from, one that the cache keeps or one for this call only.  The build
\* enumerates the whole directory and may fail.
MetaGet(m, d, built) ==
  CASE Cached(m, d) -> [mc |-> MetaFind(m, d), serves |-> TRUE]
    [] ~Cached(m, d) /\ (\E i \in DOMAIN m.over : m.over[i] = d) ->
         [mc |-> m, serves |-> FALSE]
    [] OTHER ->
         IF Remembered(d, built)
         THEN [mc |-> [m EXCEPT !.over[m.next] = d, !.next = SlotAfter(@)],
               serves |-> FALSE]
         ELSE IF built /\ Bytes(d) > Budget
         THEN [mc |-> m, serves |-> TRUE]
         ELSE IF built
         THEN [mc |-> [Trim([m EXCEPT !.total = @ + Bytes(d)]) EXCEPT !.lru = <<d>> \o @],
               serves |-> TRUE]
         ELSE [mc |-> m, serves |-> FALSE]

-----------------------------------------------------------------------------
(* Properties.                                                             *)

\* The cache holds every directory at most once, accounts for exactly what it
\* holds and never exceeds its budget, also while directories come back to the
\* head for their second chance; and only a directory that cannot fit is
\* remembered as oversized, so that none that could be cached is shut out.
WithinBudget ==
  /\ IsInjective(mc.lru)
  /\ mc.total = FoldLeft(LAMBDA n, d : n + Bytes(d), 0, mc.lru)
  /\ mc.total <= Budget
  /\ \A i \in DOMAIN mc.over : mc.over[i] # Null => Bytes(mc.over[i]) > Budget

\* "A directory used since it was last moved to the head goes back there instead,
\* once" (meta_trim): no flagged directory is evicted while one that was not
\* used is kept, in whatever order they stand.
SecondChance ==
  [][\A d \in mc.ref : d \notin ToSet(mc'.lru) =>
       ToSet(mc.lru) \cap ToSet(mc'.lru) \subseteq mc.ref]_mc
=============================================================================
