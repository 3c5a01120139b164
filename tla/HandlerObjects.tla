--------------------------- MODULE HandlerObjects ---------------------------
(***************************************************************************)
(* Locks, file handles and the entries they share, in the handler          *)
(* (platform/amiga/handler_main.c): every object comes from a free-list    *)
(* pool or the heap, points to a reference-counted entry with its node and *)
(* the ancestors that are known of it, and is linked into its volume.      *)
(*                                                                         *)
(* Each action is one packet (or OS4 vector) and atomic: the handler       *)
(* serves one at a time.  How volumes come and go is the subject of        *)
(* HandlerVolumes; here they only change.                                  *)
(*                                                                         *)
(* An operator that is used nowhere and stands right before another one is *)
(* a faulty variant of it (README.md, "Faulty variants").                  *)
(***************************************************************************)
EXTENDS PathWalk

CONSTANTS
  EntrySlots, LockSlots, FhSlots,  \* memory for objects: sets of naturals
  Null,                            \* the NULL pointer
  MaxVolumes,                      \* bound on the mounts
  ResolverOf,                      \* how a volume's backend finds parents
  Paths,                           \* the paths the clients use
  CacheStates,                     \* sets of directories the cache may hold
  Failures                         \* "nomem", and "doslock" in the OS4 build

ASSUME ObjectsAssumption ==
  /\ \A slots \in {EntrySlots, LockSlots, FhSlots} :
       slots \subseteq Nat /\ IsFiniteSet(slots) /\ Null \notin slots
  /\ MaxVolumes \in Nat \ {0} /\ Null \notin 1..MaxVolumes
  /\ ResolverOf \in [1..MaxVolumes -> Resolvers]
  /\ \A path \in Paths : path \in Seq(ToSet(path))
  /\ Failures \subseteq {"nomem", "doslock"} /\ \A c \in CacheStates : c \subseteq Dirs

VARIABLES
  entries,     \* odfs_entry_t: reference count, volume, node and ancestors
  locks,       \* odfs_lock_t: its entry while the magic is set, list links
  fhs,         \* odfs_fh_t: its entry while the magic is set
  entryPool, lockPool, fhPool,  \* free lists, first to be reused first
  entryHeap,   \* entries that are not allocated
  lockHead,    \* volume->lock_head
  objects,     \* volume->object_count
  current,     \* g->current_volume, or Null
  mounts,      \* mounts so far (see MaxVolumes)
  wrong        \* ghost: answers that are not what the tree says

vars == <<entries, locks, fhs, entryPool, lockPool, fhPool, entryHeap, lockHead, objects,
          current, mounts, wrong>>

Volumes == 1..MaxVolumes
NoEntry == [refs |-> 0, vol |-> Null, node |-> RootNode, parent |-> RootNode,
            grand |-> RootNode, has |-> FALSE]
NoLock == [entry |-> Null, prev |-> Null, next |-> Null]
ActiveLocks == {l \in LockSlots : locks[l].entry # Null}
ActiveFhs == {f \in FhSlots : fhs[f] # Null}

-----------------------------------------------------------------------------
(* Memory.                                                                 *)

\* pool_pop(), or the heap, which has its lowest free slot or nothing to give:
\* the slot and what is left of the pool and the heap.
Allocations(pool, heap) ==
  IF pool # <<>> THEN {[slot |-> Head(pool), pool |-> Tail(pool), heap |-> heap]}
  ELSE (IF heap = {} THEN {}
        ELSE {[slot |-> Min(heap), pool |-> <<>>, heap |-> heap \ {Min(heap)}]})
       \cup (IF heap # {} /\ "nomem" \notin Failures THEN {}
             ELSE {[slot |-> Null, pool |-> <<>>, heap |-> heap]})

UsedEntries == {e \in EntrySlots : entries[e].refs > 0}
EntryAllocations == Allocations(entryPool, entryHeap)
LockAllocations == Allocations(lockPool, LockSlots \ (ToSet(lockPool) \cup ActiveLocks))
FhAllocations == Allocations(fhPool, FhSlots \ (ToSet(fhPool) \cup ActiveFhs))

\* alloc_entry_blank() and what resolution fills in.
NewEntry(r) ==
  [refs |-> 1, vol |-> current, node |-> r.node, parent |-> r.parent,
   grand |-> r.grand, has |-> r.has]

\* release_entry(): the last reference returns it to the pool; what a pooled
\* entry still holds is overwritten when it is used again.
ReleaseLate(es, pool, e) ==
  [entries |-> [es EXCEPT ![e].refs = @ - 1], pool |-> pool]
ReleaseEntry(es, pool, e) ==
  IF es[e].refs > 1 THEN [entries |-> [es EXCEPT ![e].refs = @ - 1], pool |-> pool]
  ELSE [entries |-> [es EXCEPT ![e] = NoEntry], pool |-> <<e>> \o pool]

\* link_volume_lock() and unlink_volume_lock().
LinkVolumeLock(ls, head, v, l, e) ==
  LET linked == [ls EXCEPT ![l] = [entry |-> e, prev |-> Null, next |-> head[v]]]
  IN  IF head[v] = Null THEN linked ELSE [linked EXCEPT ![head[v]].prev = l]
UnlinkedForwardOnly(ls, l) ==
  LET p == ls[l].prev
      n == ls[l].next
      ls1 == IF p = Null THEN ls ELSE [ls EXCEPT ![p].next = n]
  IN  [ls1 EXCEPT ![l] = NoLock]
UnlinkVolumeLock(ls, l) ==
  LET p == ls[l].prev
      n == ls[l].next
      ls1 == IF p = Null THEN ls ELSE [ls EXCEPT ![p].next = n]
      ls2 == IF n = Null THEN ls1 ELSE [ls1 EXCEPT ![n].prev = p]
  IN  [ls2 EXCEPT ![l] = NoLock]
HeadAfterUnlink(l) ==
  LET v == entries[locks[l].entry].vol
  IN  IF lockHead[v] = l THEN [lockHead EXCEPT ![v] = locks[l].next] ELSE lockHead

-----------------------------------------------------------------------------
(* Making objects.                                                         *)

\* lock_from_entry() on an entry whose reference it takes over: a lock, or
\* none, which leaves the reference to the caller to release.  In the OS4 build
\* the lock's memory goes back to the heap if DOS has no lock object to give.
LockFromEntry(es, pool, e) ==
  \E a \in LockAllocations :
    \/ /\ a.slot # Null
       /\ entries' = es /\ entryPool' = pool
       /\ locks' = LinkVolumeLock(locks, lockHead, es[e].vol, a.slot, e)
       /\ lockHead' = [lockHead EXCEPT ![es[e].vol] = a.slot]
       /\ objects' = [objects EXCEPT ![es[e].vol] = @ + 1]
       /\ lockPool' = a.pool
    \/ /\ a.slot = Null \/ "doslock" \in Failures
       /\ LET r == ReleaseEntry(es, pool, e)
          IN  entries' = r.entries /\ entryPool' = r.pool
       /\ lockPool' = a.pool
       /\ UNCHANGED <<locks, lockHead, objects>>

\* A blank entry for what resolution found, or back to the pool with it.
Fill(a, r) == [entries EXCEPT ![a.slot] = NewEntry(r)]
DropBlank(a) ==
  /\ entryPool' = <<a.slot>> \o a.pool
  /\ UNCHANGED <<entries, locks, lockHead, objects, lockPool>>

\* The object a client starts from: a lock on the current volume, or none for
\* the root.  A lock on another volume is refused.
RootStart == [node |-> RootNode, parent |-> RootNode, grand |-> RootNode, has |-> TRUE]
Starts ==
  {Null} \cup {l \in ActiveLocks : entries[locks[l].entry].vol = current}
StartOf(l) == IF l = Null THEN RootStart ELSE entries[locks[l].entry]
FhStarts == {f \in ActiveFhs : entries[fhs[f]].vol = current}

\* Ghost: an answer is noted if the path denotes something else.
Due == [p \in Places |-> [path \in Paths |-> Denotes(p, path)]]
Answer(at, err) == [at |-> IF err = "ok" THEN at ELSE NoPlace, err |-> err]
Note(start, path, r) ==
  \E d \in {Due[start.node.at][path]} :
    wrong' = wrong \cup (IF Answer(r.node.at, r.err) = Answer(d.at, d.err) THEN {}
                         ELSE {[from |-> start.node.at, path |-> path, got |-> r.err, due |-> d.err]})

\* ACTION_LOCATE_OBJECT.
LockResolved(a, r) ==
  \/ r.err # "ok" /\ DropBlank(a)
  \/ r.err = "ok" /\ LockFromEntry(Fill(a, r), a.pool, a.slot)
LockObject(l, path) ==
  /\ current # Null
  /\ \E a \in EntryAllocations, cached \in CacheStates, id \in Ids :
       /\ a.slot # Null /\ entryHeap' = a.heap
       /\ \E r \in {ResolveIntoEntry(StartOf(l), path, cached, ResolverOf[current], id)} :
            Note(StartOf(l), path, r) /\ LockResolved(a, r)
  /\ UNCHANGED <<fhs, fhPool, current, mounts>>

\* ACTION_COPY_DIR and ACTION_COPY_DIR_FH share the entry; without an object
\* they make a new one for the root.
ShareEntry(e) == LockFromEntry([entries EXCEPT ![e].refs = @ + 1], entryPool, e)
DupLock(l) ==
  /\ l # Null
  /\ ShareEntry(locks[l].entry)
  /\ UNCHANGED <<entryHeap, fhs, fhPool, current, mounts, wrong>>
DupLockFromFh(f) ==
  /\ ShareEntry(fhs[f])
  /\ UNCHANGED <<entryHeap, fhs, fhPool, current, mounts, wrong>>
DupRoot ==
  /\ current # Null
  /\ \E a \in EntryAllocations :
       /\ a.slot # Null /\ entryHeap' = a.heap
       /\ LockFromEntry([entries EXCEPT ![a.slot] = NewEntry(RootStart)], a.pool, a.slot)
  /\ UNCHANGED <<fhs, fhPool, current, mounts, wrong>>

\* ACTION_PARENT and ACTION_PARENT_FH: the root has none.
ParentEntry(e) ==
  /\ ~Same(entries[e].node, Root)
  /\ \E a \in EntryAllocations, id \in Ids :
       /\ a.slot # Null /\ entryHeap' = a.heap
       /\ \E r \in {ResolveParentWithCache(entries[e], ResolverOf[current], id)} :
            LockResolved(a, r)
  /\ UNCHANGED <<fhs, fhPool, current, mounts, wrong>>
ParentOfLock(l) == l # Null /\ ParentEntry(locks[l].entry)
ParentOfFh(f) == ParentEntry(fhs[f])

\* ACTION_FINDINPUT: alloc_fh() takes a reference of its own before the packet's
\* is released, or fails and the entry goes back.
OpenObject(l, path) ==
  /\ current # Null
  /\ \E a \in EntryAllocations, cached \in CacheStates, id \in Ids :
       /\ a.slot # Null /\ entryHeap' = a.heap
       /\ \E r \in {ResolveIntoEntry(StartOf(l), path, cached, ResolverOf[current], id)} :
              /\ Note(StartOf(l), path, r)
              /\ \/ /\ r.err # "ok" \/ KindOf[r.node.at] = "dir"
                    /\ DropBlank(a)
                    /\ UNCHANGED <<fhs, fhPool>>
                 \/ /\ r.err = "ok" /\ KindOf[r.node.at] # "dir"
                    /\ \E b \in FhAllocations :
                         \/ /\ b.slot # Null
                            /\ entryPool' = a.pool
                            /\ entries' = Fill(a, r)
                            /\ fhs' = [fhs EXCEPT ![b.slot] = a.slot] /\ fhPool' = b.pool
                            /\ objects' = [objects EXCEPT ![current] = @ + 1]
                            /\ UNCHANGED <<locks, lockHead, lockPool>>
                         \/ b.slot = Null /\ DropBlank(a) /\ UNCHANGED <<fhs, fhPool>>
  /\ UNCHANGED <<current, mounts>>

-----------------------------------------------------------------------------
(* Giving objects back.                                                    *)

\* release_volume_object().
ReleaseVolumeObject(os, v) == [os EXCEPT ![v] = IF @ = 0 THEN 0 ELSE @ - 1]

\* free_lock() on top of what the packet did to the entries and counts before.
FreeLockAfter(es, os, l) ==
  LET e == locks[l].entry
      r == ReleaseEntry(es, entryPool, e)
  IN  /\ locks' = UnlinkVolumeLock(locks, l)
      /\ lockHead' = HeadAfterUnlink(l)
      /\ lockPool' = <<l>> \o lockPool
      /\ entries' = r.entries /\ entryPool' = r.pool
      /\ objects' = ReleaseVolumeObject(os, es[e].vol)

\* ACTION_FREE_LOCK, on any volume.
FreeLock(l) ==
  /\ FreeLockAfter(entries, objects, l)
  /\ UNCHANGED <<entryHeap, fhs, fhPool, current, mounts, wrong>>

\* ACTION_FH_FROM_LOCK: the handle takes the lock's entry over; if there is no
\* memory for it the lock stays.
OpenFromLock(l) ==
  /\ l # Null
  /\ \E b \in FhAllocations :
       /\ b.slot # Null
       /\ LET e == locks[l].entry
          IN  FreeLockAfter([entries EXCEPT ![e].refs = @ + 1],
                            [objects EXCEPT ![entries[e].vol] = @ + 1], l)
       /\ fhs' = [fhs EXCEPT ![b.slot] = locks[l].entry] /\ fhPool' = b.pool
  /\ UNCHANGED <<entryHeap, current, mounts, wrong>>

\* ACTION_END, on any volume.
CloseObject(f) ==
  /\ LET r == ReleaseEntry(entries, entryPool, fhs[f])
     IN  entries' = r.entries /\ entryPool' = r.pool
  /\ objects' = ReleaseVolumeObject(objects, entries[fhs[f]].vol)
  /\ fhs' = [fhs EXCEPT ![f] = Null] /\ fhPool' = <<f>> \o fhPool
  /\ UNCHANGED <<entryHeap, locks, lockHead, lockPool, current, mounts, wrong>>

-----------------------------------------------------------------------------
(* Questions.                                                              *)

\* nodes_same().
NodesSame(a, b) == a.at = b.at /\ a.id = b.id

\* ACTION_SAME_LOCK, also for locks on volumes that are gone; no lock at all
\* stands for the root of the current one.
SameLockAnswer(l1, l2) ==
  LET vol(l) == IF l = Null THEN current ELSE entries[locks[l].entry].vol
  IN  vol(l1) = vol(l2) /\ (IF l1 = Null \/ l2 = Null
                            THEN StartOf(l1).node.at = StartOf(l2).node.at
                            ELSE NodesSame(StartOf(l1).node, StartOf(l2).node))
SameLock(l1, l2) ==
  /\ current # Null \/ Null \notin {l1, l2}
  /\ LET told == SameLockAnswer(l1, l2)
         due  == /\ StartOf(l1).node.at = StartOf(l2).node.at
                 /\ \A l \in {l1, l2} : l # Null => entries[locks[l].entry].vol = current
         both == \A l \in {l1, l2} : l # Null => entries[locks[l].entry].vol = current
         ids  == StartOf(l1).node.id = StartOf(l2).node.id
     IN  wrong' = wrong \cup (IF both /\ told # due
                              THEN {[told |-> told, due |-> due, sameId |-> ids]} ELSE {})
  /\ UNCHANGED <<entries, locks, fhs, entryPool, lockPool, fhPool, entryHeap, lockHead, objects,
                 current, mounts>>

\* ACTION_READ_LINK: the link's directory and name and what follows the link.
ReadSoftLink(l, path) ==
  /\ current # Null
  /\ \E id \in Ids :
       \E w \in {ResolveAmigaPath(StartOf(l), path, ResolverOf[current], id)},
          d \in {Due[StartOf(l).node.at][path]} :
         LET same == w.err = d.err /\ (w.err = "ok" => w.cur.at = d.at)
             link == w.err = "is link" => Parent[w.link] = w.linkDir /\ w.linkDir = d.at
         IN  wrong' = wrong \cup (IF same /\ link THEN {} 
                         ELSE {[from |-> StartOf(l).node.at, path |-> path, got |-> w, due |-> d]})
  /\ UNCHANGED <<entries, locks, fhs, entryPool, lockPool, fhPool, entryHeap, lockHead, objects,
                 current, mounts>>

-----------------------------------------------------------------------------
(* Around the objects.                                                     *)

\* unmount_volume() and mount_volume() of HandlerVolumes.
UnmountVolume ==
  /\ current # Null
  /\ current' = Null
  /\ UNCHANGED <<entries, locks, fhs, entryPool, lockPool, fhPool, entryHeap, lockHead, objects, mounts, wrong>>
MountVolume ==
  /\ current = Null /\ mounts < MaxVolumes
  /\ current' = mounts + 1 /\ mounts' = mounts + 1
  /\ UNCHANGED <<entries, locks, fhs, entryPool, lockPool, fhPool, entryHeap, lockHead, objects, wrong>>

\* The end of the handler, which begin_shutdown() allows only without objects:
\* the pools go back to the heap.
Shutdown ==
  /\ ActiveLocks = {} /\ ActiveFhs = {}
  /\ entryPool' = <<>> /\ lockPool' = <<>> /\ fhPool' = <<>>
  /\ entryHeap' = entryHeap \cup ToSet(entryPool)
  /\ current' = Null /\ mounts' = MaxVolumes
  /\ UNCHANGED <<entries, locks, fhs, lockHead, objects, wrong>>

Init ==
  /\ entries = [e \in EntrySlots |-> NoEntry]
  /\ locks = [l \in LockSlots |-> NoLock]
  /\ fhs = [f \in FhSlots |-> Null]
  /\ entryPool = <<>> /\ lockPool = <<>> /\ fhPool = <<>> /\ entryHeap = EntrySlots
  /\ lockHead = [v \in Volumes |-> Null] /\ objects = [v \in Volumes |-> 0]
  /\ current = 1 /\ mounts = 1 /\ wrong = {}

Next ==
  \/ \E l \in Starts, path \in Paths : LockObject(l, path)
  \/ \E l \in Starts, path \in Paths : OpenObject(l, path)
  \/ \E l \in Starts, path \in Paths : ReadSoftLink(l, path)
  \/ \E l \in Starts : DupLock(l)
  \/ \E l \in Starts : ParentOfLock(l)
  \/ \E l \in Starts : OpenFromLock(l)
  \/ \E f \in FhStarts : DupLockFromFh(f)
  \/ \E f \in FhStarts : ParentOfFh(f)
  \/ DupRoot
  \/ \E l \in ActiveLocks : FreeLock(l)
  \/ \E f \in ActiveFhs : CloseObject(f)
  \/ \E l1, l2 \in ActiveLocks \cup {Null} : SameLock(l1, l2)
  \/ UnmountVolume
  \/ MountVolume
  \/ Shutdown

Spec == Init /\ [][Next]_vars

-----------------------------------------------------------------------------
(* Properties.                                                             *)

\* The states every variable takes.
TypeOK ==
  /\ entries \in [EntrySlots -> [refs : Nat, vol : Volumes \cup {Null}, node : Node,
                                 parent : Node, grand : Node, has : BOOLEAN]]
  /\ locks \in [LockSlots -> [entry : EntrySlots \cup {Null}, prev : LockSlots \cup {Null},
                              next : LockSlots \cup {Null}]]
  /\ fhs \in [FhSlots -> EntrySlots \cup {Null}]
  /\ entryPool \in Seq(EntrySlots) /\ lockPool \in Seq(LockSlots) /\ fhPool \in Seq(FhSlots)
  /\ entryHeap \subseteq EntrySlots
  /\ lockHead \in [Volumes -> LockSlots \cup {Null}] /\ objects \in [Volumes -> Nat]
  /\ current \in Volumes \cup {Null} /\ mounts \in Volumes

\* An entry is referenced exactly by the locks and handles that use it, its
\* volume counts them, and what is in a pool is used by nobody and there once:
\* no duplicate, takeover or failure on the way leaks an entry or frees it too early.
RefsExact ==
  /\ \A e \in EntrySlots :
       entries[e].refs = Cardinality({l \in ActiveLocks : locks[l].entry = e})
                         + Cardinality({f \in ActiveFhs : fhs[f] = e})
  /\ \A v \in Volumes :
       objects[v] = Cardinality({l \in ActiveLocks : entries[locks[l].entry].vol = v})
                    + Cardinality({f \in ActiveFhs : entries[fhs[f]].vol = v})
  /\ IsInjective(entryPool) /\ IsInjective(lockPool) /\ IsInjective(fhPool)
  /\ ToSet(entryPool) \cap (UsedEntries \cup entryHeap) = {} /\ UsedEntries \cap entryHeap = {}
  /\ EntrySlots = UsedEntries \cup entryHeap \cup ToSet(entryPool)
  /\ ToSet(lockPool) \cap ActiveLocks = {} /\ ToSet(fhPool) \cap ActiveFhs = {}

\* The locks of a volume are exactly the ones on its doubly linked list.
LockListExact ==
  \A v \in Volumes :
    LET mine == {l \in ActiveLocks : entries[locks[l].entry].vol = v}
        N == Cardinality(mine)
        chain[i \in 0..N] == IF i = 0 THEN lockHead[v]
                             ELSE IF chain[i - 1] = Null THEN Null ELSE locks[chain[i - 1]].next
    IN  /\ {chain[i] : i \in 0..(N - 1)} = mine /\ chain[N] = Null
        /\ \A i \in 0..(N - 1) : locks[chain[i]].prev = IF i = 0 THEN Null ELSE chain[i - 1]

\* The parent and grandparent an entry remembers are those of its object,
\* however it was reached: climbing never leads to another branch of the tree.
AncestryTrue == \A e \in UsedEntries : TrueAncestry(entries[e])

\* Every path, and every link on the way of one, is answered as the tree says,
\* whatever is cached, whatever is remembered of the ancestors and whatever ids
\* the scans gave.  SameLock() never takes two objects for one, and takes one for
\* two only if its nodes carry different ids (nodes_same).
OneTakenForTwo == [told |-> FALSE, due |-> TRUE, sameId |-> FALSE]
AnswersTrue == wrong \subseteq {OneTakenForTwo}

\* SameLock() compares objects, not the scans that found them: the handler says
\* of its keys "Use stable on-disc identity rather than transient ODFS node ids;
\* ISO/Joliet nodes are regenerated during directory scans"
\* (handler_main.c:1914-1916).  nodes_same() does use them.
AnswersExact == wrong = {}

\* What the answers are proved for: such a disc and such paths.
PlainPaths == \A path \in Paths : PlainPath(path)
PlainUse == PlainTree /\ PlainPaths
=============================================================================
