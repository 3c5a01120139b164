# ODFileSystem in TLA+

ODFileSystem is a read-only optical-disc file system for AmigaOS: a DOS handler
process, format backends (ISO 9660, Joliet, Rock Ridge, UDF, HFS, HFS+, CDDA)
and two caches between them.  This directory holds a TLA+ model of the parts of
it whose correctness depends on the order of events, on partial failures, on
limits or on long sequences of calls, TLC configurations that check the model on
small instances, and TLAPS proofs for instances of any size.  Paths below are
relative to `src/`; `handler_main.c` is `platform/amiga/handler_main.c`.

`PROJECT.json` lists components, runs, the lines each definition models, the
hazards that the properties are for, and the theorems.

## 1. Inventory

| Component | State it keeps | Operations | Hard behaviour |
|---|---|---|---|
| Handler main loop and volumes (`handler_main.c` 5400-6889) | signals, `g->mounted`, `g->inhibited`, `g->current_volume`, list of volumes with `object_count`, `listed`, `dl_Task`; change count; publish timer | mount, unmount, media change, publish retry, inhibit, shutdown | discs change between any two device requests; every service can fail; the DOS list may be locked; stale volumes outlive their mount; volume memory is reused |
| Locks, file handles, entries (`handler_main.c` 1568-2350) | `locklist`, `fhlist`, shared `odfs_entry_t` with reference counts | locate, dup, parent, open, free | references must balance across failures and disc swaps |
| Listing packets (`handler_main.c` 4190-4900) | per-lock `exnext` cursor; the client's key | ExamineObject, ExamineNext, ExamineAll | several scans on one lock; cookies of two kinds; keys that are not unique |
| Directory cache (`core/cache_meta.c`) | directories in LRU order, reference flags, byte account, ring of oversized directories | find, build, trim, replay, skip | eviction between two calls of one listing |
| Block cache (`core/cache_block.c`) | entries, hash chains, LRU list, free list, generation | read, clustered read, retain, flush, byte ranges | link surgery in four places; callers keep pointers; failing reads; last sector number |
| Mount and selection (`core/mount.c`, `core/session.c`) | backend contexts, active backend, mount options | mount, unmount, session search, probe ladder | contexts opened and closed on the way; hybrid and multisession discs; sizes from the medium |
| Backends (`backends/*`) | parsed volume headers; CDDA's audio buffer | probe, mount, readdir, lookup, read, readlink, parent | extents in several places, B-trees, chains of descriptors and continuation areas that may be broken anywhere, listings that resume in a walk made anew |
| Paths and parents (`handler_main.c` 2388-2850, `core/mount.c`, `core/ancestry.c`) | ancestors remembered in entries | component walk, soft links, `/`, ancestry search | what is remembered goes stale on the way down and up |
| File reads (`handler_main.c` 3230-3620, `core/mount.c`) | position, prefetch request and its buffer | read, seek, read-ahead | an asynchronous device request in flight; byte offsets beyond 32 bits |
| Device and SCSI access (`handler_main.c` 205-1470) | device request, DMA buffer | read sectors, TOC, change count | hardware errors |
| OS4 vector port (`platform/amiga/os4`) | `fs_sem`, `FSPrivate`, the caller's I/O request | vector calls in the caller's task, shutdown handshake | real concurrency; shutdown against calls under way |
| Name fixing, character sets, time stamps (`core/*.c`) | none | conversions | collisions of fixed names |
| Host media and tools (`platform/host`, `tools`) | image file, track table | reads, track arithmetic | - |

How they interact.  On the classic build the handler is one process: device
interrupts, the timer and DOS reach it as signals and packets, and it calls
`odfs_mount()`, `odfs_readdir()`, `odfs_read()` ... synchronously.  Those go through
the backend table to a backend, which reads through the block cache; directory
listings pass the directory cache first.  Locks, file handles and the DOS volume
node are shared with DOS and its clients, which keep pointers to them for as long
as they like.  On OS4 the same code also runs in the calling tasks, as vectors,
under the semaphore `fs_sem`.

What makes each part correct:

- *volumes*: an object leads to the volume it was made on, or to a stale but
  allocated one; counts are exact; DOS sees live nodes only and one active volume
  at most; the mounted volume is the disc in the drive; a volume gets onto the DOS
  list; packets are answered;
- *listings*: each listing gives every entry once, in order, whatever other
  scans, lookups, builds and evictions happen in between;
- *caches*: an entry holds its sector, links are one structure, eviction follows
  LRU order (or second chance) within the budget, kept pointers are stable while
  the generation stands still, byte ranges are exact up to the last sector;
- *mount*: contexts are paired, the documented format wins, the last session
  comes first, and the search ends;
- *objects*: reference counts and lock lists are exact over every sequence of
  calls and failures, remembered ancestors are the true ones, and a path leads
  where the tree says;
- *reads*: a read gives the file's bytes at the position, whichever path serves
  it and whatever the read-ahead request is doing, and nothing of an earlier disc;
- *backends*: listing, lookup, parents, data and links agree with each other and
  with what is on the disc, in every layout, and a block that cannot be read makes
  them fail, not lie;
- *vector port*: nobody is inside when the handler is freed; state is changed
  under the semaphore only; requests and ports belong to the right task.

## 2. Modules

Each definition carries the name of the function, flag or idea of the source it
stands for.  Data is reduced to what the properties distinguish: a disc is a model
value, a sector's contents are the number of the sector it belongs to, a
directory entry is its index, a mount's outcome is a member of a small set.

| Module | Models | Run module |
|---|---|---|
| `HandlerVolumes` | the handler process of the classic build: main loop, media change, mount, unmount, stale volumes, publication, inhibit, shutdown, with drive, timer, DOS and clients around it | `MCHandlerVolumes` |
| `LruCache` | what `include/odfs/cache.h` promises (abstract) | - |
| `BlockCache` | `core/cache_block.c` with its links | `MCBlockCache` |
| `ReadBytes` | `odfs_cache_read_bytes()` | `MCBlockCache`, which composes it with the cache |
| `MetaCache` | `core/cache_meta.c` | - |
| `DirScan` | listings: packets, `odfs_readdir()`, `MetaCache` and the ISO backend's cookies composed | `MCDirScan` |
| `MountSelect` | `odfs_mount()`, `odfs_unmount()`, the session search | `MCMountSelect` |
| `VectorGuard` | OS4 vectors, semaphore and shutdown guard | itself |
| `PathWalk` | `resolve_amiga_path()`, the cache's path lookup, the ancestry search, as operators on a tree | - |
| `HandlerObjects` | locks, file handles and shared entries over `PathWalk` | `MCHandlerObjects` |
| `FileRead` | open, seek, read, the read-ahead request and the device requests below | `MCFileRead` |
| `NameFix` | `core/namefix.c`, and what all backends do with a list of entries | - |
| `RockRidge` | the fields of System Use Areas and continuation areas | - |
| `IsoDir` | the ISO 9660 backend with Joliet and Rock Ridge | - |
| `HfsCatalog` | the HFS and HFS+ backends | - |
| `UdfDir` | the UDF backend | - |
| `CddaTracks` | the CDDA backend | - |
| `Backends` | a client of a mounted backend: listings in several calls, lookups, reads, links, parents | `MCBackends` |
| `FoldInduction` | no code: induction over natural numbers and over `FoldLeft` | - |
| `HandlerVolumesProofs`, `VectorGuardProofs`, `MountSelectProofs`, `HandlerObjectsProofs` (with `PathWalk`), `BlockCacheProofs` (with `ReadBytes`), `DirScanProofs` (with `MetaCache`), `FileReadProofs` | proofs about the module of that name | - |

**HandlerVolumes.**  The handler is a sequential process with the control state
`pc`.  Steps end where the world can move: at every device request (`presence`,
`toc`, `fs`, `audio`, `node` of a mount; `change`, `state` of a media change), at
every packet reply, and at `Wait()`.  `count`, `volId`, `listed` and `active` are
fields of `odfs_volume_t` and its node by address; `live` is `g->volumes`;
`dosList` is DOS's own list.  Addresses come from the finite set `Addrs` and are
used again after a free, which is what makes pointer comparison dangerous.
`Failures` names the services that may fail at each call.  `LateCounter` is the
polling driver that raises the interrupt before its counter moves, `ForeignLink`
another DOS component that links an unpublished node.  `heldId`, `mountMedia` and
`mountedBy` are ghosts that only properties read.

**BlockCache / LruCache.**  The cache is one record with the arrays of the
source; each static helper maps records to records, the public functions are
actions.  `ptr` is a data pointer that some caller keeps for as long as the
generation stands still.  The refinement `ImplementsLru` maps the links to the
sequence of cached sectors in LRU order.

**ReadBytes.**  The loops of the function, with the sector number as a value of
bounded width (`LastLba` is `UINT32_MAX`).  `MCBlockCache` lets its head, single and
tail sectors go through `BlockCache`, as `cache_copy_sector()` does, and its long runs
past it.

**MetaCache / DirScan.**  `MetaCache` gives the cache as operators on one record.
`DirScan` adds the lock's cursor, the client's key and the two cookie kinds (a
tagged index from the cache, a byte position from the backend).  `got` is a ghost:
what a scan has been given so far.

**MountSelect.**  A disc is its table of contents, the answer to the last-session
query, the descriptors a scan would find, and what each backend makes of each
place (`absent`, `bad`: probed but not mountable, `flaky`, `good`, `rr`).  Contexts
are counted per backend, so that a leak or a double free shows.

**VectorGuard.**  Tasks obtain `fs_sem` in the order they come.  What runs under
the semaphore or under `Forbid()` is one step; volumes and objects are reduced to
the few facts the shutdown handshake and `g->inhibited` depend on.

**PathWalk / HandlerObjects.**  A node is a place in a fixed tree together with
the id that the scan which produced it handed out.  Paths are sequences of tokens.
`HandlerObjects` makes each packet one action: the walk, the allocation of entry,
lock and handle from pool or heap (each may fail), the links of `volume->lock_head`,
the counts.  Two volumes come and go, one whose backend finds parents itself and
one that needs the search.  `wrong` collects answers that contradict the tree.

**FileRead.**  A byte is named by its disc and its address, so that a read can be
compared with the file.  `pf` is what the handler believes of its read-ahead and
`req` what the device has; the device completes the request at any moment.  The
drive is one of several: with 64-bit commands or without, with SCSI reads that
count in the disc's sectors, in smaller blocks (then `scsi_Actual` gives them away) or
in larger ones (then the probe does, for sectors below the limit).  The block cache appears as the sectors
it holds in LRU order (`BlockCache` and `ReadBytes` have the detail).

**Backends.**  A disc is a record: the tree that was written, `tree`, and the
structures of its format.  `MCBackends` writes one tree, with names that collide
by case, with a suffix on the disc and when they are cut, four levels deep, with
soft links and a file in several extents, into each format in several layouts:
records per sector, sessions, Rock Ridge names in pieces and behind chains of
continuation areas (one of which leads to itself), the Joliet tree behind other
descriptors; B-trees of one to three levels with a catalogue in two extents, in
allocation blocks that are not sectors and do not begin with the disc; UDF
partitions, embedded and listed data, holes, chained descriptors, directories in two
extents of which one ends inside a FID, soft links of components and of raw paths up
to the longest and beyond; audio discs and mixed ones, WAV and AIFF, with and without
the buffer.  Every call may meet one unreadable block, and three discs are damaged: a
FID reaches behind its directory, a leaf has an impossible number of records.  The operators of the format modules take a disc and return what
the backend would answer; `Backends` is the client that keeps nodes and cookies.
`ReaddirBehind` is the handler's way to list CDDA directories, which never uses
their cookie.

What these modules leave out: allocation failures inside `namefix.c`, malformed
index records of B-trees, the conversion of character sets (with it a path of UDF
components that grows past its buffer), B-tree nodes that are not one sector long, and
which of the sectors before an unreadable one are lost with the request they shared
(that is in `ReadBytes`).

### Faulty variants

Beside many definitions stands a second one that no other definition uses, for
instance `RetainForgotten` before `RetainVolumeObject`.  It is the same operation
with a plausible mistake: a dropped guard, a missing update, an off-by-one, a
swapped order.  `PROJECT.json` ("mutants") names for every property of every passing run
such a variant with which TLC finds the property violated, so no property holds
only because of how the model is written.

## 3. Runs

`tlc -config <run>.cfg <module>` in this directory.

| Run | States | Shows |
|---|---|---|
| `volumes_swap` | 3.8 M | ten services may fail at any call while discs are swapped, the unit is inhibited, the handler is told to end and a client holds up to two objects: counts, pointers, validation, DOS list and Workbench events stay consistent; the second mount at startup takes nothing from anybody |
| `volumes_live` | 822 k | liveness, with a lagging counter and foreign links: the handler ends up with the disc that stays in the drive, an unpublished volume gets published, every packet is answered unless the handler ends |
| `block_cache` | 79 k | links, pointer stability, contents, and refinement of `LruCache`; exact bytes, length and result of byte ranges for every alignment, also across the last sector number; termination |
| `scan_listing` | 330 k | exact listings with two ExNext scans on one lock, one over a directory whose keys are equal, and an ExAll scan; the cache's budget, oversize ring and second chance |
| `mount_choice` | 439 k | the documented format wins on every sound disc under every option, and nothing is passed over but for an HFS+ volume that is found and cannot be mounted; last session first; contexts are paired when mounts, queries and reads fail; the search ends or its sum wraps |
| `vector_guard` | 25 k | shutdown, inhibit and the caller's request with two tasks in vectors, from before the first mount on; calls return and ACTION_DIE is answered |
| `objects` | 172 k | every sequence of locks, duplicates, parents, opens, closes and comparisons by path, over two volumes, with two ids for a place and with too little memory: reference counts, lock lists, remembered ancestors and answers |
| `file_read` | 433 k | reads of every alignment against a read-ahead that completes at any moment, failing commands, drives of other block sizes, a disc change, and files across and beyond the 32-bit byte offset |
| `backends` | 53 k | listings, lookups, parents, reads and links in every format and layout agree with the tree that was written |

Three runs, `same_lock`, `block_cache_partial` and `mount_scan_wraps`, are expected to
end with a violation: they document where the code departs from what its comments
and docs say (section 6).

**Bounds.**  `MaxEvents` caps disc changes, stray interrupts and inhibits: two
suffice for a stale volume beside a new one, three for a swap around an inhibit.  In
`volumes_swap` the change counter answers and keeps up, which `StartupRemountHarmless`
asks for; it lags in `volumes_live`, and the invariants are proved for a counter that
fails or lags as well.  Three addresses are a current volume, a stale one that
is held and a stale one that cannot leave the DOS list; with two (`volumes_live`)
allocation fails by itself.  The cache run has three entries and
sectors that collide in the hash (0 and 7, 1 and 8) and reach the last sector number
8, so that hits, evictions, clusters and the wrap meet; byte ranges have all
offsets up to one sector past the medium and lengths up to five sectors.  Its failing
reads leave their buffer alone, as the bounce buffers of OS3 and AROS see to; the other
builds are those of `block_cache_partial`, and `SpoilsOnlyVictim` is proved for both.
`scan_listing` has directories that are empty, fit, do not fit together and do not
fit at all, a ring of one slot, and ends listings that exceed `MaxListed`, which a
correct listing never reaches; keys are equal only where a scan has the lock for
itself, for with a key alone no scan can find its place among equal ones (see
`scan_shared_keys`).  `mount_choice` has every combination of formats at one place,
multisession discs with up to three tracks, discs with failing services and images
whose descriptors send the session scan forward, backward and round; sector
numbers have four bits.  `vector_guard` has two callers: one inside and one queued is
what the guard must tell apart from none.  `objects` has two locks (lists
of any length are in the proof), two ids for a place, two entries, so that sharing and failure both
happen, and a tree deep enough for a grandparent that is not the root.  `file_read`
has a window of three sectors over a cache of two, and a limit of four sectors for
CMD_READ that one of its files crosses.  `backends` has sectors of two bytes and
three records, frames of four bytes, and each of the limits of the code (levels of
a tree, continuation areas, descriptor blocks, volume descriptors, tracks) small
enough to be reached exactly.

**Fairness.**  `HandlerVolumes`: weak fairness of the handler process (Exec runs a
ready task), of the timer (`timer.device` completes requests) and of a lagging
counter; strong fairness of a publish retry that finds the DOS list free, since no
other component may hold it at every retry for ever.  `SettlesOnDisc` and
`EventuallyPublished` are stated for runs in which the main loop keeps coming back
to `Wait()`: clients that never let the port become empty starve the other signals
in the code as well.  `ReadBytes` and `MountSelect` are sequential calls: weak
fairness of their steps.  `VectorGuard`: weak fairness of the handler and of each
task inside a vector; nobody is obliged to call, and the semaphore is first come,
first served.

`FileRead`, `HandlerObjects`, `DirScan`, `BlockCache` and `Backends` state safety
only: their calls end by construction of the code's loops, and no scheduling is
assumed.

Deadlock is checked except where the system does stop: runs in which the handler
ends (`volumes_swap`, `vector_guard`, `file_read`), and the single calls of `ReadBytes` and `MountSelect`.

## 4. Proofs

`HandlerVolumesProofs` proves, for any sets of discs, addresses, clients, handles
(finite) and any failures, that `Spec` implies always `TypeOK` (`TypeCorrect`),
`CountsExact` (`CountsCorrect`), `NoAliasing` (`PointersCorrect`),
`ValidMeansSameMount` (`ValidationCorrect`), `OnlyCurrentActive` (`StaleInactive`)
and, assuming no foreign links, `DosListNodesLive` (`DosListCorrect`).  On top of
`IndInv`, `WorkbenchInformed` is inductive (`WorkbenchCorrect`), with foreign links
too.  The action property `StartupRemountHarmless` (`StartupRemountSafe`) needs
`StartupInv`: a change between `install_media_change()` and the first mount leaves
its signal pending, and the first turn of the main loop takes it to
`handle_media_change()` before any packet is served.  It is proved for a change
counter that answers and does not lag; TLC finds it violated with either.

None of them is inductive alone.  `IndInv` adds: the current volume is allocated
and no volume is current during a mount (else a mount would lose one); volume ids
are unique and below `nextId` (else a reused address could not be told from the
original); packets on their way refer to existing objects, to free slots for new
ones and never to the same one (else a free could release twice).  `CountsExact`
needs cardinality facts from `FiniteSetTheorems` when an object is added or
removed.  The steps of the proof follow the actions; lemmas cover the operations
that several actions share (unmount, reaping, retain and release).

`VectorGuardProofs` proves, for any number of tasks, `TypeOK`, `ShutdownAlone`
(`ShutdownSafe`), `CallerIoOwned` (`CallerIoSafe`) and `MountsRespectInhibit`
(`InhibitSafe`), with vectors that are called before the main loop runs, as the code
allows.  That the unit is inhibited and yet has a volume is possible then, when an
inhibit overtakes the first mount; that a mount begins on an inhibited unit is not.
`IndInv` there adds that everybody inside a vector owns the semaphore or is
queued for it, that a free semaphore has no queue, and that the handler is past
its last packet once the entry is closed.  The argument is then: the guard accepts
only a free semaphore under `Forbid()`, so nobody is inside or queued; after that
nobody gets in; and nothing the handler still does creates an object.

`MountSelectProofs` proves `ContextsExact` (`ContextsCorrect`): at each step of the
ladder of `odfs_mount()` the open contexts are the one being tried and the ones
kept.  `TriedInv` says what has been ruled out when a rung is reached; from it
follows `NothingPassedOver` (`PassedOverCorrect`), which names the one exception: an HFS+
volume that is found and cannot be mounted.  `ChoiceInv` relates each rung to the documented order;
`DocumentedChoice` (`ChoiceCorrect`) is proved for `RegularDiscs`: at a place where no
backend is flaky, HFS+ is not found, a Joliet tree that is found can be mounted (or
is disabled and ISO can), and only ISO has Rock Ridge.  Without the second and third
the code departs from its documentation (section 6).  Tables, options and discs are
otherwise arbitrary.
`TypeOK` (`TypeCorrect`) contains that sector numbers keep their width and that the
places to try fit into their array, whatever the table of contents and the descriptors
say.  `LastSessionFirst` (`LastSessionCorrect`) is proved for `TracksInOrder`: the table
of contents lists the tracks in ascending order, and the array has room (the code has 100
places for 99 tracks; the hundredth is for place 0 where no data track is).  The list is
a fold over the tracks from the last to the first: what it holds descends behind its
first place, and by `SessionInv` the first place is not before the last session, whichever
strategy found it.  So nothing of the last session follows a place before it.

`FoldInduction` has the induction the other proofs need: over natural numbers, with
the property given as a set, and over `FoldLeft`, with the step and the values
reached so far given as functions and sets.  They follow from the library's
definitions, without its theorems that take operators.

The first part of `HandlerObjectsProofs` is about the path operators, for every finite
tree whose root is its own parent (`TreeAssumption`): the ancestry search returns true parents
(`SearchSound`), `ParentResolution` the true parent and grandparent with every kind
of backend, the walk always stands at an object whose remembered ancestors are true
(`WalkSound`), the ring of the cached lookup is a path of the tree (`RingSound`), and
so what `resolve_amiga_path()` and the parent packets return is true
(`ResolutionSound`, `ParentSound`).  Each is an induction over the components of the
path, or over the turns of the search.

Its second part proves, for any number of locks, handles, entries and volumes,
`TypeOK`, `AncestryTrue` (`AncestryCorrect`), `RefsExact` (`RefsCorrect`) and
`LockListExact` (`LockListCorrect`).  The invariant describes a lock list by a
sequence that enumerates it, so that linking and unlinking are insertions and
removals in a sequence; a count is the number of references of a set, in which the
reference that an operation holds while it may still fail is counted too; ancestors
come from the theorems about paths.

Its third part proves `AnswersTrue` (`AnswersCorrect`): what a path, a link or a comparison
of two locks is answered with is what the tree says, whatever ids scans hand out, except
that two locks on one object under two ids are told to be different (`same_lock` shows
that this happens).  The hypothesis is `PlainUse`: no
name twice in a directory and no record twice in its listing, only files in the CDDA
directory, directories that hang together from the root, and a "/" between two names of a
path.  TLC evaluates it as an assumption of `MCHandlerObjects`.  The argument has three steps.  The search for a parent is
complete (`SearchComplete`): each turn enters a directory or leaves one, none is entered
twice, and what has been passed of an entered directory has itself been entered; so two turns
for each place exhaust the tree, and a directory that is not entered would have
to hang from itself.  With it a climb always succeeds, and the walk and the cached lookup
stand, after every component, where the reference `Denotes` does (`WalkExact`,
`RingExact`; the ring has to remember enough ancestors, or the lookup declines and the walk
takes over).  So the three ways to resolve a path agree (`ResolutionExact`), and no packet
notes a wrong answer.

`BlockCacheProofs` proves `LinksConsistent` (`LinksCorrect`) for any number of entries
and buckets and the action property `SpoilsOnlyVictim` (`ContentsCorrect`), both whether
or not a failing read writes into its buffer; and, if it does not (the finding
`block_cache_partial` in section 6), `PointerStable` (`PointerCorrect`) and the refinement
of `LruCache` (`Refinement`).  `Inv` says that the LRU list, its reverse, the free list and each hash
chain are enumerated by sequences without repetition whose elements are the
entries they should be; each helper of the source has a lemma saying what it does to
these sequences, and a clustered install is an induction over its sectors.  The
refinement maps the state to the sectors in the order of the LRU sequence; each
action is then a hit, a miss, an install of a run, a flush or a stutter of `LruCache`.

Its last part is about `ReadBytes`, which it extends too (that is why the names every
specification has carry a prefix there): `ReadTypeOK` (`ReadTypeCorrect`), `BytesExact`
(`BytesCorrect`) and `ResultExact` (`ResultCorrect`) for every sector size, offset,
length, width of sector numbers and smallest run, wherever a read fails.  `ReadInv`
adds where the loops stand: the next sector begins with the next byte, as long as one
is wanted; once all are delivered the sector number may have wrapped, and nothing more
is read.

`DirScanProofs` proves, for any directories, budget, number of clients and locks and
whichever sectors fail, `TypeOK` (`TypeCorrect`), `WithinBudget` (`CacheWithinBudget`)
and the action property `SecondChance` (`UsedDirectoriesStay`).  `TypeInv` contains
`CacheOK`: the directories of the LRU list are different, the total is the sum of their
sizes and within the budget, the flags are on directories of the list.  A trim is a fold
over its rounds.  Its invariant (`TrimAt`) splits the list: the directories not looked at
yet stand at the tail in their old order; those before them were looked at, were flagged
and are back at the head without the flag.  So no flagged directory is gone while one is
left that was not looked at, and every round either ends the trim or takes one from the
two looks each directory gets, after which the list is empty.

`ExactListing` (`ListingsExact`) is proved under `KeysTell`: no sector is bad; the keys
of a directory, its entries and the CDDA directory differ; and the keys of two entries
differ too, but for an ExNext scan that is the only one on its lock.  Files without data
share a key, and that exception is what the lock's cursor is for.  With bad sectors, or
with equal keys in an ExAll scan, the code does repeat or lose entries (`scan_error_cookie`,
`scan_error_cdda`, `scan_shared_keys` in section 6).  `ListingInv` says that each scan has
been given the first entries of the listing, in order, and holds the key of the last one
(`NextAt`, `AllAt`); and that the cursor of a lock, when it is set, stands behind the
first k entries for some k, and every scan whose key it has stands there too
(`CursorAt`).  A cursor that matches therefore leads on, whichever scan set it and
whether its position is the cache's index or the backend's; with one that does not, the
handler looks for the key from the beginning, and the keys tell.  TLC checked
`ListingInv` on the instance of `scan_listing` first.

`FileReadProofs` proves, for any files, sector size, window, cache and drive, and for
every place at which a transfer fails or comes short, `RequestOwned` (`RequestCorrect`),
`ReadExact` (`ReadCorrect`) and `CacheHoldsDisc` (`CacheCorrect`).  The last two assume
`SectorsOrRead64`: a drive whose blocks are larger than a sector has a 64-bit command.
Without one the code does read other sectors (`file_read_blocks` in section 6);
`action_findinput()` does not refuse such a file, and neither does `Open`.  `Inv` says
that the handle stands inside its file, that the window of the read-ahead and every
sector of the cache hold what the mounted disc has there, and that a request is with
the device just while the read-ahead is busy.  A transfer in chunks, a copy sector by sector and a
run of blocks that is cut to bytes all come down to one fact (`PiecesTile`): the pieces
lie side by side and cover what was asked for.

Only model-checked: liveness and everything under fairness, which is out of the
prover's reach; and the backends, whose operators reach recursive definitions.  The type invariants and
`OnlyCurrentActive` are proved and no longer checked by a run of their own.

## 5. Not modelled

- start-up before the first mount (argument parsing, device open), AROS variants,
  resident tags and library glue: linear code without interleavings;
- SCSI command encoding, drive identification, formatting (the texts of CDDB.txt and
  CD-TEXT.txt, the fields of audio headers), logging, character sets and time stamps:
  hardware I/O and pure conversions;
- the search for UDF's anchor, descriptor sequence and partition maps, and the
  volume headers of HFS and HFS+: what their outcome decides is in `MountSelect`;
- Rock Ridge time stamps and Amiga attributes, which only decorate an entry;
- the translation of OS4 vectors into the handler's calls (`vector_port.c`): one
  wrapper per call, around the entry and exit that `VectorGuard` models;
- host tools and their image files.

## 6. Departures

Places where the code does not do what its comments, docs or tests say, or where a
property of section 3 needs an assumption.  The first three are runs; `PROJECT.json`
("findings") quotes the statements they contradict.  The others are configurations
kept beside the runs (`tlc -config <name>.cfg <module>`), each of which TLC answers
with a violation of its one property.

| Configuration | Where | What |
|---|---|---|
| `same_lock` (run) | `handler_main.c:1898` | SameLock compares ids that each scan hands out anew; two locks on one object are told to be different ("Use stable on-disc identity rather than transient ODFS node ids", line 1914) |
| `block_cache_partial` (run) | `core/cache_block.c:469` | a failing single-sector read may leave foreign bytes in a valid entry without moving the generation (`include/odfs/cache.h:54`) |
| `mount_scan_wraps` (run) | `core/session.c:158` | a descriptor size that wraps makes the session scan endless ("no infinite loop", `docs/testing.md:34`) |
| `locks_reinterrupt` | `handler_main.c:6288` | a change while inhibited is not recorded; a later stray interrupt remounts the same disc and invalidates every lock (comment at 6284) |
| `vector_startup` | `handler_main.c:6715` | the first mount does not hold `fs_sem` although vectors are open (comment at 18) |
| `vector_retry_port` | `handler_main.c:5540` | an uninhibit by vector makes the retry port in the caller's task ("task that owns handler ports", `handler.h:71`) |
| `cdda_context` | `handler_main.c:6037` | a mount that fails after audio was registered leaves `has_cdda` ("audio tracks detected") set with a freed context |
| `shutdown_list` | `handler_main.c:6825` | shutdown with a locked DOS list leaves the volume node listed ("Tear down DOS-visible state before replying") |
| `scan_error_cookie` | `core/cache_meta.c:643` | an error while skipping sets the cookie back; entries are repeated (comment at 11) |
| `scan_error_cdda` | `handler_main.c:4547` | an error in ExNext is taken for the end ("data entries exhausted") |
| `scan_shared_keys` | `handler_main.c:4737` | ExAll repeats entries that share a key |
| `mount_broken_joliet` | `core/mount.c:190` | with a broken Joliet tree UDF or HFS wins over ISO ("ISO-family wins unless overridden", line 35) |
| `file_read_blocks` | `handler_main.c:495` | `amiga_read_hi()` takes to READ(10) without the comparison `probe_scsi_reads()` makes (line 623): beyond the limit, a drive of larger blocks and without 64-bit commands answers with other sectors ("a 64-bit-capable path is mandatory here", line 450) |
| `iso_relative` | `backends/iso9660/iso9660.c:329` | the root's sector is made absolute first and then taken for proof that all extents are: a session with relative extents is read in the wrong place (comments at 317-327) |
| `iso_moved` | `backends/iso9660/iso9660.c:997` | the parent of a directory that Rock Ridge moved is the directory it was moved to |
| `rr_split_name` | `backends/rock_ridge/rock_ridge.c:152` | a name that begins in the record and ends in a continuation area loses its beginning (`RR_NM_CONTINUE`, "name continues in next NM entry", `rock_ridge.h:34`) |

Further departures that the modules follow, as the code has them, without a
configuration of their own:

- a node that somebody else linked is freed while it is linked if the disc goes
  before the next retry (`handler_main.c:5658`, comment at 5504): `volumes_swap` with
  `ForeignLink = TRUE` violates `DosListNodesLive`;
- HFS+ wins over the ISO family (`core/mount.c:152`, line 35 and
  `docs/architecture.md:63`): `mount_broken_joliet` with `Table <- FiveBackends` and
  `Discs <- HybridPlusDiscs` violates `IsoFamilyWins`;
- an HFS+ volume that is found but cannot be mounted ends the place with its error
  (`core/mount.c:151-152`, 217-227), also if ISO or UDF could be mounted there: no rung
  is tried once HFS+ was found.  `NothingPassedOver` makes this exception, and the discs
  of `mount_choice` have such volumes;
- only the first extent of an HFS or HFS+ file is read (`backends/hfs/hfs.c`,
  `hfsplus.c`): the bytes behind it are those that follow it on the disc; `backends`
  with `Discs <- FragmentedDiscs` violates `ContentsExact`;
- `disable_rr` is never read (`core/mount.c:173`, `docs/architecture.md:76`), and
  `disable_joliet` is not honoured when the ISO tree cannot be mounted (line 183);
- a Rock Ridge continuation area that cannot be read is passed over
  (`rock_ridge.c:322`): the object appears under its ISO name without an error;
- an HFS leaf that is linked to itself lists its records again and again, up to the
  limit of the walk (`hfs.c:378`); one HFS+ record that is too short ends the listing
  of its directory;
- a UDF entry whose file entry cannot be read is missing from a listing that ends
  without an error (`udf.c:900`), and so is an empty file without allocation
  descriptors (line 436).  `ListingExact` therefore asks for a complete listing only
  where every block could be read, and the discs have no such file;
- the cookie that CDDA leaves is the entry just delivered (`cdda.c:1168`; "byte offset
  of the next unvisited entry", `include/odfs/backend.h:60`); the handler lists audio
  directories by key instead.  With `"cdda"` in `Resumed`, TLC finds the repetition.

## 7. Plan

Done: volumes, block cache, byte ranges, directory cache and listings, mount
selection, vector guard, objects and paths, file reads, the backends with name
fixing; proofs for volumes, vector guard, byte ranges, mount selection, paths,
objects, the block cache, directory listings with their cache and file reads.  What is left, in this order:

1. Proofs: lemmas about `Apply` of `NameFix` (the name it returns is free).
2. The OS4 directory scan vector on top of `VectorGuard` and `DirScan`; packets
   queued behind an accepted ACTION_DIE.
3. UDF's anchor and partition maps; Amiga attributes in pieces (`rr_parse_as`).
4. The track arithmetic of the host's cue sheets.
