----------------------------- MODULE MountSelect -----------------------------
(***************************************************************************)
(* odfs_mount() and odfs_unmount() (core/mount.c) with the search for the  *)
(* last session (core/session.c): which place on the disc is tried, which  *)
(* of the formats found there is mounted, and what becomes of the backend  *)
(* contexts that the attempts open on the way.                             *)
(*                                                                         *)
(* A disc is given by its TOC, by the answer to the last-session query, by *)
(* the volume descriptors a scan would find and, for every place, by what  *)
(* each backend makes of it.  The handler's part is the CDDA backend it    *)
(* registers beside the filesystem or mounts instead of a missing one.     *)
(*                                                                         *)
(* An operator that is used nowhere and stands right before another one is *)
(* a faulty variant of it (README.md, "Faulty variants").                  *)
(***************************************************************************)
EXTENDS Integers, FiniteSets, SequencesExt

CONSTANTS
  Table,      \* backend_table: the backends built in, in their order
  Discs,      \* the discs to mount
  OptSets,    \* the mount options to mount them with
  MaxStarts,  \* size of session_candidates
  VdOffset,   \* ISO_VD_START_OFFSET
  MaxLba,     \* UINT32_MAX
  Null        \* no backend, no context, no answer

AllBackends == {"iso9660", "joliet", "udf", "hfs", "hfsplus"}
Types == AllBackends \cup {"rock_ridge", "cdda"}

\* What a backend makes of a place: nothing, or its probe succeeds and its mount
\* fails, fails at times, or succeeds, as Rock Ridge if the ISO tree has it.
Qualities == {"absent", "bad", "flaky", "good", "rr"}

\* What may fail while a disc is mounted.
Services == {"cache", "query", "toc", "read"}

Options == [backend : AllBackends \cup {Null}, session : -1..MaxStarts,
            noRR : BOOLEAN, noJoliet : BOOLEAN, udf : BOOLEAN, hfs : BOOLEAN]

ASSUME MountAssumption ==
  /\ Table \in Seq(AllBackends) /\ Null \notin Types
  /\ OptSets \subseteq Options
  /\ MaxStarts \in Nat \ {0} /\ MaxLba \in Nat \ {0} /\ VdOffset \in 1..MaxLba
  /\ \A d \in Discs :
       /\ d.toc \in Seq([start : 0..MaxLba, data : BOOLEAN])
       /\ d.last \in (0..MaxLba) \cup {Null} /\ d.total \in 0..MaxLba
       /\ DOMAIN d.pvd \subseteq 0..MaxLba /\ \A s \in DOMAIN d.pvd : d.pvd[s] \in 0..MaxLba
       /\ \A s \in DOMAIN d.fs : d.fs[s] \in [AllBackends -> Qualities]
       /\ d.fails \subseteq Services

VARIABLES
  disc, opts,   \* what is mounted, and mnt->opts
  pc,           \* where the call is
  scan,         \* the sector the descriptor scan looks at
  start,        \* session_start, and the place that is being tried
  starts,       \* session_candidates, less those tried
  cands,        \* the candidates of mount_try_session_start()
  chosen,       \* chosen, then mnt->backend_ops
  ctx,          \* mnt->backend_ctx, as the backend it belongs to
  root,         \* mnt->root.backend
  open,         \* number of contexts that each backend has open
  map           \* mnt->backend_map, with backend_ctx_map

given == <<disc, opts>>
search == <<scan, start, starts>>
backend == <<cands, chosen, ctx, root, open, map>>
vars == <<given, pc, search, backend>>

May(service) == IF service \in disc.fails THEN BOOLEAN ELSE {TRUE}

-----------------------------------------------------------------------------
(* Where to mount from.                                                    *)

\* The first data track at or behind the explicit answer; the answer itself if
\* there is none.
ExplicitStart(e, toc) ==
  LET in == {i \in DOMAIN toc : toc[i].data /\ toc[i].start >= e}
  IN  IF in = {} THEN e ELSE toc[Min(in)].start

\* The TOC heuristic: the last data track.
TocStart(toc) ==
  LET data == {i \in DOMAIN toc : toc[i].data}
  IN  IF data = {} THEN 0 ELSE toc[Max(data)].start

\* mount_build_session_candidates(): from the data tracks, last one first.
Skips(s, t) == ~t.data \/ t.start \in ToSet(s) \/ Len(s) >= MaxStarts
AddTrack(s, t) == IF Skips(s, t) THEN s ELSE Append(s, t.start)
WithFirst(preferred, all) == IF preferred # 0 /\ Len(all) < MaxStarts THEN Append(all, 0) ELSE all
CandidatesForward(preferred, toc) ==
  WithFirst(preferred, FoldLeft(AddTrack, <<preferred>>, toc))
Candidates(preferred, toc) ==
  WithFirst(preferred, FoldLeft(AddTrack, <<preferred>>, Reverse(toc)))

\* odfs_cache_init() comes first.
EnterMount ==
  /\ pc = "enter"
  /\ \E ok \in May("cache") : pc' = IF ok THEN "session" ELSE "failed"
  /\ UNCHANGED <<given, search, backend>>

\* The option names the session; without a TOC, or behind its end, it is 0.
ForcedSession ==
  /\ pc = "session" /\ opts.session >= 0
  /\ \E ok \in May("toc") :
       start' = IF ok /\ opts.session < Len(disc.toc)
                THEN disc.toc[opts.session + 1].start ELSE 0
  /\ pc' = "candidates"
  /\ UNCHANGED <<given, scan, starts, backend>>

\* odfs_find_last_session(), first strategy: the device knows.
QueryLastSession ==
  /\ pc = "session" /\ opts.session < 0
  /\ disc.last # Null /\ TRUE \in May("query")
  /\ \E ok \in May("toc") : start' = ExplicitStart(disc.last, IF ok THEN disc.toc ELSE <<>>)
  /\ pc' = "candidates"
  /\ UNCHANGED <<given, scan, starts, backend>>

\* Second strategy, or third if there is no TOC either.
LastSessionFromToc ==
  /\ pc = "session" /\ opts.session < 0
  /\ disc.last = Null \/ FALSE \in May("query")
  /\ \E ok \in May("toc") :
       IF ok /\ disc.toc # <<>>
       THEN start' = TocStart(disc.toc) /\ pc' = "candidates" /\ UNCHANGED scan
       ELSE start' = 0 /\ pc' = "scan" /\ scan' = VdOffset
  /\ UNCHANGED <<given, starts, backend>>

\* The sums of the scan are taken in 32 bits.
Plus(a, b) == (a + b) % (MaxLba + 1)

\* Third strategy: a volume descriptor tells where the next session may be.
ScanEnds(lba) ==
  \/ Plus(lba, VdOffset) >= disc.total
  \/ lba - VdOffset \notin DOMAIN disc.pvd
NextDescriptorFromZero(s) == Plus(disc.pvd[s], VdOffset)
NextDescriptor(s) == Plus(Plus(s, disc.pvd[s]), VdOffset)
ScanDescriptors ==
  /\ pc = "scan"
  /\ \E ok \in May("read") :
       IF ~ok \/ ScanEnds(scan)
       THEN pc' = "candidates" /\ UNCHANGED <<scan, start>>
       ELSE LET s == scan - VdOffset IN
            /\ start' = IF s > start \/ start = 0 THEN s ELSE start
            /\ IF disc.pvd[s] > 0 /\ NextDescriptor(s) < disc.total
               THEN scan' = NextDescriptor(s) /\ UNCHANGED pc
               ELSE pc' = "candidates" /\ UNCHANGED scan
  /\ UNCHANGED <<given, starts, backend>>

\* A forced session has no alternative.
BuildCandidates ==
  /\ pc = "candidates"
  /\ \E ok \in May("toc") :
       starts' = IF opts.session >= 0 THEN <<start>>
                 ELSE Candidates(start, IF ok THEN disc.toc ELSE <<>>)
  /\ pc' = "next"
  /\ UNCHANGED <<given, scan, start, backend>>

-----------------------------------------------------------------------------
(* mount_try_session_start()                                               *)

\* What the probe and mount functions of a backend make of the place.
Quality(be) == IF start \in DOMAIN disc.fs THEN disc.fs[start][be] ELSE "absent"
Outcomes(be) == IF Quality(be) = "flaky" THEN BOOLEAN ELSE {Quality(be) \in {"good", "rr"}}

\* The mount function of a backend has succeeded, or it has failed and left no
\* context behind.
Opens(be) ==
  /\ ctx' = be
  /\ open' = [open EXCEPT ![be] = @ + 1]
  /\ root' = IF Quality(be) = "rr" THEN "rock_ridge" ELSE be

\* The next place on the list, or there is none left and the caches go.
OthersLeft == Tail(starts)
TryNext ==
  /\ pc = "next"
  /\ IF starts = <<>>
     THEN pc' = "failed" /\ UNCHANGED <<start, starts>>
     ELSE pc' = "probe" /\ start' = Head(starts) /\ starts' = OthersLeft
  /\ UNCHANGED <<given, scan, backend>>

\* All backends are probed; one that is not of the four takes precedence.
Detected == {be \in ToSet(Table) : opts.backend \in {Null, be} /\ Quality(be) # "absent"}
Probe ==
  /\ pc = "probe"
  /\ cands' = Detected
  /\ ctx' = Null /\ root' = Null
  /\ IF "hfsplus" \in cands' THEN chosen' = "hfsplus" /\ pc' = "chosen"
                             ELSE chosen' = Null /\ pc' = "preferUdf"
  /\ UNCHANGED <<given, search, open, map>>

\* One rung of the ladder: mount a candidate that is wanted here.
Rung(here, be, wanted, next) ==
  /\ pc = here
  /\ IF be \in cands /\ wanted
     THEN \E ok \in Outcomes(be) :
            IF ok THEN Opens(be) /\ chosen' = be /\ pc' = "chosen"
                  ELSE pc' = next /\ UNCHANGED <<ctx, open, root, chosen>>
     ELSE pc' = next /\ UNCHANGED <<ctx, open, root, chosen>>
  /\ UNCHANGED <<given, search, cands, map>>

\* An ISO tree without Rock Ridge makes way for Joliet.
IsoAlwaysStays == TRUE
IsoStays == Quality("iso9660") = "rr" \/ opts.noJoliet \/ "joliet" \notin cands
IsoForgotten == ctx' = Null /\ open' = [open EXCEPT !["iso9660"] = @ + 1]
IsoClosed == ctx' = Null /\ UNCHANGED open
MountIso ==
  /\ pc = "iso"
  /\ \E ok \in IF "iso9660" \in cands THEN Outcomes("iso9660") ELSE {FALSE} :
       \/ ok /\ IsoStays /\ Opens("iso9660") /\ chosen' = "iso9660" /\ pc' = "chosen"
       \/ ok /\ ~IsoStays /\ IsoClosed /\ root' = "iso9660" /\ pc' = "joliet" /\ UNCHANGED chosen
       \/ ~ok /\ pc' = "joliet" /\ UNCHANGED <<ctx, open, root, chosen>>
  /\ UNCHANGED <<given, search, cands, map>>

LadderWithoutHfs ==
  \/ Rung("preferUdf", "udf", opts.udf, "preferHfs")
  \/ Rung("preferHfs", "hfs", opts.hfs, "iso")
  \/ MountIso
  \/ Rung("joliet", "joliet", TRUE, "udf")
  \/ Rung("udf", "udf", TRUE, "isoAgain")
  \/ Rung("isoAgain", "iso9660", ctx = Null, "nothing")
Ladder ==
  \/ Rung("preferUdf", "udf", opts.udf, "preferHfs")
  \/ Rung("preferHfs", "hfs", opts.hfs, "iso")
  \/ MountIso
  \/ Rung("joliet", "joliet", TRUE, "udf")
  \/ Rung("udf", "udf", TRUE, "hfs")
  \/ Rung("hfs", "hfs", TRUE, "isoAgain")
  \/ Rung("isoAgain", "iso9660", ctx = Null, "nothing")

\* Nothing could be mounted here.
NothingHere ==
  /\ pc = "nothing"
  /\ ctx' = Null /\ root' = Null
  /\ pc' = "next"
  /\ UNCHANGED <<given, search, cands, chosen, open, map>>

\* One chosen by its probe alone is mounted now; there is no other for it.
MountChosen ==
  /\ pc = "chosen" /\ ctx = Null
  /\ \E ok \in Outcomes(chosen) :
       IF ok THEN Opens(chosen) /\ UNCHANGED <<pc, chosen>>
             ELSE root' = Null /\ chosen' = Null /\ pc' = "next" /\ UNCHANGED <<ctx, open>>
  /\ UNCHANGED <<given, search, cands, map>>

-----------------------------------------------------------------------------
(* The backends of a mount, and its end.                                   *)

\* odfs_mount_register_backend() for what was mounted: under the type of its
\* nodes and under its own.
Registered == [t \in Types |-> IF t \in {root, chosen} THEN chosen ELSE map[t]]
Register ==
  /\ pc = "chosen" /\ ctx # Null
  /\ map' = Registered
  /\ pc' = "mounted"
  /\ UNCHANGED <<given, search, cands, chosen, ctx, root, open>>

\* The handler found audio tracks beside the filesystem ...
RegisterCdda ==
  /\ pc = "mounted" /\ disc.audio /\ map["cdda"] = Null
  /\ open' = [open EXCEPT !["cdda"] = @ + 1]
  /\ map' = [map EXCEPT !["cdda"] = "cdda"]
  /\ UNCHANGED <<given, pc, search, cands, chosen, ctx, root>>

\* ... or instead of one: finish_pure_audio_mount().
FinishPureAudioMount ==
  /\ pc = "failed" /\ disc.audio
  /\ chosen' = "cdda" /\ ctx' = "cdda" /\ root' = "cdda"
  /\ open' = [open EXCEPT !["cdda"] = @ + 1]
  /\ map' = [map EXCEPT !["cdda"] = "cdda"]
  /\ pc' = "mounted"
  /\ UNCHANGED <<given, search, cands>>

\* odfs_unmount(): a backend that is registered twice is unmounted once, and the
\* primary one also if it is not registered at all.
Unmounted(be) == IF be = ctx \/ (\E t \in Types : map[t] = be) THEN 1 ELSE 0
Unmount ==
  /\ pc = "mounted"
  /\ open' = [be \in DOMAIN open |-> open[be] - Unmounted(be)]
  /\ map' = [t \in Types |-> Null]
  /\ chosen' = Null /\ ctx' = Null /\ root' = Null
  /\ pc' = "unmounted"
  /\ UNCHANGED <<given, search, cands>>

-----------------------------------------------------------------------------
Init ==
  /\ disc \in Discs /\ opts \in OptSets
  /\ pc = "enter" /\ scan = 0 /\ start = 0 /\ starts = <<>>
  /\ cands = {} /\ chosen = Null /\ ctx = Null /\ root = Null
  /\ open = [be \in AllBackends \cup {"cdda"} |-> 0]
  /\ map = [t \in Types |-> Null]

FindSession ==
  \/ ForcedSession \/ QueryLastSession \/ LastSessionFromToc \/ ScanDescriptors
  \/ BuildCandidates

Mount == \/ EnterMount \/ FindSession \/ TryNext \/ Probe \/ Ladder
         \/ NothingHere \/ MountChosen \/ Register

Next == Mount \/ RegisterCdda \/ FinishPureAudioMount \/ Unmount

\* odfs_mount() runs on until it returns.
Spec == Init /\ [][Next]_vars /\ WF_vars(Mount)

-----------------------------------------------------------------------------
(* Properties.                                                             *)

PcStates == {"enter", "session", "scan", "candidates", "next", "probe", "preferUdf",
             "preferHfs", "iso", "joliet", "udf", "hfs", "isoAgain", "nothing",
             "chosen", "mounted", "failed", "unmounted"}

\* Every variable stays in its range.
TypeOK ==
  /\ disc \in Discs /\ opts \in OptSets /\ pc \in PcStates
  /\ scan \in 0..MaxLba /\ start \in 0..MaxLba
  /\ starts \in Seq(0..MaxLba) /\ Len(starts) <= MaxStarts
  /\ cands \subseteq AllBackends /\ {chosen, ctx, root} \subseteq Types \cup {Null}
  /\ open \in [AllBackends \cup {"cdda"} -> Nat] /\ map \in [Types -> Types \cup {Null}]

\* Whatever attempts succeed, fail or are taken back on the way, the contexts
\* that are open are the ones the mount refers to, each open once: none is left
\* behind, and odfs_unmount() frees each exactly once (mount_try_session_start,
\* odfs_unmount).
ContextsExact ==
  \A be \in DOMAIN open :
    open[be] = IF be = ctx \/ be \in {map[t] : t \in Types} THEN 1 ELSE 0

\* The views of a place in the order the documentation gives them: "prefers Rock
\* Ridge, then Joliet, then plain ISO 9660.  On bridge or hybrid discs it prefers
\* the ISO-family view over UDF or HFS" (README.md), and what the options change.
Preferences ==
  <<IF opts.udf THEN "udf" ELSE Null, IF opts.hfs THEN "hfs" ELSE Null, "rock_ridge",
    IF opts.noJoliet THEN Null ELSE "joliet", "iso9660", "udf", "hfs", "hfsplus">>
BackendOf(v) == IF v = "rock_ridge" THEN "iso9660" ELSE v
HasView(s, v) ==
  /\ BackendOf(v) \in ToSet(Table) /\ opts.backend \in {Null, BackendOf(v)}
  /\ s \in DOMAIN disc.fs
  /\ disc.fs[s][BackendOf(v)] = IF v = "rock_ridge" THEN "rr" ELSE "good"

\* v is the first of the preferences that is there, and none of them is there.
FirstView(s, v) ==
  \E i \in DOMAIN Preferences :
    /\ v = Preferences[i] /\ HasView(s, v)
    /\ \A j \in 1..(i - 1) : ~HasView(s, Preferences[j])
NoView(s) == \A i \in DOMAIN Preferences : ~HasView(s, Preferences[i])

\* What is mounted is the documented choice for its place, unless a view there
\* can be mounted at one time and not at another.
Steady(s) == s \in DOMAIN disc.fs => \A be \in AllBackends : disc.fs[s][be] # "flaky"
DocumentedChoice ==
  pc = "mounted" /\ root # "cdda" /\ Steady(start) => FirstView(start, root)

\* No place of such views is given up while there is one to mount: a failed
\* attempt falls back on the next best.  HFS+ is the exception: once its probe
\* says yes nothing else is tried, and if its mount fails the place is given up
\* with whatever other views it has (mount_try_session_start, mount.c:151-152 and
\* 217-227).
PlusInTheWay(s) ==
  /\ "hfsplus" \in ToSet(Table) /\ opts.backend \in {Null, "hfsplus"}
  /\ s \in DOMAIN disc.fs /\ disc.fs[s]["hfsplus"] = "bad"
NothingPassedOver ==
  [][pc' = "next" /\ pc # "candidates" /\ Steady(start)
       => NoView(start) \/ PlusInTheWay(start)]_vars

\* The last session is where the device says it begins or, if it does not say,
\* at the last data track.  Unless one of the two cannot be asked, every data
\* track is tried, the ones of the last session before all others
\* (odfs_find_last_session with mount_build_session_candidates).
LastSession == IF disc.last # Null THEN disc.last ELSE TocStart(disc.toc)
LastSessionFirst ==
  [][pc = "candidates" /\ opts.session < 0 /\ disc.fails \cap {"query", "toc"} = {} =>
       /\ {t.start : t \in {u \in ToSet(disc.toc) : u.data}} \cup {0} \subseteq ToSet(starts')
       /\ \A i, j \in DOMAIN starts' :
            i < j /\ starts'[i] < LastSession => starts'[j] < LastSession]_vars

\* The volume size in the descriptor at hand takes the scan over the end of the
\* number range, and so back (session.c:158).
Wraps ==
  /\ pc = "scan" /\ scan - VdOffset \in DOMAIN disc.pvd
  /\ scan + disc.pvd[scan - VdOffset] > MaxLba

\* odfs_mount() comes to an end: whatever the descriptors of an image say, the
\* scan goes round for ever only if it wraps again and again, and whatever the
\* attempts at the places meet, the list of places and the ladder run out
\* (odfs_find_last_session, mount_try_session_start).
MountEndsOrWraps == <>(pc \in {"mounted", "failed"}) \/ []<>Wraps

\* odfs_mount() comes to an end without exception, as docs/testing.md:34 wants it
\* of "Intentionally broken images to ensure: no crash, no infinite loop,
\* graceful error paths, bounded resource usage."  Not so where the scan wraps.
MountEnds == <>(pc \in {"mounted", "failed"})

\* "For hybrid discs, ISO-family wins unless overridden" (backend_table): another
\* view is mounted by default only where there is none of the ISO family.
IsoFamilyWins ==
  pc = "mounted" /\ root \in {"udf", "hfs", "hfsplus"} /\ opts.backend = Null
    /\ ~opts.udf /\ ~opts.hfs
    => \A v \in {"rock_ridge", "joliet", "iso9660"} : ~HasView(start, v)
=============================================================================
