-------------------------- MODULE MountSelectProofs --------------------------
(***************************************************************************)
(* Proofs about mounting and unmounting a disc, for every set of backends, *)
(* discs and options.                                                      *)
(*                                                                         *)
(* Contexts: every context that an attempt opens is the mount's context or *)
(* closed again, so odfs_unmount() frees each open one exactly once.  The  *)
(* invariant behind it says where in the call a context may be held.       *)
(* Views: what each rung of the ladder has ruled out.  Sessions: which     *)
(* places are tried, and in which order.                                   *)
(***************************************************************************)
EXTENDS MountSelect, SequenceTheorems, TLAPS

-----------------------------------------------------------------------------
(* Contexts.                                                               *)

\* The part of TypeOK that is about backends.
BackendTypes ==
  /\ cands \subseteq AllBackends
  /\ chosen \in Types \cup {Null} /\ ctx \in Types \cup {Null} /\ root \in Types \cup {Null}
  /\ open \in [AllBackends \cup {"cdda"} -> Nat] /\ map \in [Types -> Types \cup {Null}]

\* A context is held only by the backend that is chosen, and only a mounted disc
\* has registered backends: the chosen one and the CDDA backend, the latter always
\* under its own type.
Held ==
  /\ pc # "mounted" => \A t \in Types : map[t] = Null
  /\ pc \notin {"chosen", "mounted"} => ctx = Null
  /\ pc = "chosen" => chosen \in AllBackends /\ ctx \in {Null, chosen}
  /\ pc = "mounted" =>
       /\ ctx = chosen /\ chosen \in AllBackends \cup {"cdda"}
       /\ \A t \in Types : map[t] \in {Null, chosen, "cdda"}
       /\ (ctx = "cdda" \/ \E t \in Types : map[t] = "cdda") => map["cdda"] = "cdda"

ContextInv == BackendTypes /\ Held /\ ContextsExact

\* The backends probed are built in.
LEMMA DetectedType == Detected \subseteq AllBackends
BY MountAssumption DEF Detected, ToSet

\* Steps that touch no backend keep the contexts, if they leave the stage alone
\* where a context is held.
LEMMA ContextsKept ==
  ASSUME ContextInv, UNCHANGED <<chosen, ctx, root, open, map>>, cands' \subseteq AllBackends,
         pc' = pc \/ {pc, pc'} \cap {"chosen", "mounted"} = {}
  PROVE  ContextInv'
<1> USE DEF ContextInv
<1>1. BackendTypes'
  BY DEF BackendTypes
<1>2. ContextsExact'
  BY DEF ContextsExact
<1>3. CASE pc' = pc
  BY <1>1, <1>2, <1>3 DEF Held
<1>4. CASE {pc, pc'} \cap {"chosen", "mounted"} = {}
  <2>1. pc # "mounted" /\ pc' # "mounted" /\ pc # "chosen" /\ pc' # "chosen"
    BY <1>4
  <2> QED
    BY <1>1, <1>2, <2>1 DEF Held
<1> QED
  BY <1>3, <1>4

\* A backend that mounts while no context is held becomes the holder.
LEMMA OpensSafe ==
  ASSUME ContextInv, NEW be \in AllBackends, Opens(be), ctx = Null, pc # "mounted",
         chosen' = be, pc' = "chosen", UNCHANGED <<cands, map>>
  PROVE  ContextInv'
<1> USE MountAssumption DEF ContextInv
<1>1. be \in Types /\ be # Null /\ "rock_ridge" \in Types /\ be # "cdda"
  BY DEF Types, AllBackends
<1>2. BackendTypes'
  BY <1>1 DEF BackendTypes, Opens
<1>3. \A t \in Types : map'[t] = Null
  BY DEF Held
<1>4. Held'
  BY <1>3 DEF Held, Opens
<1>5. DOMAIN open = AllBackends \cup {"cdda"} /\ DOMAIN open' = AllBackends \cup {"cdda"}
  BY <1>2 DEF BackendTypes
<1>6. \A b \in DOMAIN open : b # Null /\ b \in Types
  BY <1>5 DEF Types
<1>7. \A b \in DOMAIN open : open[b] = 0
  BY <1>3, <1>6 DEF ContextsExact
<1>8. ContextsExact'
  BY <1>1, <1>3, <1>5, <1>6, <1>7 DEF ContextsExact, Opens
<1> QED
  BY <1>2, <1>4, <1>8

\* A rung of the ladder mounts its backend or leaves everything to the next.
LEMMA RungSafe ==
  ASSUME ContextInv, NEW here, NEW be \in AllBackends, NEW wanted, NEW next,
         Rung(here, be, wanted, next),
         {here, next} \cap {"chosen", "mounted"} = {}
  PROVE  ContextInv'
<1>1. ctx = Null /\ pc = here
  BY DEF Rung, ContextInv, Held
<1>2. UNCHANGED <<cands, map>> /\ cands' \subseteq AllBackends
  BY DEF Rung, ContextInv, BackendTypes
<1>3. CASE Opens(be) /\ chosen' = be /\ pc' = "chosen"
  BY <1>1, <1>2, <1>3, OpensSafe
<1>4. CASE pc' = next /\ UNCHANGED <<ctx, open, root, chosen>>
  BY <1>1, <1>2, <1>4, ContextsKept
<1> QED
  BY <1>3, <1>4 DEF Rung

\* An ISO tree that makes way for Joliet leaves no context behind.
LEMMA MountIsoSafe == ContextInv /\ MountIso => ContextInv'
<1> SUFFICES ASSUME ContextInv, MountIso PROVE ContextInv'
  OBVIOUS
<1>1. pc = "iso" /\ ctx = Null
  BY DEF MountIso, ContextInv, Held
<1>2. UNCHANGED <<cands, map>> /\ "iso9660" \in AllBackends /\ "iso9660" \in Types
  BY DEF MountIso, AllBackends, Types
<1>3. CASE Opens("iso9660") /\ chosen' = "iso9660" /\ pc' = "chosen"
  BY <1>1, <1>2, <1>3, OpensSafe
<1>4. CASE IsoClosed /\ root' = "iso9660" /\ pc' = "joliet" /\ UNCHANGED chosen
  BY <1>1, <1>2, <1>4 DEF IsoClosed, ContextInv, BackendTypes, Held, ContextsExact
<1>5. CASE pc' = "joliet" /\ UNCHANGED <<ctx, open, root, chosen>>
  BY <1>1, <1>2, <1>5, ContextsKept DEF ContextInv, BackendTypes
<1> QED
  BY <1>3, <1>4, <1>5 DEF MountIso

\* The whole ladder.
LEMMA LadderSafe == ContextInv /\ Ladder => ContextInv'
<1> SUFFICES ASSUME ContextInv, Ladder PROVE ContextInv'
  OBVIOUS
<1>1. {"udf", "hfs", "joliet", "iso9660"} \subseteq AllBackends
  BY DEF AllBackends
<1>2. CASE Rung("preferUdf", "udf", opts.udf, "preferHfs")
  BY <1>1, <1>2, RungSafe
<1>3. CASE Rung("preferHfs", "hfs", opts.hfs, "iso")
  BY <1>1, <1>3, RungSafe
<1>4. CASE Rung("joliet", "joliet", TRUE, "udf")
  BY <1>1, <1>4, RungSafe
<1>5. CASE Rung("udf", "udf", TRUE, "hfs")
  BY <1>1, <1>5, RungSafe
<1>6. CASE Rung("hfs", "hfs", TRUE, "isoAgain")
  BY <1>1, <1>6, RungSafe
<1>7. CASE Rung("isoAgain", "iso9660", ctx = Null, "nothing")
  BY <1>1, <1>7, RungSafe
<1> QED
  BY <1>2, <1>3, <1>4, <1>5, <1>6, <1>7, MountIsoSafe DEF Ladder

\* A probe, a place without a mount and a failing mount hold nothing.
LEMMA AttemptSafe == ContextInv /\ (Probe \/ NothingHere \/ MountChosen) => ContextInv'
<1> SUFFICES ASSUME ContextInv, Probe \/ NothingHere \/ MountChosen PROVE ContextInv'
  OBVIOUS
<1> USE DEF ContextInv
<1>1. CASE Probe
  <2>1. pc = "probe" /\ ctx = Null /\ ctx' = Null /\ root' = Null /\ UNCHANGED <<open, map>>
        /\ cands' \subseteq AllBackends
    BY <1>1, DetectedType DEF Probe, Held
  <2>2. \/ chosen' = "hfsplus" /\ pc' = "chosen"
        \/ chosen' = Null /\ pc' = "preferUdf"
    BY <1>1 DEF Probe
  <2>3. "hfsplus" \in AllBackends /\ "hfsplus" \in Types
    BY DEF AllBackends, Types
  <2> QED
    BY <2>1, <2>2, <2>3 DEF BackendTypes, Held, ContextsExact
<1>2. CASE NothingHere
  BY <1>2 DEF NothingHere, BackendTypes, Held, ContextsExact
<1>3. CASE MountChosen
  <2>1. pc = "chosen" /\ ctx = Null /\ chosen \in AllBackends /\ UNCHANGED <<cands, map>>
    BY <1>3 DEF MountChosen, Held
  <2>2. CASE Opens(chosen) /\ UNCHANGED <<pc, chosen>>
    BY <2>1, <2>2, OpensSafe
  <2>3. CASE root' = Null /\ chosen' = Null /\ pc' = "next" /\ UNCHANGED <<ctx, open>>
    BY <2>1, <2>3 DEF BackendTypes, Held, ContextsExact
  <2> QED
    BY <1>3, <2>2, <2>3 DEF MountChosen
<1> QED
  BY <1>1, <1>2, <1>3

\* Registering a backend adds a reference to an open context.
LEMMA RegisterSafe == ContextInv /\ Register => ContextInv'
<1> SUFFICES ASSUME ContextInv, Register PROVE ContextInv'
  OBVIOUS
<1> USE DEF ContextInv
<1>1. /\ pc = "chosen" /\ pc' = "mounted" /\ ctx = chosen /\ chosen \in AllBackends
      /\ UNCHANGED <<cands, chosen, ctx, root, open>> /\ map' = Registered
  BY DEF Register, Held
<1>2. chosen \in Types /\ chosen # "cdda"
  BY <1>1 DEF Types, AllBackends
<1>3. \A t \in Types : map'[t] \in {Null, chosen}
  BY <1>1 DEF Registered, Held
<1>4. map' \in [Types -> Types \cup {Null}]
  BY <1>1, <1>2 DEF Registered, BackendTypes
<1>5. BackendTypes' /\ DOMAIN open' = AllBackends \cup {"cdda"}
  BY <1>1, <1>4 DEF BackendTypes
<1>6. Null # "cdda"
  BY MountAssumption DEF Types
<1>7. Held'
  BY <1>1, <1>2, <1>3, <1>6 DEF Held
<1>8. \A b \in DOMAIN open : b # Null
  BY MountAssumption DEF BackendTypes, Types
<1>9. ContextsExact'
  <2> SUFFICES ASSUME NEW b \in DOMAIN open
               PROVE  open[b] = IF b = ctx \/ b \in {map'[t] : t \in Types} THEN 1 ELSE 0
    BY <1>1 DEF ContextsExact
  <2>1. b \notin {map[t] : t \in Types}
    BY <1>1, <1>8 DEF Held
  <2>2. b \in {map'[t] : t \in Types} => b = ctx
    BY <1>1, <1>3, <1>8
  <2> QED
    BY <2>1, <2>2 DEF ContextsExact
<1> QED
  BY <1>5, <1>7, <1>9

\* The CDDA backend is opened once, beside a filesystem or instead of one.
LEMMA CddaSafe == ContextInv /\ (RegisterCdda \/ FinishPureAudioMount) => ContextInv'
<1> SUFFICES ASSUME ContextInv, RegisterCdda \/ FinishPureAudioMount PROVE ContextInv'
  OBVIOUS
<1> USE DEF ContextInv
<1>1. "cdda" \in Types /\ "cdda" # Null /\ "cdda" \notin AllBackends
  BY MountAssumption DEF Types, AllBackends
<1>2. \A b \in DOMAIN open : b # Null /\ b \in Types
  BY MountAssumption DEF BackendTypes, Types
<1>3. /\ open' = [open EXCEPT !["cdda"] = @ + 1]
      /\ map' = [map EXCEPT !["cdda"] = "cdda"] /\ cands' = cands
  BY DEF RegisterCdda, FinishPureAudioMount
<1>4. open' \in [AllBackends \cup {"cdda"} -> Nat] /\ map' \in [Types -> Types \cup {Null}]
  BY <1>1, <1>3 DEF BackendTypes
<1>5. \A t \in Types : map'[t] = IF t = "cdda" THEN "cdda" ELSE map[t]
  BY <1>3 DEF BackendTypes
<1>6. map["cdda"] = Null
  BY <1>1 DEF RegisterCdda, FinishPureAudioMount, Held
<1>7. ctx # "cdda" /\ "cdda" \notin {map[t] : t \in Types}
  BY <1>1, <1>6 DEF RegisterCdda, FinishPureAudioMount, Held
<1>8. open["cdda"] = 0 /\ DOMAIN open = AllBackends \cup {"cdda"} /\ DOMAIN open' = DOMAIN open
  BY <1>3, <1>4, <1>7 DEF ContextsExact, BackendTypes
<1>9. \A b \in AllBackends : b \in {map'[t] : t \in Types} <=> b \in {map[t] : t \in Types}
  BY <1>1, <1>2, <1>5, <1>6, <1>8
<1>10. open'["cdda"] = 1 /\ "cdda" \in {map'[t] : t \in Types}
  BY <1>1, <1>3, <1>5, <1>8
<1>11. \A b \in AllBackends : open'[b] = open[b]
  BY <1>1, <1>3, <1>8
<1>12. CASE RegisterCdda
  <2>1. pc = "mounted" /\ UNCHANGED <<pc, chosen, ctx, root>>
    BY <1>12 DEF RegisterCdda
  <2>2. Held'
    BY <2>1, <1>1, <1>5 DEF Held
  <2>3. ContextsExact'
    BY <2>1, <1>8, <1>9, <1>10, <1>11 DEF ContextsExact
  <2> QED
    BY <2>1, <2>2, <2>3, <1>3, <1>4 DEF BackendTypes
<1>13. CASE FinishPureAudioMount
  <2>1. pc = "failed" /\ pc' = "mounted" /\ chosen' = "cdda" /\ ctx' = "cdda" /\ root' = "cdda"
        /\ ctx = Null
    BY <1>13 DEF FinishPureAudioMount, Held
  <2>2. Held'
    BY <2>1, <1>1, <1>5 DEF Held
  <2>3. ContextsExact'
    BY <2>1, <1>1, <1>2, <1>8, <1>9, <1>10, <1>11 DEF ContextsExact
  <2> QED
    BY <2>1, <2>2, <2>3, <1>1, <1>3, <1>4 DEF BackendTypes
<1> QED
  BY <1>12, <1>13

\* odfs_unmount() frees every open context, and each once.
LEMMA UnmountSafe == ContextInv /\ Unmount => ContextInv'
<1> SUFFICES ASSUME ContextInv, Unmount PROVE ContextInv'
  OBVIOUS
<1> USE DEF ContextInv
<1>1. /\ pc' = "unmounted" /\ chosen' = Null /\ ctx' = Null /\ root' = Null /\ cands' = cands
      /\ map' = [t \in Types |-> Null]
      /\ open' = [be \in DOMAIN open |-> open[be] - Unmounted(be)]
  BY DEF Unmount
<1>2. \A b \in DOMAIN open : open[b] = Unmounted(b)
  BY DEF ContextsExact, Unmounted
<1>3. \A b \in DOMAIN open : Unmounted(b) \in Nat
  BY DEF Unmounted
<1>4. DOMAIN open' = DOMAIN open /\ \A b \in DOMAIN open : open'[b] = 0
  BY <1>1, <1>2, <1>3
<1>5. \A b \in DOMAIN open : b # Null
  BY MountAssumption DEF BackendTypes, Types
<1>6. BackendTypes'
  BY <1>1, <1>4 DEF BackendTypes
<1>7. ContextsExact'
  BY <1>1, <1>4, <1>5 DEF ContextsExact
<1> QED
  BY <1>1, <1>6, <1>7 DEF Held

\* The invariant on contexts holds throughout.
LEMMA ContextInvariant == Spec => []ContextInv
<1>1. Init => ContextInv
  <2> SUFFICES ASSUME Init PROVE ContextInv
    OBVIOUS
  <2>1. \A b \in AllBackends \cup {"cdda"} : b # Null
    BY MountAssumption DEF Types
  <2> QED
    BY <2>1 DEF Init, ContextInv, BackendTypes, Held, ContextsExact
<1>2. ContextInv /\ [Next]_vars => ContextInv'
  <2> SUFFICES ASSUME ContextInv, [Next]_vars PROVE ContextInv'
    OBVIOUS
  <2>1. CASE EnterMount \/ FindSession \/ TryNext
    <3>1. UNCHANGED <<chosen, ctx, root, open, map>> /\ cands' \subseteq AllBackends
      BY <2>1 DEF EnterMount, FindSession, ForcedSession, QueryLastSession, LastSessionFromToc,
         ScanDescriptors, BuildCandidates, TryNext, backend, ContextInv, BackendTypes
    <3>2. {pc, pc'} \cap {"chosen", "mounted"} = {}
      BY <2>1 DEF EnterMount, FindSession, ForcedSession, QueryLastSession, LastSessionFromToc,
         ScanDescriptors, BuildCandidates, TryNext
    <3> QED
      BY <3>1, <3>2, ContextsKept
  <2>2. CASE UNCHANGED vars
    BY <2>2 DEF vars, backend, ContextInv, BackendTypes, Held, ContextsExact
  <2> QED
    BY <2>1, <2>2, LadderSafe, AttemptSafe, RegisterSafe, CddaSafe, UnmountSafe DEF Next, Mount
<1> QED
  BY <1>1, <1>2, PTL DEF Spec

\* Whatever attempts succeed, fail or are taken back, the open contexts are the
\* ones the mount refers to, each open once, and none after odfs_unmount().
THEOREM ContextsCorrect == Spec => []ContextsExact
BY ContextInvariant, PTL DEF ContextInv

-----------------------------------------------------------------------------
(* The choice.                                                             *)

\* A backend whose mount succeeds here, if it is steady.
Mountable(be) == be \in Detected /\ Quality(be) \in {"good", "rr"}

Rungs == {"preferUdf", "preferHfs", "iso", "joliet", "udf", "hfs", "isoAgain", "nothing"}

\* What has been tried in vain when a rung of the ladder is reached.
Tried ==
  /\ pc \in Rungs => cands = Detected /\ "hfsplus" \notin Detected
  /\ pc \in Rungs \ {"preferUdf"} /\ opts.udf => ~Mountable("udf")
  /\ pc \in Rungs \ {"preferUdf", "preferHfs"} /\ opts.hfs => ~Mountable("hfs")
  /\ pc \in {"joliet", "udf", "hfs", "isoAgain", "nothing"} /\ Mountable("iso9660") => ~IsoStays
  /\ pc \in {"udf", "hfs", "isoAgain", "nothing"} => ~Mountable("joliet")
  /\ pc \in {"hfs", "isoAgain", "nothing"} => ~Mountable("udf")
  /\ pc \in {"isoAgain", "nothing"} => ~Mountable("hfs")
  /\ pc = "nothing" => ~Mountable("iso9660")

\* Only HFS+ is chosen by its probe alone.
ProbedOnly == pc = "chosen" /\ ctx = Null => chosen = "hfsplus" /\ "hfsplus" \in Detected

TriedInv ==
  /\ disc \in Discs /\ opts \in OptSets
  /\ ProbedOnly /\ (Steady(start) => Tried)

\* At a steady place a mount succeeds if and only if the view is good.
LEMMA SteadyOutcome ==
  ASSUME Steady(start), NEW be \in AllBackends, NEW ok \in Outcomes(be)
  PROVE  ok <=> Quality(be) \in {"good", "rr"}
<1>1. Quality(be) # "flaky"
  BY DEF Steady, Quality
<1> QED
  BY <1>1 DEF Outcomes

\* A rung of a steady place.
LEMMA RungCases ==
  ASSUME Steady(start), cands = Detected, NEW be \in AllBackends, NEW here, NEW wanted, NEW next,
         Rung(here, be, wanted, next)
  PROVE  \/ Mountable(be) /\ wanted /\ Opens(be) /\ chosen' = be /\ pc' = "chosen"
         \/ ~(Mountable(be) /\ wanted) /\ pc' = next /\ UNCHANGED <<ctx, open, root, chosen>>
<1>1. CASE be \in cands /\ wanted
  <2>1. PICK ok \in Outcomes(be) :
          IF ok THEN Opens(be) /\ chosen' = be /\ pc' = "chosen"
                ELSE pc' = next /\ UNCHANGED <<ctx, open, root, chosen>>
    BY <1>1 DEF Rung
  <2>2. ok <=> Quality(be) \in {"good", "rr"}
    BY <2>1, SteadyOutcome
  <2> QED
    BY <1>1, <2>1, <2>2 DEF Mountable
<1>2. CASE ~(be \in cands /\ wanted)
  BY <1>2 DEF Rung, Mountable
<1> QED
  BY <1>1, <1>2

\* The ISO rung of a steady place.
LEMMA IsoCases ==
  ASSUME Steady(start), cands = Detected, MountIso
  PROVE  \/ Mountable("iso9660") /\ IsoStays /\ Opens("iso9660") /\ chosen' = "iso9660"
            /\ pc' = "chosen"
         \/ (Mountable("iso9660") => ~IsoStays) /\ pc' = "joliet"
<1>1. PICK ok \in IF "iso9660" \in cands THEN Outcomes("iso9660") ELSE {FALSE} :
        \/ ok /\ IsoStays /\ Opens("iso9660") /\ chosen' = "iso9660" /\ pc' = "chosen"
        \/ ok /\ ~IsoStays /\ pc' = "joliet"
        \/ ~ok /\ pc' = "joliet"
  BY DEF MountIso
<1>2. "iso9660" \in AllBackends
  BY DEF AllBackends
<1>3. CASE "iso9660" \in cands
  <2>1. ok <=> Quality("iso9660") \in {"good", "rr"}
    BY <1>1, <1>2, <1>3, SteadyOutcome
  <2> QED
    BY <1>1, <1>3, <2>1 DEF Mountable
<1>4. CASE "iso9660" \notin cands
  BY <1>1, <1>4 DEF Mountable
<1> QED
  BY <1>3, <1>4

\* What the choice depends on stays while a place is tried.
LEMMA PlaceStays ==
  ASSUME UNCHANGED <<given, start>>
  PROVE  /\ Detected' = Detected /\ Steady(start)' = Steady(start)
         /\ \A be : Quality(be)' = Quality(be) /\ Mountable(be)' = Mountable(be)
         /\ cands' = cands => IsoStays' = IsoStays
         /\ \A v : HasView(start, v)' = HasView(start, v) /\ FirstView(start, v)' = FirstView(start, v)
BY DEF given, Detected, Steady, Quality, Mountable, IsoStays, HasView, FirstView, Preferences

\* Every step of the ladder leaves behind what has been tried in vain.
LEMMA LadderTried == ContextInv /\ TriedInv /\ Ladder => TriedInv'
<1> SUFFICES ASSUME ContextInv, TriedInv, Ladder PROVE TriedInv'
  OBVIOUS
<1> USE DEF TriedInv
<1>1. UNCHANGED <<given, start, cands>>
  BY DEF Ladder, Rung, MountIso, search
<1>2. disc' \in Discs /\ opts' \in OptSets
  BY <1>1 DEF given
<1>3. {"udf", "hfs", "joliet", "iso9660"} \subseteq AllBackends
  BY DEF AllBackends
<1>4. ctx = Null /\ pc \in Rungs \ {"nothing"}
  BY DEF Ladder, Rung, MountIso, Rungs, ContextInv, Held
<1>5. ProbedOnly'
  <2>1. pc' = "chosen" => ctx' \in AllBackends
    BY <1>3 DEF Ladder, Rung, MountIso, Opens
  <2> QED
    BY <2>1, MountAssumption DEF ProbedOnly, Types
<1>6. ASSUME Steady(start)' PROVE Tried'
  <2>1. Steady(start) /\ Tried /\ cands = Detected /\ "hfsplus" \notin Detected
    BY <1>1, <1>4, <1>6, PlaceStays DEF Tried
  <2> HIDE DEF TriedInv
  <2>2. /\ Detected' = Detected /\ IsoStays' = IsoStays /\ cands' = cands
        /\ \A be : Mountable(be)' = Mountable(be)
        /\ opts' = opts
    BY <1>1, PlaceStays DEF given
  <2>3. CASE pc' = "chosen"
    BY <2>3 DEF Tried, Rungs
  <2>4. CASE Rung("preferUdf", "udf", opts.udf, "preferHfs")
    BY <1>3, <2>1, <2>2, <2>3, <2>4, RungCases DEF Tried, Rungs
  <2>5. CASE Rung("preferHfs", "hfs", opts.hfs, "iso")
    <3>1. pc = "preferHfs"
      BY <2>5 DEF Rung
    <3> QED
      BY <1>3, <2>1, <2>2, <2>3, <2>5, <3>1, RungCases DEF Tried, Rungs
  <2>6. CASE MountIso
    <3>1. pc = "iso"
      BY <2>6 DEF MountIso
    <3> QED
      BY <2>1, <2>2, <2>3, <2>6, <3>1, IsoCases DEF Tried, Rungs
  <2>7. CASE Rung("joliet", "joliet", TRUE, "udf")
    <3>1. pc = "joliet"
      BY <2>7 DEF Rung
    <3>2. pc' = "chosen" \/ (~Mountable("joliet") /\ pc' = "udf")
      BY <1>3, <2>1, <2>7, RungCases, Zenon
    <3> QED
      BY <2>1, <2>2, <2>3, <3>1, <3>2 DEF Tried, Rungs
  <2>8. CASE Rung("udf", "udf", TRUE, "hfs")
    <3>1. pc = "udf"
      BY <2>8 DEF Rung
    <3>2. pc' = "chosen" \/ (~Mountable("udf") /\ pc' = "hfs")
      BY <1>3, <2>1, <2>8, RungCases, Zenon
    <3> QED
      BY <2>1, <2>2, <2>3, <3>1, <3>2 DEF Tried, Rungs
  <2>9. CASE Rung("hfs", "hfs", TRUE, "isoAgain")
    <3>1. pc = "hfs"
      BY <2>9 DEF Rung
    <3>2. pc' = "chosen" \/ (~Mountable("hfs") /\ pc' = "isoAgain")
      BY <1>3, <2>1, <2>9, RungCases, Zenon
    <3> QED
      BY <2>1, <2>2, <2>3, <3>1, <3>2 DEF Tried, Rungs
  <2>10. CASE Rung("isoAgain", "iso9660", ctx = Null, "nothing")
    <3>1. pc = "isoAgain"
      BY <2>10 DEF Rung
    <3> QED
      BY <1>3, <1>4, <2>1, <2>2, <2>3, <2>10, <3>1, RungCases DEF Tried, Rungs
  <2> QED
    BY <2>4, <2>5, <2>6, <2>7, <2>8, <2>9, <2>10 DEF Ladder
<1> QED
  BY <1>2, <1>5, <1>6

\* All other steps begin a place or leave it.
LEMMA OthersTried ==
  ASSUME ContextInv, TriedInv, [Next]_vars, ~Ladder
  PROVE  TriedInv'
<1> USE DEF TriedInv
<1>1. disc' \in Discs /\ opts' \in OptSets
  BY DEF Next, Mount, EnterMount, FindSession, ForcedSession, QueryLastSession, LastSessionFromToc,
     ScanDescriptors, BuildCandidates, TryNext, Probe, NothingHere, MountChosen, Register,
     RegisterCdda, FinishPureAudioMount, Unmount, vars, given
<1>2. CASE UNCHANGED vars
  <2>1. UNCHANGED <<given, start, cands>> /\ UNCHANGED <<pc, ctx, chosen>> /\ UNCHANGED opts
    BY <1>2 DEF vars, search, backend, given
  <2> QED
    BY <1>1, <2>1, PlaceStays DEF ProbedOnly, Tried
<1>3. CASE Probe
  <2>1. UNCHANGED <<given, start>> /\ cands' = Detected
    BY <1>3 DEF Probe, search
  <2>2. Detected' = Detected
    BY <2>1, PlaceStays
  <2>3. \/ "hfsplus" \in Detected /\ chosen' = "hfsplus" /\ pc' = "chosen"
        \/ "hfsplus" \notin Detected /\ pc' = "preferUdf"
    BY <1>3, <2>1 DEF Probe
  <2>4. ProbedOnly'
    BY <2>2, <2>3 DEF ProbedOnly
  <2>5. Tried'
    BY <2>1, <2>2, <2>3 DEF Tried, Rungs
  <2> QED
    BY <1>1, <2>4, <2>5
<1>4. CASE Mount \/ Unmount \/ RegisterCdda \/ FinishPureAudioMount
  <2>1. CASE Probe \/ Ladder
    BY <1>3, <2>1
  <2>2. CASE ~Probe
    <3>1. pc' \notin Rungs
      BY <1>4, <2>2 DEF Mount, EnterMount, FindSession, ForcedSession, QueryLastSession,
         LastSessionFromToc, ScanDescriptors, BuildCandidates, TryNext, NothingHere, MountChosen,
         Register, RegisterCdda, FinishPureAudioMount, Unmount, Rungs
    <3>2. Tried'
      BY <3>1 DEF Tried, Rungs
    <3>3. ~(pc' = "chosen" /\ ctx' = Null)
      <4>1. CASE MountChosen
        <5>1. pc = "chosen" /\ chosen \in AllBackends
          BY <4>1 DEF MountChosen, ContextInv, Held
        <5>2. pc' = "next" \/ ctx' = chosen
          BY <4>1 DEF MountChosen, Opens
        <5> QED
          BY <5>1, <5>2, MountAssumption DEF Types
      <4>2. CASE ~MountChosen
        <5>1. pc' # "chosen"
          BY <1>4, <2>2, <4>2 DEF Mount, EnterMount, FindSession, ForcedSession, QueryLastSession,
             LastSessionFromToc, ScanDescriptors, BuildCandidates, TryNext, NothingHere,
             Register, RegisterCdda, FinishPureAudioMount, Unmount
        <5> QED
          BY <5>1
      <4> QED
        BY <4>1, <4>2
    <3> QED
      BY <1>1, <3>2, <3>3 DEF ProbedOnly
  <2> QED
    BY <2>1, <2>2
<1> QED
  BY <1>2, <1>4 DEF Next

\* What has been tried is known throughout.
LEMMA TriedInvariant == Spec => [](ContextInv /\ TriedInv)
<1>1. Init => TriedInv
  BY DEF Init, TriedInv, Tried, ProbedOnly, Rungs
<1>2. ContextInv /\ TriedInv /\ [Next]_vars => TriedInv'
  BY LadderTried, OthersTried
<1> QED
  BY <1>1, <1>2, ContextInvariant, PTL DEF Spec

\* Every view of the documentation that is there belongs to a mountable backend.
LEMMA ViewMountable ==
  ASSUME NEW v, HasView(start, v)
  PROVE  Mountable(BackendOf(v)) /\ BackendOf(v) \in AllBackends
BY MountAssumption DEF HasView, Mountable, Detected, Quality, ToSet

\* No place is given up while it has a view to mount, unless HFS+ was found there
\* and cannot be mounted: whatever the discs and the options.
THEOREM PassedOverCorrect == Spec => NothingPassedOver
<1>1. ASSUME ContextInv, TriedInv, [Next]_vars, pc' = "next", pc # "candidates", Steady(start)
      PROVE  NoView(start) \/ PlusInTheWay(start) \/ UNCHANGED vars
  <2>1. CASE UNCHANGED vars
    BY <2>1
  <2>2. CASE NothingHere
    <3>1. \A be \in {"udf", "hfs", "joliet", "iso9660"} : ~Mountable(be)
      BY <1>1, <2>2 DEF NothingHere, TriedInv, Tried
    <3>2. ~Mountable("hfsplus")
      BY <1>1, <2>2 DEF NothingHere, TriedInv, Tried, Rungs, Mountable
    <3> QED
      BY <3>1, <3>2, ViewMountable DEF NoView, AllBackends
  <2>3. CASE MountChosen
    <3>1. chosen = "hfsplus" /\ "hfsplus" \in Detected /\ ctx = Null
      BY <1>1, <2>3 DEF MountChosen, TriedInv, ProbedOnly
    <3>2. "hfsplus" \in AllBackends
      BY DEF AllBackends
    <3>3. start \in DOMAIN disc.fs /\ Quality("hfsplus") = disc.fs[start]["hfsplus"]
      BY <3>1 DEF Detected, Quality
    <3>4. Quality("hfsplus") \notin {"absent", "flaky"}
      BY <1>1, <3>1, <3>2, <3>3 DEF Detected, Quality, Steady
    <3>5. Quality("hfsplus") \notin {"good", "rr"}
      BY <1>1, <2>3, <3>1, <3>2, SteadyOutcome DEF MountChosen
    <3>6. Quality("hfsplus") = "bad"
      BY <1>1, <3>2, <3>3, <3>4, <3>5, MountAssumption DEF Qualities, TriedInv
    <3> QED
      BY <3>1, <3>3, <3>6 DEF PlusInTheWay, Detected
  <2>4. pc \in {"nothing", "chosen"} \/ UNCHANGED vars
    BY <1>1 DEF Next, Mount, EnterMount, FindSession, ForcedSession, QueryLastSession, LastSessionFromToc,
       ScanDescriptors, BuildCandidates, TryNext, Probe, Ladder, Rung, MountIso, NothingHere, MountChosen,
       Register, RegisterCdda, FinishPureAudioMount, Unmount
  <2> QED
    BY <1>1, <2>1, <2>2, <2>3, <2>4
    DEF Next, Mount, EnterMount, FindSession, ForcedSession, QueryLastSession, LastSessionFromToc,
       ScanDescriptors, BuildCandidates, TryNext, Probe, Ladder, Rung, MountIso,
       Register, RegisterCdda, FinishPureAudioMount, Unmount
<1>2. ContextInv /\ TriedInv /\ [Next]_vars =>
        [pc' = "next" /\ pc # "candidates" /\ Steady(start)
           => NoView(start) \/ PlusInTheWay(start)]_vars
  BY <1>1
<1> QED
  BY <1>2, TriedInvariant, PTL DEF NothingPassedOver, Spec

\* The views that the documentation puts before v.
Ahead(v) ==
  LET preferred == (IF opts.udf THEN {"udf"} ELSE {}) \cup (IF opts.hfs THEN {"hfs"} ELSE {})
      iso == {"rock_ridge"} \cup (IF opts.noJoliet THEN {} ELSE {"joliet"})
  IN  CASE v = "rock_ridge" -> preferred
        [] v = "joliet" -> preferred \cup {"rock_ridge"}
        [] v = "iso9660" -> preferred \cup iso
        [] v = "udf" -> IF opts.udf THEN {} ELSE preferred \cup iso \cup {"iso9660"}
        [] v = "hfs" -> IF opts.hfs THEN preferred \ {"hfs"}
                        ELSE preferred \cup iso \cup {"iso9660", "udf"}

\* A view is the documented choice if none of those before it is there.
LEMMA ViewFirst ==
  ASSUME NEW s, NEW v \in {"rock_ridge", "joliet", "iso9660", "udf", "hfs"},
         v = "joliet" => ~opts.noJoliet, opts \in OptSets,
         HasView(s, v), \A w \in Ahead(v) : ~HasView(s, w)
  PROVE  FirstView(s, v)
<1>1. ~HasView(s, Null)
  BY MountAssumption DEF HasView, BackendOf, ToSet, Types
<1>2. opts.udf \in BOOLEAN /\ opts.hfs \in BOOLEAN /\ opts.noJoliet \in BOOLEAN
  BY MountAssumption DEF Options
<1> QED
  BY <1>1, <1>2 DEF FirstView, Preferences, Ahead

\* A place whose views allow the documented order: there is no HFS+ volume (which
\* wins over all), a Joliet tree can be mounted if it is wanted and has an ISO tree
\* to make way for if it is not, and only an ISO tree can be a Rock Ridge one.
Regular(d, o, s) ==
  LET found(be) == be \in ToSet(Table) /\ o.backend \in {Null, be} /\ d.fs[s][be] # "absent"
  IN  /\ ~found("hfsplus")
      /\ found("joliet") =>
           IF o.noJoliet THEN found("iso9660") /\ d.fs[s]["iso9660"] \in {"good", "rr"}
                         ELSE d.fs[s]["joliet"] = "good"
      /\ \A be \in AllBackends \ {"iso9660"} : d.fs[s][be] # "rr"
RegularDiscs ==
  \A d \in Discs, o \in OptSets : \A s \in DOMAIN d.fs :
    (\A be \in AllBackends : d.fs[s][be] # "flaky") => Regular(d, o, s)

\* What is chosen is the documented choice from the moment it is mounted.
ChoiceInv ==
  /\ pc = "chosen" /\ Steady(start) => ctx # Null /\ FirstView(start, root)
  /\ DocumentedChoice

\* What regularity says of the place that is tried.
LEMMA RegularHere ==
  ASSUME RegularDiscs, TriedInv, Steady(start)
  PROVE  /\ "hfsplus" \notin Detected
         /\ "joliet" \in Detected =>
              IF opts.noJoliet THEN Mountable("iso9660") ELSE Mountable("joliet")
         /\ \A be \in AllBackends \ {"iso9660"} : Quality(be) # "rr"
<1>1. CASE start \in DOMAIN disc.fs
  <2>1. Regular(disc, opts, start)
    BY <1>1 DEF RegularDiscs, TriedInv, Steady
  <2> QED
    BY <1>1, <2>1 DEF Regular, Detected, Quality, Mountable
<1>2. CASE start \notin DOMAIN disc.fs
  BY <1>2 DEF Detected, Quality
<1> QED
  BY <1>1, <1>2

\* A view is there if and only if its backend is mountable with the right quality.
LEMMA ViewHere ==
  /\ \A v \in {"joliet", "iso9660", "udf", "hfs"} :
       HasView(start, v) <=> Mountable(v) /\ Quality(v) = "good"
  /\ HasView(start, "rock_ridge") <=> Mountable("iso9660") /\ Quality("iso9660") = "rr"
BY DEF HasView, BackendOf, Mountable, Detected, Quality

\* What a rung mounts is the first view there is.
LEMMA RungChoice ==
  ASSUME RegularDiscs, TriedInv, Steady(start), Tried,
         NEW be \in {"udf", "hfs", "joliet", "iso9660"}, Mountable(be),
         \/ pc = "preferUdf" /\ be = "udf" /\ opts.udf
         \/ pc = "preferHfs" /\ be = "hfs" /\ opts.hfs
         \/ pc = "iso" /\ be = "iso9660" /\ IsoStays
         \/ pc = "joliet" /\ be = "joliet"
         \/ pc = "udf" /\ be = "udf"
         \/ pc = "hfs" /\ be = "hfs"
         \/ pc = "isoAgain" /\ be = "iso9660"
  PROVE  FirstView(start, IF Quality(be) = "rr" THEN "rock_ridge" ELSE be)
<1> DEFINE v == IF Quality(be) = "rr" THEN "rock_ridge" ELSE be
<1>1. /\ "hfsplus" \notin Detected
      /\ "joliet" \in Detected => IF opts.noJoliet THEN Mountable("iso9660") ELSE Mountable("joliet")
      /\ \A b \in AllBackends \ {"iso9660"} : Quality(b) # "rr"
  BY RegularHere
<1>2. cands = Detected /\ opts \in OptSets
  BY DEF Tried, Rungs, TriedInv
<1>3. be # "iso9660" => v = be /\ Quality(be) # "rr"
  BY <1>1 DEF AllBackends
<1>4. HasView(start, v)
  BY <1>3, ViewHere DEF Mountable
<1>5. v \in {"rock_ridge", "joliet", "iso9660", "udf", "hfs"}
  OBVIOUS
<1>6. opts.udf \in BOOLEAN /\ opts.hfs \in BOOLEAN /\ opts.noJoliet \in BOOLEAN
  BY <1>2, MountAssumption DEF Options
<1>7. pc \in {"joliet", "udf", "hfs", "isoAgain"} /\ Mountable("iso9660") =>
        Quality("iso9660") # "rr" /\ ~opts.noJoliet /\ Mountable("joliet")
  BY <1>1, <1>2 DEF Tried, IsoStays
<1>8. pc \in {"udf", "hfs", "isoAgain"} => ~Mountable("iso9660") /\ ~Mountable("joliet")
  BY <1>7 DEF Tried
<1>9. v = "joliet" => ~opts.noJoliet
  <2>1. ASSUME be = "joliet", opts.noJoliet PROVE FALSE
    BY <2>1, <1>1, <1>7 DEF Mountable
  <2> QED
    BY <2>1, <1>6
<1>10. ASSUME NEW w \in Ahead(v) PROVE ~HasView(start, w)
  <2>1. CASE pc = "preferUdf"
    BY <2>1, <1>3, <1>10 DEF Ahead
  <2>2. CASE pc = "preferHfs"
    BY <2>2, <1>3, <1>10, ViewHere DEF Ahead, Tried, Rungs
  <2>3. CASE pc = "iso"
    <3>1. (opts.udf => ~HasView(start, "udf")) /\ (opts.hfs => ~HasView(start, "hfs"))
      BY <2>3, ViewHere DEF Tried, Rungs
    <3>2. v = "iso9660" => ~HasView(start, "rock_ridge") /\ (opts.noJoliet \/ ~HasView(start, "joliet"))
      BY <2>3, <1>2, ViewHere DEF IsoStays, Mountable
    <3> QED
      BY <2>3, <3>1, <3>2, <1>6, <1>10 DEF Ahead
  <2>4. CASE pc = "joliet"
    <3>1. (opts.udf => ~HasView(start, "udf")) /\ (opts.hfs => ~HasView(start, "hfs"))
      BY <2>4, ViewHere DEF Tried, Rungs
    <3>2. ~HasView(start, "rock_ridge") /\ v = "joliet"
      BY <2>4, <1>3, <1>7, ViewHere
    <3> QED
      BY <3>1, <3>2, <1>6, <1>10 DEF Ahead
  <2>5. CASE pc \in {"udf", "hfs", "isoAgain"}
    <3>1. (opts.udf => ~HasView(start, "udf")) /\ (opts.hfs => ~HasView(start, "hfs"))
      BY <2>5, ViewHere DEF Tried, Rungs
    <3>2. \A x \in {"rock_ridge", "joliet", "iso9660"} : ~HasView(start, x)
      BY <2>5, <1>8, ViewHere
    <3>3. be # "iso9660" /\ v = be
      BY <2>5, <1>3, <1>8
    <3>4. be = "hfs" => ~HasView(start, "udf")
      BY <2>5, ViewHere DEF Tried
    <3> QED
      BY <2>5, <3>1, <3>2, <3>3, <3>4, <1>6, <1>10 DEF Ahead
  <2> QED
    BY <2>1, <2>2, <2>3, <2>4, <2>5
<1> HIDE DEF v
<1>11. FirstView(start, v)
  BY <1>2, <1>4, <1>5, <1>9, <1>10, ViewFirst
<1> QED
  BY <1>11 DEF v

\* A step of the ladder that chooses makes the documented choice.
LEMMA LadderChoice ==
  ASSUME RegularDiscs, ContextInv, TriedInv, ChoiceInv, Ladder
  PROVE  ChoiceInv'
<1>1. UNCHANGED <<given, start>>
  BY DEF Ladder, Rung, MountIso, search
<1>2. {"udf", "hfs", "joliet", "iso9660"} \subseteq AllBackends
  BY DEF AllBackends
<1>3. pc \in Rungs /\ pc' # "mounted" /\ ctx = Null
  BY DEF Ladder, Rung, MountIso, Rungs, ContextInv, Held
<1>4. pc' = "chosen" => ctx' # Null
  BY <1>2, MountAssumption DEF Ladder, Rung, MountIso, Opens, Types
<1>5. ASSUME pc' = "chosen", Steady(start)' PROVE FirstView(start, root)'
  <2>1. Steady(start) /\ Tried /\ cands = Detected
    BY <1>1, <1>3, <1>5, PlaceStays DEF TriedInv, Tried
  <2>2. \E be \in {"udf", "hfs", "joliet", "iso9660"} :
          /\ Mountable(be) /\ Opens(be)
          /\ \/ pc = "preferUdf" /\ be = "udf" /\ opts.udf
             \/ pc = "preferHfs" /\ be = "hfs" /\ opts.hfs
             \/ pc = "iso" /\ be = "iso9660" /\ IsoStays
             \/ pc = "joliet" /\ be = "joliet"
             \/ pc = "udf" /\ be = "udf"
             \/ pc = "hfs" /\ be = "hfs"
             \/ pc = "isoAgain" /\ be = "iso9660"
    <3>1. CASE Rung("preferUdf", "udf", opts.udf, "preferHfs")
      <4>1. pc = "preferUdf" BY <3>1 DEF Rung
      <4> QED BY <1>2, <1>5, <2>1, <3>1, <4>1, RungCases
    <3>2. CASE Rung("preferHfs", "hfs", opts.hfs, "iso")
      <4>1. pc = "preferHfs" BY <3>2 DEF Rung
      <4> QED BY <1>2, <1>5, <2>1, <3>2, <4>1, RungCases
    <3>3. CASE MountIso
      <4>1. pc = "iso" BY <3>3 DEF MountIso
      <4> QED BY <1>5, <2>1, <3>3, <4>1, IsoCases
    <3>4. CASE Rung("joliet", "joliet", TRUE, "udf")
      <4>1. pc = "joliet" BY <3>4 DEF Rung
      <4>2. (Mountable("joliet") /\ Opens("joliet")) \/ pc' = "udf"
        BY <1>2, <2>1, <3>4, RungCases, Zenon
      <4> QED BY <1>5, <4>1, <4>2
    <3>5. CASE Rung("udf", "udf", TRUE, "hfs")
      <4>1. pc = "udf" BY <3>5 DEF Rung
      <4>2. (Mountable("udf") /\ Opens("udf")) \/ pc' = "hfs"
        BY <1>2, <2>1, <3>5, RungCases, Zenon
      <4> QED BY <1>5, <4>1, <4>2
    <3>6. CASE Rung("hfs", "hfs", TRUE, "isoAgain")
      <4>1. pc = "hfs" BY <3>6 DEF Rung
      <4>2. (Mountable("hfs") /\ Opens("hfs")) \/ pc' = "isoAgain"
        BY <1>2, <2>1, <3>6, RungCases, Zenon
      <4> QED BY <1>5, <4>1, <4>2
    <3>7. CASE Rung("isoAgain", "iso9660", ctx = Null, "nothing")
      <4>1. pc = "isoAgain" BY <3>7 DEF Rung
      <4> QED BY <1>2, <1>3, <1>5, <2>1, <3>7, <4>1, RungCases
    <3> QED
      BY <3>1, <3>2, <3>3, <3>4, <3>5, <3>6, <3>7 DEF Ladder
  <2>3. FirstView(start, root')
    BY <2>1, <2>2, RungChoice DEF Opens
  <2> QED
    BY <1>1, <2>3, PlaceStays DEF given, FirstView, HasView, Preferences
<1> QED
  BY <1>3, <1>4, <1>5 DEF ChoiceInv, DocumentedChoice

\* At every regular place, what is mounted is the documented choice, with whatever
\* options, and whatever failed before.
THEOREM ChoiceCorrect ==
  ASSUME RegularDiscs
  PROVE  Spec => []DocumentedChoice
<1>1. Init => ChoiceInv
  BY DEF Init, ChoiceInv, DocumentedChoice
<1>2. ContextInv /\ TriedInv /\ ChoiceInv /\ [Next]_vars => ChoiceInv'
  <2> SUFFICES ASSUME ContextInv, TriedInv, ChoiceInv, [Next]_vars PROVE ChoiceInv'
    OBVIOUS
  <2>1. CASE Ladder
    BY <2>1, LadderChoice
  <2>2. CASE Probe
    <3>1. UNCHANGED <<given, start>> /\ pc' # "mounted"
      BY <2>2 DEF Probe, search
    <3>2. Steady(start) => "hfsplus" \notin Detected
      BY RegularHere
    <3>3. Steady(start) => pc' = "preferUdf"
      BY <2>2, <3>2 DEF Probe
    <3> QED
      BY <3>1, <3>3, PlaceStays DEF ChoiceInv, DocumentedChoice
  <2>3. CASE Register \/ RegisterCdda
    <3>1. UNCHANGED <<given, start>> /\ root' = root /\ pc' = "mounted"
      BY <2>3 DEF Register, RegisterCdda, search
    <3>2. root # "cdda" /\ Steady(start) => FirstView(start, root)
      BY <2>3 DEF Register, RegisterCdda, ChoiceInv, DocumentedChoice
    <3> QED
      BY <3>1, <3>2, PlaceStays DEF ChoiceInv, DocumentedChoice, FirstView, HasView, Preferences, given
  <2>4. CASE FinishPureAudioMount
    BY <2>4 DEF FinishPureAudioMount, ChoiceInv, DocumentedChoice
  <2>5. CASE MountChosen
    <3>1. UNCHANGED <<given, start>> /\ pc' # "mounted" /\ ~Steady(start)
      BY <2>5 DEF MountChosen, ChoiceInv, search
    <3> QED
      BY <3>1, PlaceStays DEF ChoiceInv, DocumentedChoice
  <2>6. CASE UNCHANGED vars
    <3>1. UNCHANGED <<given, start>> /\ UNCHANGED <<root, pc, ctx>>
      BY <2>6 DEF vars, search, backend
    <3> QED
      BY <3>1, PlaceStays DEF ChoiceInv, DocumentedChoice, FirstView, HasView, Preferences, given
  <2>7. CASE EnterMount \/ FindSession \/ TryNext \/ NothingHere \/ Unmount
    <3>1. pc' \notin {"chosen", "mounted"}
      BY <2>7 DEF EnterMount, FindSession, ForcedSession, QueryLastSession, LastSessionFromToc,
         ScanDescriptors, BuildCandidates, TryNext, NothingHere, Unmount
    <3> QED
      BY <3>1 DEF ChoiceInv, DocumentedChoice
  <2> QED
    BY <2>1, <2>2, <2>3, <2>4, <2>5, <2>6, <2>7 DEF Next, Mount
<1>3. ChoiceInv => DocumentedChoice
  BY DEF ChoiceInv
<1> QED
  BY <1>1, <1>2, <1>3, TriedInvariant, PTL DEF Spec

-----------------------------------------------------------------------------
(* Sessions.  The places to try begin in the last session and go down from *)
(* the last data track: what the list is follows from the fold that builds *)
(* it, that its first place lies in the last session from SessionInv.      *)

Tracks == [start : 0..MaxLba, data : BOOLEAN]

\* What the list is after the first i tracks of p.seq.
TrackStep(s, t, p) == AddTrack(s, t)
Descends(q) == \A i, j \in DOMAIN q : i < j => q[i].start >= q[j].start
TrackGood(s, i, p) ==
  /\ s \in Seq(0..MaxLba) /\ Len(s) \in 1..MaxStarts /\ Len(s) <= i + 1 /\ s[1] = p.from
  /\ \A k \in 2..Len(s) : \E j \in 1..i : s[k] = p.seq[j].start
  /\ Len(p.seq) < MaxStarts =>
       \A j \in 1..i : p.seq[j].data => \E k \in 1..Len(s) : s[k] = p.seq[j].start
  /\ Descends(p.seq) => \A k, l \in 2..Len(s) : k < l => s[k] >= s[l]

Tracking == INSTANCE FoldInduction WITH Step <- TrackStep, Good <- TrackGood

\* Least and greatest indices.
LEMMA LeastIndex ==
  ASSUME NEW n \in Nat, NEW T \in SUBSET (1..n), T # {}
  PROVE  Min(T) \in T
<1>1. T \subseteq Nat
  OBVIOUS
<1>2. \E x \in T : \A y \in T : x <= y
  BY <1>1, Tracking!LeastElement
<1> QED BY <1>2 DEF Min

LEMMA GreatestIndex ==
  ASSUME NEW n \in Nat, NEW T \in SUBSET (1..n), T # {}
  PROVE  Max(T) \in T
<1> DEFINE U == {n - x : x \in T}
<1>1. U \subseteq Nat /\ U # {}
  <2>1. \A x \in T : n - x \in Nat
    OBVIOUS
  <2> QED BY <2>1
<1>2. PICK u \in U : \A v \in U : u <= v
  BY <1>1, Tracking!LeastElement
<1>3. PICK x \in T : u = n - x
  BY <1>2
<1>4. \A y \in T : n - x <= n - y
  BY <1>2, <1>3
<1>5. \A y \in T : x >= y
  BY <1>4
<1> QED BY <1>5 DEF Max

\* One more track.
LEMMA TrackKept ==
  ASSUME NEW p, p.seq \in Seq(Tracks), NEW i \in 1..Len(p.seq), NEW w, TrackGood(w, i - 1, p)
  PROVE  TrackGood(AddTrack(w, p.seq[i]), i, p)
<1> DEFINE t == p.seq[i]
           n == Len(w)
           s == Append(w, t.start)
<1>0. p.seq[i] \in Tracks
  BY ElementOfSeq
<1>1. /\ t.start \in 0..MaxLba /\ i \in Nat /\ Len(p.seq) \in Nat
      /\ DOMAIN p.seq = 1..Len(p.seq) /\ MaxStarts \in Nat
  BY <1>0, MountAssumption DEF Tracks
<1>2. /\ w \in Seq(0..MaxLba) /\ n \in 1..MaxStarts /\ n <= i /\ w[1] = p.from
      /\ \A k \in 2..n : \E j \in 1..(i - 1) : w[k] = p.seq[j].start
      /\ Len(p.seq) < MaxStarts =>
           \A j \in 1..(i - 1) : p.seq[j].data => \E k \in 1..n : w[k] = p.seq[j].start
      /\ Descends(p.seq) => \A k, l \in 2..n : k < l => w[k] >= w[l]
  BY <1>1 DEF TrackGood
<1>3. ToSet(w) = {w[k] : k \in 1..n}
  BY <1>2 DEF ToSet
<1>4. CASE Skips(w, t)
  <2>1. AddTrack(w, t) = w
    BY <1>4 DEF AddTrack
  <2>2. ASSUME Len(p.seq) < MaxStarts, t.data PROVE \E k \in 1..n : w[k] = t.start
    BY <1>1, <1>2, <1>3, <1>4, <2>2 DEF Skips
  <2>3. 1..i = 1..(i - 1) \cup {i} /\ Len(w) <= i + 1
    BY <1>1, <1>2
  <2>4. \A k \in 2..n : \E j \in 1..i : w[k] = p.seq[j].start
    BY <1>2, <2>3
  <2>5. Len(p.seq) < MaxStarts =>
           \A j \in 1..i : p.seq[j].data => \E k \in 1..n : w[k] = p.seq[j].start
    BY <1>2, <2>2, <2>3
  <2> QED BY <1>2, <2>1, <2>3, <2>4, <2>5, SMTT(60) DEF TrackGood
<1>5. CASE ~Skips(w, t)
  <2>1. AddTrack(w, t) = s /\ n < MaxStarts
    BY <1>1, <1>2, <1>5 DEF AddTrack, Skips
  <2>2. /\ s \in Seq(0..MaxLba) /\ Len(s) = n + 1 /\ s[n + 1] = t.start
        /\ \A k \in 1..n : s[k] = w[k]
    BY <1>1, <1>2, AppendProperties
  <2>3. Len(s) \in 1..MaxStarts /\ Len(s) <= i + 1 /\ s[1] = p.from
    BY <1>1, <1>2, <2>1, <2>2
  <2>4. ASSUME NEW k \in 2..(n + 1) PROVE \E j \in 1..i : s[k] = p.seq[j].start
    <3>1. CASE k = n + 1
      BY <1>1, <2>2, <3>1
    <3>2. CASE k # n + 1
      <4>1. k \in 2..n /\ k \in 1..n /\ 1..(i - 1) \subseteq 1..i
        BY <1>1, <1>2, <3>2
      <4> QED BY <4>1, <1>2, <2>2
    <3> QED BY <3>1, <3>2
  <2>5. ASSUME Len(p.seq) < MaxStarts, NEW j \in 1..i, p.seq[j].data
        PROVE  \E k \in 1..(n + 1) : s[k] = p.seq[j].start
    <3>1. CASE j = i
      BY <1>2, <2>2, <3>1
    <3>2. CASE j # i
      <4>1. j \in 1..(i - 1)
        BY <1>1, <3>2
      <4>2. PICK k \in 1..n : w[k] = p.seq[j].start
        BY <4>1, <1>2, <2>5
      <4> QED BY <4>2, <1>2, <2>2
    <3> QED BY <3>1, <3>2
  <2>6. ASSUME Descends(p.seq), NEW k \in 2..(n + 1), NEW l \in 2..(n + 1), k < l
        PROVE  s[k] >= s[l]
    <3>1. k \in 2..n /\ k \in 1..n /\ s[k] = w[k]
      BY <1>2, <2>2, <2>6
    <3>2. CASE l = n + 1
      <4>1. PICK j \in 1..(i - 1) : w[k] = p.seq[j].start
        BY <1>2, <3>1
      <4>2. j \in DOMAIN p.seq /\ i \in DOMAIN p.seq /\ j < i
        BY <1>1, <4>1
      <4> QED BY <2>2, <2>6, <3>1, <3>2, <4>1, <4>2 DEF Descends
    <3>3. CASE l # n + 1
      <4>1. n \in Nat
        BY <1>1, <1>2
      <4>2. l \in 2..n /\ l \in 1..n
        BY <4>1, <3>3
      <4> QED BY <1>2, <2>2, <2>6, <3>1, <4>2
    <3> QED BY <3>2, <3>3
  <2> HIDE DEF s
  <2> QED BY <2>1, <2>2, <2>3, <2>4, <2>5, <2>6 DEF TrackGood
<1> QED BY <1>4, <1>5

\* The list of places, for any table of contents: its length and its first place;
\* and, if the tracks ascend and there is room, what is on it and its order.
CandidatesRight(c, from, toc) ==
  /\ c \in Seq(0..MaxLba) /\ Len(c) \in 1..MaxStarts /\ c[1] = from
  /\ Len(toc) < MaxStarts =>
       \A j \in DOMAIN toc : toc[j].data => \E k \in DOMAIN c : c[k] = toc[j].start
  /\ Len(toc) + 1 < MaxStarts => \E k \in DOMAIN c : c[k] = 0
  /\ (\A i, j \in DOMAIN toc : i < j => toc[i].start <= toc[j].start) =>
       \A k, l \in 2..Len(c) : k < l => c[k] >= c[l]

\* mount_build_session_candidates() makes such a list.
LEMMA CandidatesAre ==
  ASSUME NEW from \in 0..MaxLba, NEW toc \in Seq(Tracks), NEW c, c = Candidates(from, toc)
  PROVE  CandidatesRight(c, from, toc)
<1> SUFFICES /\ c \in Seq(0..MaxLba) /\ Len(c) \in 1..MaxStarts /\ c[1] = from
             /\ Len(toc) < MaxStarts =>
                  \A j \in DOMAIN toc : toc[j].data => \E k \in DOMAIN c : c[k] = toc[j].start
             /\ Len(toc) + 1 < MaxStarts => \E k \in DOMAIN c : c[k] = 0
             /\ (\A i, j \in DOMAIN toc : i < j => toc[i].start <= toc[j].start) =>
                  \A k, l \in 2..Len(c) : k < l => c[k] >= c[l]
  BY DEF CandidatesRight
<1> DEFINE r == Reverse(toc)
           n == Len(toc)
           p == [from |-> from, seq |-> r]
           a == FoldLeft(AddTrack, <<from>>, r)
           m == Len(a)
<1>1. /\ n \in Nat /\ DOMAIN toc = 1..n /\ MaxStarts \in Nat \ {0}
      /\ \A i \in 1..n : toc[i] \in Tracks
  BY MountAssumption, ElementOfSeq
<1>2. /\ r \in Seq(Tracks) /\ Len(r) = n /\ DOMAIN r = 1..n
      /\ \A i \in 1..n : (n - i) + 1 \in 1..n /\ r[i] = toc[(n - i) + 1]
  <2>1. \A i \in 1..n : (n - i) + 1 \in 1..n
    BY <1>1
  <2>2. r = [i \in 1..n |-> toc[(n - i) + 1]]
    BY DEF Reverse
  <2>3. r \in [1..n -> Tracks]
    BY <1>1, <2>1, <2>2
  <2> QED BY <1>1, <2>1, <2>2, <2>3, SeqDef
<1>3. p.seq = r /\ p.from = from
  OBVIOUS
<1>4. a = Tracking!Fold(<<from>>, r, p)
  BY DEF FoldLeft, MapThenFoldSet, Tracking!Fold, Max, Tracking!Max, TrackStep
<1> HIDE DEF p, a, r, n
<1>5. TrackGood(<<from>>, 0, p)
  <2>1. <<from>> \in Seq(0..MaxLba) /\ Len(<<from>>) = 1 /\ <<from>>[1] = from
    OBVIOUS
  <2>2. 2..1 = {} /\ 1..0 = {}
    OBVIOUS
  <2> QED BY <1>1, <1>3, <2>1, <2>2 DEF TrackGood
<1>6. \A w : \A i \in 1..n : TrackGood(w, i - 1, p) => TrackGood(TrackStep(w, r[i], p), i, p)
  BY <1>2, <1>3, TrackKept DEF TrackStep
<1>7. TrackGood(a, n, p)
  BY <1>1, <1>2, <1>4, <1>5, <1>6, Tracking!FoldGood
<1>8. /\ a \in Seq(0..MaxLba) /\ m \in 1..MaxStarts /\ m <= n + 1 /\ a[1] = from
      /\ n < MaxStarts =>
           \A j \in 1..n : r[j].data => \E k \in 1..m : a[k] = r[j].start
      /\ Descends(r) => \A k, l \in 2..m : k < l => a[k] >= a[l]
  BY <1>2, <1>3, <1>7 DEF TrackGood
<1>9. ASSUME \A i, j \in DOMAIN toc : i < j => toc[i].start <= toc[j].start PROVE Descends(r)
  <2> SUFFICES ASSUME NEW i \in 1..n, NEW j \in 1..n, i < j PROVE r[i].start >= r[j].start
    BY <1>2 DEF Descends
  <2>1. (n - j) + 1 < (n - i) + 1
    BY <1>1
  <2>2. toc[(n - j) + 1].start <= toc[(n - i) + 1].start
    BY <1>1, <1>2, <1>9, <2>1
  <2>3. toc[(n - j) + 1].start \in Nat /\ toc[(n - i) + 1].start \in Nat
    <3>1. toc[(n - j) + 1] \in Tracks /\ toc[(n - i) + 1] \in Tracks
      BY <1>1, <1>2
    <3> QED BY <3>1 DEF Tracks
  <2> QED BY <1>2, <2>2, <2>3
<1>10. ASSUME n < MaxStarts, NEW j \in 1..n, toc[j].data PROVE \E k \in 1..m : a[k] = toc[j].start
  <2>1. (n - j) + 1 \in 1..n /\ (n - ((n - j) + 1)) + 1 = j
    BY <1>1, <1>2
  <2>2. r[(n - j) + 1] = toc[j]
    BY <1>2, <2>1
  <2> QED BY <1>8, <1>10, <2>1, <2>2
<1>11. c = WithFirst(from, a)
  BY DEF Candidates, a, r
<1>12. DOMAIN a = 1..m /\ m \in Nat /\ 1 \in 1..m
  BY <1>1, <1>8
<1>13. CASE from # 0 /\ m < MaxStarts
  <2>1. c = Append(a, 0)
    BY <1>11, <1>13 DEF WithFirst
  <2>2. /\ c \in Seq(0..MaxLba) /\ Len(c) = m + 1 /\ c[m + 1] = 0
        /\ \A k \in 1..m : c[k] = a[k]
    BY <1>8, <2>1, AppendProperties, MountAssumption
  <2>3. DOMAIN c = 1..(m + 1) /\ \A k \in 2..m : a[k] \in 0..MaxLba /\ k \in 1..m
    <3>1. DOMAIN c = 1..(m + 1)
      BY <2>2
    <3>2. \A k \in 2..m : k \in 1..m
      BY <1>12
    <3>3. \A k \in 1..m : a[k] \in 0..MaxLba
      BY <1>8, ElementOfSeq
    <3> QED BY <3>1, <3>2, <3>3
  <2>4. ASSUME Descends(r), NEW k \in 2..(m + 1), NEW l \in 2..(m + 1), k < l PROVE c[k] >= c[l]
    <3>1. k \in 2..m
      BY <1>12, <2>4
    <3>2. CASE l = m + 1
      BY <2>2, <2>3, <3>1, <3>2
    <3>3. CASE l # m + 1
      <4>1. l \in 2..m
        BY <1>12, <3>3
      <4> QED BY <1>8, <2>2, <2>3, <2>4, <3>1, <4>1
    <3> QED BY <3>2, <3>3
  <2>5. ASSUME n < MaxStarts, NEW j \in 1..n, toc[j].data
        PROVE  \E k \in DOMAIN c : c[k] = toc[j].start
    <3>1. PICK k \in 1..m : a[k] = toc[j].start
      BY <1>10, <2>5
    <3> QED BY <1>12, <2>2, <2>3, <3>1
  <2>6. Len(c) \in 1..MaxStarts /\ c[1] = from /\ c[m + 1] = 0 /\ m + 1 \in DOMAIN c
    BY <1>1, <1>8, <1>12, <1>13, <2>2, <2>3
  <2> QED BY <1>1, <1>9, <2>2, <2>4, <2>5, <2>6 DEF n
<1>14. CASE ~(from # 0 /\ m < MaxStarts)
  <2>1. c = a
    BY <1>11, <1>14 DEF WithFirst
  <2>2. ASSUME n + 1 < MaxStarts PROVE \E k \in 1..m : a[k] = 0
    <3>1. from = 0
      BY <1>1, <1>8, <1>12, <1>14, <2>2
    <3> QED BY <1>8, <1>12, <3>1
  <2> QED BY <1>1, <1>8, <1>9, <1>10, <1>12, <2>1, <2>2 DEF n
<1> QED BY <1>13, <1>14

\* The two answers to where the last session begins: the place tried first is not
\* before it.
LEMMA StartIs ==
  ASSUME NEW toc \in Seq(Tracks)
  PROVE  /\ TocStart(toc) \in 0..MaxLba
         /\ \A e \in 0..MaxLba : ExplicitStart(e, toc) \in 0..MaxLba /\ ExplicitStart(e, toc) >= e
<1>1. /\ Len(toc) \in Nat /\ DOMAIN toc = 1..Len(toc)
      /\ \A i \in DOMAIN toc : toc[i] \in Tracks
  BY ElementOfSeq
<1>2. \A i \in DOMAIN toc : toc[i].start \in 0..MaxLba
  BY <1>1 DEF Tracks
<1>3. TocStart(toc) \in 0..MaxLba
  <2> DEFINE data == {i \in DOMAIN toc : toc[i].data}
  <2>1. data # {} => Max(data) \in data
    BY <1>1, GreatestIndex
  <2>2. TocStart(toc) = IF data = {} THEN 0 ELSE toc[Max(data)].start
    BY DEF TocStart
  <2> QED BY <1>2, <2>1, <2>2, MountAssumption
<1>4. ASSUME NEW e \in 0..MaxLba
      PROVE  ExplicitStart(e, toc) \in 0..MaxLba /\ ExplicitStart(e, toc) >= e
  <2> DEFINE in == {i \in DOMAIN toc : toc[i].data /\ toc[i].start >= e}
  <2>1. in # {} => Min(in) \in in
    BY <1>1, LeastIndex
  <2>2. ExplicitStart(e, toc) = IF in = {} THEN e ELSE toc[Min(in)].start
    BY DEF ExplicitStart
  <2>3. CASE in = {}
    BY <2>2, <2>3
  <2>4. CASE in # {}
    <3>1. Min(in) \in DOMAIN toc /\ toc[Min(in)].start >= e
      BY <2>1, <2>4
    <3> QED BY <1>2, <2>2, <2>4, <3>1
  <2> QED BY <2>3, <2>4
<1> QED BY <1>3, <1>4

\* The search for the session has an answer to everything it asks.
Answered == disc.fails \cap {"query", "toc"} = {}

\* The numbers stay in their width, the list in its array; without failures the
\* descriptors are scanned only if there is nothing else to go by, and the place
\* found is not before the last session.
SessionInv ==
  /\ disc \in Discs /\ opts \in OptSets /\ pc \in PcStates
  /\ scan \in 0..MaxLba /\ start \in 0..MaxLba
  /\ starts \in Seq(0..MaxLba) /\ Len(starts) <= MaxStarts
  /\ pc = "scan" /\ Answered => disc.last = Null /\ disc.toc = <<>>
  /\ pc = "candidates" /\ opts.session < 0 /\ Answered => start >= LastSession

\* What is known of a disc.
LEMMA DiscIs ==
  ASSUME SessionInv
  PROVE  /\ disc.toc \in Seq(Tracks) /\ disc.last \in (0..MaxLba) \cup {Null} /\ disc.total \in 0..MaxLba
         /\ DOMAIN disc.pvd \subseteq 0..MaxLba /\ \A s \in DOMAIN disc.pvd : disc.pvd[s] \in 0..MaxLba
         /\ MaxLba \in Nat \ {0} /\ VdOffset \in 1..MaxLba /\ MaxStarts \in Nat \ {0}
         /\ opts.session \in Int
<1>1. opts \in Options
  BY MountAssumption DEF SessionInv
<1>2. opts.session \in Int
  BY <1>1 DEF Options
<1> QED BY <1>2, MountAssumption DEF SessionInv, Tracks

\* The steps that do not look for a session.
LEMMA SessionKept ==
  ASSUME SessionInv, UNCHANGED <<given, scan, start, starts>>, pc' \in PcStates,
         pc' = pc \/ pc' \notin {"scan", "candidates"}
  PROVE  SessionInv'
BY DEF SessionInv, Answered, LastSession, given

\* The answers that cannot fail.
LEMMA MayAnswer ==
  Answered => May("query") = {TRUE} /\ May("toc") = {TRUE}
BY DEF Answered, May

\* A step of the search that keeps the rest of the state.
LEMMA FoundKeeps ==
  ASSUME SessionInv, UNCHANGED <<given, starts>>, scan' \in 0..MaxLba, start' \in 0..MaxLba,
         pc' \in {"scan", "candidates"},
         pc' = "scan" /\ Answered => disc.last = Null /\ disc.toc = <<>>,
         pc' = "candidates" /\ opts.session < 0 /\ Answered => start' >= LastSession
  PROVE  SessionInv'
<1>1. disc' = disc /\ opts' = opts /\ pc' \in PcStates
  BY DEF given, PcStates
<1> QED BY <1>1 DEF SessionInv, Answered, LastSession

\* The place is given, or found by the first or the second strategy.
LEMMA FindKeeps ==
  ASSUME SessionInv, ForcedSession \/ QueryLastSession \/ LastSessionFromToc
  PROVE  SessionInv'
<1>1. scan \in 0..MaxLba /\ 0 \in 0..MaxLba /\ VdOffset \in 0..MaxLba /\ opts.session \in Int
  BY DiscIs DEF SessionInv
<1>2. CASE ForcedSession
  <2>1. opts.session >= 0 /\ pc' = "candidates" /\ UNCHANGED <<given, scan, starts>>
    BY <1>2 DEF ForcedSession
  <2>2. start' \in 0..MaxLba
    <3>1. ASSUME opts.session < Len(disc.toc) PROVE disc.toc[opts.session + 1].start \in 0..MaxLba
      <4>1. opts.session + 1 \in 1..Len(disc.toc) /\ disc.toc \in Seq(Tracks)
        BY <1>1, <2>1, <3>1, DiscIs
      <4>2. disc.toc[opts.session + 1] \in Tracks
        BY <4>1, ElementOfSeq
      <4> QED BY <4>2 DEF Tracks
    <3> QED BY <1>1, <1>2, <3>1 DEF ForcedSession
  <2> QED BY <1>1, <2>1, <2>2, FoundKeeps
<1>3. CASE QueryLastSession
  <2>1. pc' = "candidates" /\ UNCHANGED <<given, scan, starts>> /\ disc.last \in 0..MaxLba
    BY <1>3, DiscIs DEF QueryLastSession
  <2>2. PICK ok \in May("toc") : start' = ExplicitStart(disc.last, IF ok THEN disc.toc ELSE <<>>)
    BY <1>3 DEF QueryLastSession
  <2>3. (IF ok THEN disc.toc ELSE <<>>) \in Seq(Tracks)
    BY DiscIs
  <2>4. start' \in 0..MaxLba /\ start' >= disc.last
    BY <2>1, <2>2, <2>3, StartIs
  <2>5. LastSession = disc.last
    BY <1>3 DEF QueryLastSession, LastSession
  <2> QED BY <1>1, <2>1, <2>4, <2>5, FoundKeeps
<1>4. CASE LastSessionFromToc
  <2>1. PICK ok \in May("toc") :
          IF ok /\ disc.toc # <<>>
          THEN start' = TocStart(disc.toc) /\ pc' = "candidates" /\ UNCHANGED scan
          ELSE start' = 0 /\ pc' = "scan" /\ scan' = VdOffset
    BY <1>4 DEF LastSessionFromToc
  <2>2. UNCHANGED <<given, starts>> /\ (disc.last = Null \/ FALSE \in May("query"))
    BY <1>4 DEF LastSessionFromToc
  <2>3. Answered => disc.last = Null /\ ok = TRUE
    BY <2>1, <2>2, MayAnswer
  <2>4. TocStart(disc.toc) \in 0..MaxLba
    BY DiscIs, StartIs
  <2>5. CASE ok /\ disc.toc # <<>>
    <3>1. Answered => start' >= LastSession
      BY <2>1, <2>3, <2>4, <2>5 DEF LastSession
    <3> QED BY <1>1, <2>1, <2>2, <2>4, <2>5, <3>1, FoundKeeps
  <2>6. CASE ~(ok /\ disc.toc # <<>>)
    BY <1>1, <2>1, <2>2, <2>3, <2>6, FoundKeeps
  <2> QED BY <2>5, <2>6
<1> QED BY <1>2, <1>3, <1>4

\* The scan of descriptors.
LEMMA ScanKeeps ==
  ASSUME SessionInv, ScanDescriptors
  PROVE  SessionInv'
<1>1. /\ pc = "scan" /\ UNCHANGED <<given, starts>> /\ scan \in 0..MaxLba /\ start \in 0..MaxLba
      /\ Answered => disc.last = Null /\ disc.toc = <<>>
  BY DEF ScanDescriptors, SessionInv
<1>2. PICK ok \in May("read") :
        IF ~ok \/ ScanEnds(scan)
        THEN pc' = "candidates" /\ UNCHANGED <<scan, start>>
        ELSE /\ start' = (IF scan - VdOffset > start \/ start = 0 THEN scan - VdOffset ELSE start)
             /\ IF disc.pvd[scan - VdOffset] > 0 /\ NextDescriptor(scan - VdOffset) < disc.total
                THEN scan' = NextDescriptor(scan - VdOffset) /\ UNCHANGED pc
                ELSE pc' = "candidates" /\ UNCHANGED scan
  BY DEF ScanDescriptors
<1>3. Answered => LastSession = 0
  BY <1>1 DEF LastSession, TocStart
<1>4. ASSUME ~ScanEnds(scan)
      PROVE  scan - VdOffset \in 0..MaxLba /\ NextDescriptor(scan - VdOffset) \in 0..MaxLba
  <2>1. scan - VdOffset \in DOMAIN disc.pvd
    BY <1>4 DEF ScanEnds
  <2>2. scan - VdOffset \in 0..MaxLba /\ disc.pvd[scan - VdOffset] \in 0..MaxLba
    BY <2>1, DiscIs
  <2>3. \A x, y \in Nat : Plus(x, y) \in 0..MaxLba
    BY MountAssumption DEF Plus
  <2>4. VdOffset \in Nat /\ scan - VdOffset \in Nat /\ disc.pvd[scan - VdOffset] \in Nat
    BY <2>2, MountAssumption
  <2>5. Plus(scan - VdOffset, disc.pvd[scan - VdOffset]) \in Nat
    <3>1. \A x \in 0..MaxLba : x \in Nat
      OBVIOUS
    <3> QED BY <2>3, <2>4, <3>1, Zenon
  <2> QED BY <2>2, <2>3, <2>4, <2>5 DEF NextDescriptor
<1>5. /\ start' \in 0..MaxLba /\ scan' \in 0..MaxLba /\ pc' \in {"scan", "candidates"}
  BY <1>1, <1>2, <1>4
<1>6. Answered => start' >= LastSession
  BY <1>3, <1>5
<1> QED BY <1>1, <1>5, <1>6, FoundKeeps

\* The list of places.
LEMMA BuildIs ==
  ASSUME SessionInv, BuildCandidates
  PROVE  /\ starts' \in Seq(0..MaxLba) /\ Len(starts') \in 1..MaxStarts
         /\ Answered /\ opts.session < 0 => starts' = Candidates(start, disc.toc)
<1>1. PICK ok \in May("toc") :
        starts' = IF opts.session >= 0 THEN <<start>>
                  ELSE Candidates(start, IF ok THEN disc.toc ELSE <<>>)
  BY DEF BuildCandidates
<1>2. start \in 0..MaxLba /\ (IF ok THEN disc.toc ELSE <<>>) \in Seq(Tracks)
      /\ MaxStarts \in Nat \ {0} /\ opts.session \in Int
  BY DiscIs DEF SessionInv
<1>3. CASE opts.session >= 0
  <2>1. starts' = <<start>>
    BY <1>1, <1>3
  <2>2. <<start>> \in Seq(0..MaxLba) /\ Len(<<start>>) = 1
    BY <1>2
  <2> QED BY <1>2, <1>3, <2>1, <2>2
<1>4. CASE opts.session < 0
  <2>1. starts' = Candidates(start, IF ok THEN disc.toc ELSE <<>>)
    BY <1>1, <1>2, <1>4
  <2>2. Answered => ok = TRUE
    BY <1>1, MayAnswer
  <2>3. CandidatesRight(starts', start, IF ok THEN disc.toc ELSE <<>>)
    BY <1>2, <2>1, CandidatesAre, Zenon
  <2>4. starts' \in Seq(0..MaxLba) /\ Len(starts') \in 1..MaxStarts
    BY <2>3, Zenon DEF CandidatesRight
  <2> QED BY <2>1, <2>2, <2>4
<1> QED BY <1>2, <1>3, <1>4

LEMMA BuildKeeps ==
  ASSUME SessionInv, BuildCandidates
  PROVE  SessionInv'
<1>1. pc' = "next" /\ UNCHANGED <<given, scan, start>> /\ pc' \in PcStates
  BY DEF BuildCandidates, PcStates
<1>2. Len(starts') <= MaxStarts /\ starts' \in Seq(0..MaxLba)
  BY BuildIs, MountAssumption
<1> QED BY <1>1, <1>2 DEF SessionInv, given

LEMMA TryNextKeeps ==
  ASSUME SessionInv, TryNext
  PROVE  SessionInv'
<1>1. UNCHANGED <<given, scan>> /\ pc' \in {"failed", "probe"} /\ pc' \in PcStates
  BY DEF TryNext, PcStates
<1>2. CASE starts = <<>>
  BY <1>1, <1>2 DEF TryNext, SessionInv, given
<1>3. CASE starts # <<>>
  <2>1. start' = Head(starts) /\ starts' = Tail(starts)
    BY <1>3 DEF TryNext, OthersLeft
  <2>2. starts \in Seq(0..MaxLba) /\ Len(starts) <= MaxStarts /\ MaxStarts \in Nat
    BY MountAssumption DEF SessionInv
  <2>3. Head(starts) \in 0..MaxLba /\ Tail(starts) \in Seq(0..MaxLba) /\ Len(Tail(starts)) = Len(starts) - 1
    BY <1>3, <2>2, HeadTailProperties
  <2>4. Len(starts') <= MaxStarts
    BY <2>1, <2>2, <2>3
  <2> QED BY <1>1, <2>1, <2>3, <2>4 DEF SessionInv, given
<1> QED BY <1>2, <1>3

LEMMA SessionStep ==
  ASSUME SessionInv, [Next]_vars
  PROVE  SessionInv'
<1>1. CASE UNCHANGED vars
  BY <1>1, SessionKept DEF vars, search, SessionInv
<1>2. CASE FindSession \/ TryNext
  BY <1>2, FindKeeps, ScanKeeps, BuildKeeps, TryNextKeeps DEF FindSession
<1>3. CASE EnterMount \/ Probe \/ Ladder \/ NothingHere \/ MountChosen \/ Register
           \/ RegisterCdda \/ FinishPureAudioMount \/ Unmount
  <2>1. UNCHANGED <<given, scan, start, starts>>
    BY <1>3 DEF EnterMount, Probe, Ladder, Rung, MountIso, NothingHere, MountChosen, Register,
       RegisterCdda, FinishPureAudioMount, Unmount, search
  <2>2. pc' \in PcStates /\ (pc' = pc \/ pc' \notin {"scan", "candidates"})
    BY <1>3 DEF EnterMount, Probe, Ladder, Rung, MountIso, NothingHere, MountChosen, Register,
       RegisterCdda, FinishPureAudioMount, Unmount, PcStates, SessionInv
  <2> QED BY <2>1, <2>2, SessionKept
<1> QED BY <1>1, <1>2, <1>3 DEF Next, Mount

LEMMA SessionInvariant == Spec => []SessionInv
<1>1. Init => SessionInv
  <2> SUFFICES ASSUME Init PROVE SessionInv
    OBVIOUS
  <2>1. <<>> \in Seq(0..MaxLba) /\ Len(<<>>) <= MaxStarts /\ 0 \in 0..MaxLba
    BY MountAssumption
  <2> QED BY <2>1 DEF Init, SessionInv, PcStates
<1>2. SessionInv /\ [Next]_vars => SessionInv'
  BY SessionStep
<1> QED BY <1>1, <1>2, PTL DEF Spec

\* Every variable stays in its range: sector numbers in their width whatever the
\* descriptors say, and the places to try in their array however many tracks the
\* table of contents has (session_candidates of odfs_mount).
THEOREM TypeCorrect == Spec => []TypeOK
<1>1. SessionInv /\ ContextInv => TypeOK
  BY DEF SessionInv, ContextInv, BackendTypes, TypeOK
<1> QED BY <1>1, SessionInvariant, ContextInvariant, PTL

\* The discs of LastSessionFirst: the table of contents lists tracks in the order
\* of their places, and the array of places, which has one more than a disc has
\* tracks, has room: for place 0 too, unless a data track is there.
TracksInOrder ==
  \A d \in Discs :
    /\ \A i, j \in DOMAIN d.toc : i < j => d.toc[i].start <= d.toc[j].start
    /\ Len(d.toc) < MaxStarts
    /\ Len(d.toc) + 1 < MaxStarts \/ \E i \in DOMAIN d.toc : d.toc[i].data /\ d.toc[i].start = 0

\* On every such disc all data tracks and place 0 are tried, those of the last
\* session before all others, wherever the device says that it begins.
THEOREM LastSessionCorrect ==
  ASSUME TracksInOrder
  PROVE  Spec => LastSessionFirst
<1>1. ASSUME SessionInv, [Next]_vars, pc = "candidates", opts.session < 0, Answered, ~UNCHANGED vars
      PROVE  /\ {t.start : t \in {u \in ToSet(disc.toc) : u.data}} \cup {0} \subseteq ToSet(starts')
             /\ \A i, j \in DOMAIN starts' :
                  i < j /\ starts'[i] < LastSession => starts'[j] < LastSession
  <2>1. BuildCandidates
    BY <1>1 DEF Next, Mount, EnterMount, FindSession, ForcedSession, QueryLastSession, LastSessionFromToc,
       ScanDescriptors, TryNext, Probe, Ladder, Rung, MountIso, NothingHere, MountChosen,
       Register, RegisterCdda, FinishPureAudioMount, Unmount
  <2> DEFINE c == Candidates(start, disc.toc)
  <2>2. starts' = c
    BY <1>1, <2>1, BuildIs
  <2>3. /\ start \in 0..MaxLba /\ start >= LastSession /\ disc \in Discs /\ disc.toc \in Seq(Tracks)
        /\ LastSession \in 0..MaxLba
    <3>1. disc.toc \in Seq(Tracks) /\ disc.last \in (0..MaxLba) \cup {Null}
      BY <1>1, DiscIs
    <3>2. TocStart(disc.toc) \in 0..MaxLba
      BY <3>1, StartIs
    <3> QED BY <1>1, <3>1, <3>2 DEF SessionInv, LastSession
  <2>4. /\ \A i, j \in DOMAIN disc.toc : i < j => disc.toc[i].start <= disc.toc[j].start
        /\ Len(disc.toc) < MaxStarts
        /\ \/ Len(disc.toc) + 1 < MaxStarts
           \/ \E i \in DOMAIN disc.toc : disc.toc[i].data /\ disc.toc[i].start = 0
    BY <2>3 DEF TracksInOrder
  <2> HIDE DEF c
  <2>5. /\ c \in Seq(0..MaxLba) /\ Len(c) \in 1..MaxStarts /\ c[1] = start
        /\ \A j \in DOMAIN disc.toc : disc.toc[j].data => \E k \in DOMAIN c : c[k] = disc.toc[j].start
        /\ \E k \in DOMAIN c : c[k] = 0
        /\ \A k, l \in 2..Len(c) : k < l => c[k] >= c[l]
    <3>1. c = Candidates(start, disc.toc)
      BY DEF c
    <3>2. /\ c \in Seq(0..MaxLba) /\ Len(c) \in 1..MaxStarts /\ c[1] = start
          /\ Len(disc.toc) < MaxStarts =>
               \A j \in DOMAIN disc.toc : disc.toc[j].data => \E k \in DOMAIN c : c[k] = disc.toc[j].start
          /\ Len(disc.toc) + 1 < MaxStarts => \E k \in DOMAIN c : c[k] = 0
          /\ (\A i, j \in DOMAIN disc.toc : i < j => disc.toc[i].start <= disc.toc[j].start) =>
               \A k, l \in 2..Len(c) : k < l => c[k] >= c[l]
      <4>1. start \in 0..MaxLba /\ disc.toc \in Seq(Tracks)
        BY <2>3, Zenon
      <4>2. CandidatesRight(c, start, disc.toc)
        BY <4>1, <3>1, CandidatesAre, Zenon
      <4> QED BY <4>2, Zenon DEF CandidatesRight
    <3>3. \A j \in DOMAIN disc.toc : disc.toc[j].data => \E k \in DOMAIN c : c[k] = disc.toc[j].start
      BY <2>4, <3>2, Zenon
    <3>4. \A k, l \in 2..Len(c) : k < l => c[k] >= c[l]
      BY <2>4, <3>2, Zenon
    <3>5. \E k \in DOMAIN c : c[k] = 0
      <4>1. CASE Len(disc.toc) + 1 < MaxStarts
        BY <3>2, <4>1, Zenon
      <4>2. CASE \E i \in DOMAIN disc.toc : disc.toc[i].data /\ disc.toc[i].start = 0
        <5>1. PICK i \in DOMAIN disc.toc : disc.toc[i].data /\ disc.toc[i].start = 0
          BY <4>2, Zenon
        <5>2. PICK k \in DOMAIN c : c[k] = disc.toc[i].start
          BY <3>3, <5>1, Zenon
        <5> QED BY <5>1, <5>2, Zenon
      <4> QED BY <2>4, <4>1, <4>2, Zenon
    <3> QED BY <3>2, <3>3, <3>4, <3>5, Zenon
  <2>6. {t.start : t \in {u \in ToSet(disc.toc) : u.data}} \cup {0} \subseteq ToSet(c)
    <3>1. \A t \in ToSet(disc.toc) : \E j \in DOMAIN disc.toc : t = disc.toc[j]
      BY DEF ToSet
    <3>2. \A k \in DOMAIN c : c[k] \in ToSet(c)
      BY DEF ToSet
    <3> QED BY <2>5, <3>1, <3>2
  <2>7. ASSUME NEW i \in DOMAIN c, NEW j \in DOMAIN c, i < j, c[i] < LastSession
        PROVE  c[j] < LastSession
    <3>1. DOMAIN c = 1..Len(c) /\ Len(c) \in Nat /\ \A k \in DOMAIN c : c[k] \in Nat
      <4>1. c \in Seq(0..MaxLba) /\ DOMAIN c = 1..Len(c) /\ Len(c) \in Nat
        BY <2>5
      <4>2. \A k \in 1..Len(c) : c[k] \in 0..MaxLba
        BY <4>1, ElementOfSeq
      <4> QED BY <4>1, <4>2
    <3>2. i # 1
      BY <2>3, <2>5, <2>7
    <3>3. i \in 2..Len(c) /\ j \in 2..Len(c)
      BY <2>7, <3>1, <3>2
    <3>4. c[i] >= c[j]
      BY <2>5, <2>7, <3>3
    <3> QED BY <2>3, <2>7, <3>1, <3>4
  <2> QED BY <2>2, <2>6, <2>7
<1>2. SessionInv /\ [Next]_vars =>
        [pc = "candidates" /\ opts.session < 0 /\ disc.fails \cap {"query", "toc"} = {} =>
          /\ {t.start : t \in {u \in ToSet(disc.toc) : u.data}} \cup {0} \subseteq ToSet(starts')
          /\ \A i, j \in DOMAIN starts' :
               i < j /\ starts'[i] < LastSession => starts'[j] < LastSession]_vars
  BY <1>1 DEF Answered
<1> QED BY <1>2, SessionInvariant, PTL DEF LastSessionFirst, Spec
=============================================================================
