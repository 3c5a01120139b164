------------------------ MODULE HandlerVolumesProofs ------------------------
(***************************************************************************)
(* Proofs that the handler's volume bookkeeping is right for every number  *)
(* of discs, clients, handles and addresses, whichever services fail.      *)
(*                                                                         *)
(* The safety invariants are not inductive one by one: that a release      *)
(* finds the right count needs exact reference counts, these need packets  *)
(* to refer to existing and distinct objects, and that a reused address is *)
(* never mistaken for the volume that was there needs that only addresses  *)
(* without objects are ever freed.  IndInv is their conjunction.           *)
(***************************************************************************)
EXTENDS HandlerVolumes, FiniteSetTheorems, TLAPS

\* What IndInv says beyond types is about these variables (and mounted, pc).
core == <<live, listed, active, count, volId, nextId, dosList, current, held, heldId, req>>

MountPcs == {"toc", "fs", "audio", "node"}

-----------------------------------------------------------------------------
(* Reference counts.                                                       *)

\* The holders of a volume are finitely many.
LEMMA HoldersFinite == \A a : IsFiniteSet(Holders(a)) /\ Cardinality(Holders(a)) \in Nat
<1> SUFFICES ASSUME NEW a
             PROVE  IsFiniteSet(Holders(a)) /\ Cardinality(Holders(a)) \in Nat
  OBVIOUS
<1>1. Holders(a) \subseteq Handles
  BY DEF Holders
<1> QED
  BY <1>1, FiniteAssumption, FS_Subset, FS_CardinalityType

\* A new object in a free slot adds one holder to its volume and to no other.
LEMMA HolderAdded ==
  ASSUME TypeOK, NEW h \in Handles, held[h] = Null, NEW v \in Addrs,
         held' = [held EXCEPT ![h] = v], NEW a \in Addrs
  PROVE  Cardinality(Holders(a)') =
           IF a = v THEN Cardinality(Holders(a)) + 1 ELSE Cardinality(Holders(a))
<1>1. CASE a = v
  <2>1. Holders(a)' = Holders(a) \cup {h}
    BY <1>1 DEF Holders, TypeOK
  <2>2. h \notin Holders(a)
    BY NullAssumption DEF Holders
  <2> QED
    BY <1>1, <2>1, <2>2, HoldersFinite, FS_AddElement
<1>2. CASE a # v
  <2>1. Holders(a)' = Holders(a)
    BY <1>2, NullAssumption DEF Holders, TypeOK
  <2> QED
    BY <1>2, <2>1
<1> QED
  BY <1>1, <1>2

\* A released object takes one holder from its volume and from no other.
LEMMA HolderRemoved ==
  ASSUME TypeOK, NEW h \in Handles, held[h] # Null,
         held' = [held EXCEPT ![h] = Null], NEW a \in Addrs
  PROVE  Cardinality(Holders(a)') =
           IF a = held[h] THEN Cardinality(Holders(a)) - 1 ELSE Cardinality(Holders(a))
<1>1. CASE a = held[h]
  <2>1. Holders(a)' = Holders(a) \ {h}
    BY <1>1, NullAssumption DEF Holders, TypeOK
  <2>2. h \in Holders(a)
    BY <1>1 DEF Holders
  <2> QED
    BY <1>1, <2>1, <2>2, HoldersFinite, FS_RemoveElement
<1>2. CASE a # held[h]
  <2>1. Holders(a)' = Holders(a)
    BY <1>2, NullAssumption DEF Holders, TypeOK
  <2> QED
    BY <1>2, <2>1
<1> QED
  BY <1>1, <1>2

\* A volume without references is held by nobody.
LEMMA NoHolders ==
  ASSUME TypeOK, CountsExact, NEW a \in Addrs, count[a] = 0
  PROVE  \A h \in Handles : held[h] # a
<1>1. Cardinality(Holders(a)) = 0
  BY DEF CountsExact
<1>2. Holders(a) = {}
  BY <1>1, HoldersFinite, FS_EmptySet
<1> QED
  BY <1>2 DEF Holders

\* A step that leaves the volumes and the objects alone preserves IndInv.
LEMMA CoreUnchanged ==
  ASSUME IndInv, TypeOK', UNCHANGED core,
         current # Null => mounted', pc' \in MountPcs => current = Null,
         pc' = "node" => mounted'
  PROVE  IndInv'
<1> USE DEF core
<1>1. VolumesWellFormed'
  BY DEF IndInv, VolumesWellFormed, MountPcs
<1>2. IdsUnique' /\ OnlyCurrentActive'
  BY DEF IndInv, IdsUnique, OnlyCurrentActive
<1>3. RequestsWellFormed'
  BY DEF IndInv, RequestsWellFormed
<1>4. CountsExact' /\ NoAliasing'
  BY DEF IndInv, CountsExact, NoAliasing, Holders
<1> QED
  BY <1>1, <1>2, <1>3, <1>4 DEF IndInv

-----------------------------------------------------------------------------
(* Volumes that go away.                                                   *)

\* Destroying stale volumes touches no other volume, whichever of them DOS
\* refuses to let go.
LEMMA StaleDestroyed ==
  ASSUME TypeOK, VolumesWellFormed, IdsUnique, NEW D \in SUBSET live,
         NEW Stuck \in MayStick(D), DestroyStaleVolumes(D, Stuck), nextId' = nextId
  PROVE  /\ live' \subseteq live /\ live \ D \subseteq live'
         /\ listed' \subseteq live' /\ dosList' \subseteq Addrs
         /\ volId' \in [Addrs -> Nat] /\ \A a \in Addrs \ D : volId'[a] = volId[a]
         /\ IdsUnique'
         /\ ~ForeignLink => dosList' = listed'
<1> USE DEF DestroyStaleVolumes
<1>1. /\ live' \subseteq live /\ live \ D \subseteq live'
      /\ listed' \subseteq live' /\ dosList' \subseteq Addrs
  BY DEF VolumesWellFormed, TypeOK
<1>2. volId' \in [Addrs -> Nat] /\ \A a \in Addrs \ D : volId'[a] = volId[a]
  BY DEF TypeOK
<1>3. \A a \in live' : volId'[a] = volId[a]
  BY DEF TypeOK
<1>4. IdsUnique'
  BY <1>1, <1>3 DEF IdsUnique
<1>5. ~ForeignLink => dosList' = listed'
  BY DEF VolumesWellFormed
<1> QED
  BY <1>1, <1>2, <1>4, <1>5

\* unmount_volume() leaves a well-formed set of volumes and no current one.
LEMMA Unmounted ==
  ASSUME IndInv, UnmountVolume, UNCHANGED <<held, heldId>>, pc' # "node"
  PROVE  /\ current' = Null
         /\ VolumesWellFormed' /\ IdsUnique' /\ CountsExact' /\ NoAliasing' /\ OnlyCurrentActive'
         /\ live' \subseteq Addrs /\ listed' \subseteq Addrs /\ active' \subseteq Addrs
         /\ dosList' \subseteq Addrs /\ count' = count
         /\ volId' \in [Addrs -> Nat] /\ nextId' = nextId
         /\ mounted' \in BOOLEAN /\ hasCdda' \in BOOLEAN /\ cddaCtx' \in {"none", "live", "freed"}
         /\ mountMedia' \in Nat /\ mountedBy' \in {"none", "wait", "packets", "reply"}
         /\ timer' \in {"closed", "idle", "pending", "done"} /\ pubSig' \in BOOLEAN
         /\ workbench' \in {"none", "inserted", "removed"}
<1>1. CASE ~mounted
  <2>1. current = Null /\ UNCHANGED <<mount, volumes, timer, pubSig, workbench>>
    BY <1>1 DEF UnmountVolume, IndInv, VolumesWellFormed
  <2>2. VolumesWellFormed' /\ IdsUnique' /\ OnlyCurrentActive'
    BY <2>1 DEF IndInv, VolumesWellFormed, IdsUnique, OnlyCurrentActive, mount, volumes
  <2>3. CountsExact' /\ NoAliasing'
    BY <2>1 DEF IndInv, CountsExact, NoAliasing, Holders, mount, volumes
  <2> QED
    BY <1>1, <2>1, <2>2, <2>3 DEF IndInv, TypeOK, mount, volumes
<1>2. CASE mounted
  <2> DEFINE D == IF current # Null /\ count[current] = 0 THEN {current} ELSE {}
  <2>1. PICK Stuck \in MayStick(D) : DestroyStaleVolumes(D, Stuck)
    BY <1>2 DEF UnmountVolume
  <2>2. D \in SUBSET live /\ \A v \in D : count[v] = 0 /\ v \in Addrs
    BY DEF IndInv, VolumesWellFormed, TypeOK
  <2>3. /\ mounted' = FALSE /\ current' = Null /\ hasCdda' = FALSE /\ cddaCtx' = "none"
        /\ mountMedia' = 0 /\ mountedBy' = "none" /\ active' = active \ {current}
        /\ workbench' \in {workbench, "removed"} /\ count' = count /\ nextId' = nextId
    BY <1>2 DEF UnmountVolume, ForgetCdda, ClearTask
  <2>4. timer' \in {"closed", "idle", "pending", "done"} /\ pubSig' \in BOOLEAN
    BY <1>2 DEF UnmountVolume, CancelPublishRetry, IndInv, TypeOK
  <2>5. mounted' \in BOOLEAN /\ hasCdda' \in BOOLEAN
    BY <2>3, Zenon
  <2> HIDE DEF D
  <2>6. /\ live' \subseteq live /\ live \ D \subseteq live'
        /\ listed' \subseteq live' /\ dosList' \subseteq Addrs
        /\ volId' \in [Addrs -> Nat] /\ \A a \in Addrs \ D : volId'[a] = volId[a]
        /\ IdsUnique'
        /\ ~ForeignLink => dosList' = listed'
    BY <2>1, <2>2, <2>3, StaleDestroyed DEF IndInv
  <2>7. VolumesWellFormed'
    BY <2>3, <2>6 DEF VolumesWellFormed
  <2>8. OnlyCurrentActive'
    BY <2>3 DEF IndInv, OnlyCurrentActive
  <2>9. CountsExact'
    BY <2>3 DEF IndInv, CountsExact, Holders
  <2>10. NoAliasing'
    <3> SUFFICES ASSUME NEW h \in Handles, held[h] # Null
                 PROVE  held[h] \in live' /\ volId'[held[h]] = heldId[h]
      BY DEF NoAliasing
    <3>1. held[h] \in Addrs /\ held[h] \in live /\ volId[held[h]] = heldId[h]
      BY DEF IndInv, TypeOK, NoAliasing
    <3>2. held[h] \notin D
      BY <2>2, NoHolders DEF IndInv
    <3> QED
      BY <2>6, <3>1, <3>2
  <2> QED
    BY <2>3, <2>4, <2>5, <2>6, <2>7, <2>8, <2>9, <2>10 DEF IndInv, TypeOK
<1> QED
  BY <1>1, <1>2 DEF IndInv, TypeOK

\* Answering a packet leaves the others as they were.
LEMMA ReplyKeepsRequests ==
  ASSUME TypeOK, RequestsWellFormed, NEW c, Reply(c), UNCHANGED held
  PROVE  RequestsWellFormed' /\ req' \in [Clients -> Request \cup {Null}]
BY ZenonT(40) DEF TypeOK, RequestsWellFormed, Reply

-----------------------------------------------------------------------------
(* IndInv is preserved, one group of actions at a time.                    *)

\* The drive, the timer, DOS and the clients.
LEMMA EnvironmentPreserves == IndInv /\ Environment => IndInv'
<1> SUFFICES ASSUME IndInv, Environment
             PROVE  IndInv'
  OBVIOUS
<1> USE DEF device, signals, control, counter, volumes, mount, dos
<1>1. ASSUME NEW d \in Discs \cup {NoDisc}, MediumChanges(d)
      PROVE  IndInv'
  <2>1. UNCHANGED <<core, mounted, pc>>
    BY <1>1 DEF MediumChanges, core
  <2>2. media' \in Nat \ {0} /\ events' \in Nat
    BY <1>1 DEF MediumChanges, IndInv, TypeOK
  <2>3. lag' \in BOOLEAN /\ chgSig' \in BOOLEAN /\ disc' \in Discs \cup {NoDisc}
    BY <1>1, ConfigAssumption, Zenon DEF MediumChanges, IndInv, TypeOK
  <2>4. TypeOK'
    BY <1>1, <2>2, <2>3 DEF MediumChanges, IndInv, TypeOK
  <2> QED
    BY <2>1, <2>4, CoreUnchanged DEF IndInv, VolumesWellFormed, MountPcs
<1>2. CASE CounterCatchesUp
  <2>1. lag' \in BOOLEAN
    BY <1>2, Zenon DEF CounterCatchesUp
  <2>2. TypeOK'
    BY <1>2, <2>1 DEF CounterCatchesUp, IndInv, TypeOK
  <2> QED
    BY <1>2, <2>2, CoreUnchanged DEF CounterCatchesUp, core, IndInv, VolumesWellFormed, MountPcs
<1>3. CASE StrayInterrupt
  <2>1. TypeOK'
    BY <1>3 DEF StrayInterrupt, IndInv, TypeOK
  <2> QED
    BY <1>3, <2>1, CoreUnchanged DEF StrayInterrupt, core, IndInv, VolumesWellFormed, MountPcs
<1>4. CASE TimerFires
  <2>1. TypeOK'
    BY <1>4 DEF TimerFires, IndInv, TypeOK
  <2> QED
    BY <1>4, <2>1, CoreUnchanged DEF TimerFires, core, IndInv, VolumesWellFormed, MountPcs
<1>5. CASE ForeignAddDosEntry
  <2>1. TypeOK'
    BY <1>5 DEF ForeignAddDosEntry, IndInv, TypeOK
  <2>2. VolumesWellFormed' /\ IdsUnique' /\ OnlyCurrentActive'
    BY <1>5 DEF ForeignAddDosEntry, IndInv, VolumesWellFormed, IdsUnique, OnlyCurrentActive
  <2>3. RequestsWellFormed'
    BY <1>5 DEF ForeignAddDosEntry, IndInv, RequestsWellFormed
  <2>4. CountsExact' /\ NoAliasing'
    BY <1>5 DEF ForeignAddDosEntry, IndInv, CountsExact, NoAliasing, Holders
  <2> QED
    BY <2>1, <2>2, <2>3, <2>4 DEF IndInv
<1>6. ASSUME NEW c \in Clients, NEW op \in Ops, Send(c, op)
      PROVE  IndInv'
  <2>1. PICK src \in Handles \cup {Null}, dst \in Handles \cup {Null} :
          /\ src # Null => src \notin Busy /\ held[src] # Null
          /\ dst # Null => dst \notin Busy /\ held[dst] = Null
          /\ (dst # Null) <=> op \in {"locate", "dup"}
          /\ op \in {"use", "free"} => src # Null
          /\ req' = [req EXCEPT ![c] = [op |-> op, src |-> src, dst |-> dst]]
    BY <1>6 DEF Send
  <2>2. [op |-> op, src |-> src, dst |-> dst] \in Request
    BY ConfigAssumption DEF Request
  <2>3. [op |-> op, src |-> src, dst |-> dst] # Null \/ req'[c] = Null
    BY <2>1 DEF IndInv, TypeOK
  <2>4. \A d \in Clients : req[d] # Null => {req[d].src, req[d].dst} \subseteq Busy
    BY DEF Busy
  <2>5. /\ held' = held /\ heldId' = heldId /\ UNCHANGED <<volumes, mount, pc>>
        /\ events' \in Nat /\ dosSig' = TRUE /\ port' \in Seq(Clients)
        /\ UNCHANGED <<disc, media, lag, chgSig, pubSig, control, counter, inhibited,
                       timer, workbench>>
    BY <1>6 DEF Send, IndInv, TypeOK
  <2>6. TypeOK'
    BY <2>1, <2>2, <2>5 DEF IndInv, TypeOK
  <2>7. RequestsWellFormed'
    <3> SUFFICES ASSUME NEW b \in Clients, req'[b] # Null
                 PROVE  /\ req'[b].src # Null => held[req'[b].src] # Null
                        /\ req'[b].dst # Null => held[req'[b].dst] = Null
                        /\ req'[b].op \in {"locate", "dup"} => req'[b].dst # Null
                        /\ req'[b].op = "free" => req'[b].src # Null
                        /\ \A d \in Clients \ {b} : req'[d] # Null =>
                             /\ req'[b].src # Null => req'[b].src # req'[d].src
                             /\ req'[b].dst # Null => req'[b].dst # req'[d].dst
      BY <2>5 DEF RequestsWellFormed
    <3>1. \A d \in Clients : d # c => req'[d] = req[d]
      BY <2>1 DEF IndInv, TypeOK
    <3>2. req'[c].op = op /\ req'[c].src = src /\ req'[c].dst = dst
      BY <2>1 DEF IndInv, TypeOK
    <3> QED
      BY <2>1, <2>4, <3>1, <3>2 DEF IndInv, RequestsWellFormed
  <2>8. VolumesWellFormed' /\ IdsUnique' /\ OnlyCurrentActive'
    BY <2>5 DEF IndInv, VolumesWellFormed, IdsUnique, OnlyCurrentActive
  <2>9. CountsExact' /\ NoAliasing'
    BY <2>5 DEF IndInv, CountsExact, NoAliasing, Holders
  <2> QED
    BY <2>6, <2>7, <2>8, <2>9 DEF IndInv
<1> QED
  BY <1>1, <1>2, <1>3, <1>4, <1>5, <1>6 DEF Environment, Insert, Eject

\* mount_volume().
LEMMA MountPreserves == IndInv /\ MountVolume => IndInv'
<1> SUFFICES ASSUME IndInv, MountVolume
             PROVE  IndInv'
  OBVIOUS
<1> USE DEF device, signals, control, counter, volumes, mount, dos, MountReturns
<1>1. CASE MountPresence
  <2>1. UNCHANGED core
    BY <1>1 DEF MountPresence, core
  <2>2. TypeOK'
    BY <1>1 DEF MountPresence, IndInv, TypeOK, PcStates
  <2>3. /\ current # Null => mounted'
        /\ pc' \in MountPcs => current = Null
        /\ pc' = "node" => mounted'
    BY <1>1 DEF MountPresence, IndInv, TypeOK, VolumesWellFormed, MountPcs
  <2> QED
    BY <2>1, <2>2, <2>3, CoreUnchanged
<1>2. CASE MountToc
  <2>1. UNCHANGED core
    BY <1>2 DEF MountToc, core
  <2>2. mounted' \in BOOLEAN /\ hasCdda' \in BOOLEAN
    BY <1>2, Zenon DEF MountToc, IndInv, TypeOK, Mounts, FindsAudio
  <2>3. TypeOK'
    BY <1>2, <2>2 DEF MountToc, IndInv, TypeOK, PcStates, Mounts, FindsAudio
  <2>4. /\ current # Null => mounted'
        /\ pc' \in MountPcs => current = Null
        /\ pc' = "node" => mounted'
    BY <1>2 DEF MountToc, IndInv, TypeOK, VolumesWellFormed, MountPcs, Mounts, FindsAudio
  <2> QED
    BY <2>1, <2>3, <2>4, CoreUnchanged
<1>3. CASE MountFilesystem
  <2>1. UNCHANGED core
    BY <1>3 DEF MountFilesystem, core
  <2>2. mounted' \in BOOLEAN
    BY <1>3, Zenon DEF MountFilesystem, IndInv, TypeOK, Mounts
  <2>3. TypeOK'
    BY <1>3, <2>2 DEF MountFilesystem, IndInv, TypeOK, PcStates, Mounts
  <2>4. /\ current # Null => mounted'
        /\ pc' \in MountPcs => current = Null
        /\ pc' = "node" => mounted'
    BY <1>3 DEF MountFilesystem, IndInv, TypeOK, VolumesWellFormed, MountPcs, Mounts
  <2> QED
    BY <2>1, <2>3, <2>4, CoreUnchanged
<1>4. CASE MountAudio
  <2>1. UNCHANGED core
    BY <1>4 DEF MountAudio, core
  <2>2. mounted' \in BOOLEAN /\ hasCdda' \in BOOLEAN
    BY <1>4, Zenon DEF MountAudio, IndInv, TypeOK, Mounts, FindsAudio
  <2>3. TypeOK'
    BY <1>4, <2>2 DEF MountAudio, IndInv, TypeOK, PcStates, Mounts, FindsAudio
  <2>4. /\ current # Null => mounted'
        /\ pc' \in MountPcs => current = Null
        /\ pc' = "node" => mounted'
    BY <1>4 DEF MountAudio, IndInv, TypeOK, VolumesWellFormed, MountPcs, Mounts, FindsAudio
  <2> QED
    BY <2>1, <2>3, <2>4, CoreUnchanged
<1>5. CASE MountWithoutNode
  <2>1. UNCHANGED core
    BY <1>5 DEF MountWithoutNode, core
  <2>2. TypeOK'
    BY <1>5 DEF MountWithoutNode, IndInv, TypeOK, PcStates
  <2>3. /\ current # Null => mounted'
        /\ pc' \in MountPcs => current = Null
        /\ pc' = "node" => mounted'
    BY <1>5 DEF MountWithoutNode, IndInv, TypeOK, VolumesWellFormed, MountPcs
  <2> QED
    BY <2>1, <2>2, <2>3, CoreUnchanged
<1>6. CASE MountWithoutVolume
  <2>1. UNCHANGED core
    BY <1>6 DEF MountWithoutVolume, core
  <2>2. mounted' \in BOOLEAN
    BY <1>6, Zenon DEF MountWithoutVolume, IndInv, TypeOK
  <2>3. TypeOK'
    BY <1>6, <2>2 DEF MountWithoutVolume, IndInv, TypeOK, PcStates
  <2>4. /\ current # Null => mounted'
        /\ pc' \in MountPcs => current = Null
        /\ pc' = "node" => mounted'
    BY <1>6 DEF MountWithoutVolume, IndInv, TypeOK, VolumesWellFormed, MountPcs
  <2> QED
    BY <2>1, <2>3, <2>4, CoreUnchanged
<1>7. CASE MountVolumeNode
  <2>1. PICK v \in Addrs \ live, ok \in May("doslist") :
          /\ current' = v /\ live' = live \cup {v} /\ active' = active \cup {v}
          /\ volId' = [volId EXCEPT ![v] = nextId] /\ nextId' = nextId + 1
          /\ PublishVolumeNode(v, ok)
          /\ IF ok THEN workbench' = "inserted" /\ UNCHANGED timer
                   ELSE SchedulePublishRetry /\ UNCHANGED workbench
    BY <1>7 DEF MountVolumeNode
  <2>2. /\ pc = "node" /\ pc' = ret /\ current = Null /\ v # Null
        /\ UNCHANGED <<count, held, heldId, req, mounted>>
    BY <1>7, NullAssumption DEF MountVolumeNode, IndInv, VolumesWellFormed
  <2>3. timer' \in {"closed", "idle", "pending", "done"}
        /\ workbench' \in {"none", "inserted", "removed"}
    BY <2>1 DEF SchedulePublishRetry, IndInv, TypeOK
  <2>4. listed' \subseteq Addrs /\ dosList' \subseteq Addrs /\ listed' \subseteq live'
        /\ (~ForeignLink => dosList' = listed')
    BY <2>1 DEF PublishVolumeNode, IndInv, TypeOK, VolumesWellFormed
  <2>5. TypeOK'
    BY <1>7, <2>1, <2>2, <2>3, <2>4 DEF MountVolumeNode, IndInv, TypeOK, PcStates
  <2>6. mounted
    BY <1>7 DEF MountVolumeNode, IndInv, VolumesWellFormed
  <2>7. VolumesWellFormed' /\ OnlyCurrentActive'
    BY <2>1, <2>2, <2>4, <2>6 DEF IndInv, TypeOK, VolumesWellFormed, OnlyCurrentActive
  <2>8. IdsUnique'
    BY <2>1 DEF IndInv, TypeOK, IdsUnique
  <2>9. RequestsWellFormed' /\ CountsExact'
    BY <2>2 DEF IndInv, RequestsWellFormed, CountsExact, Holders
  <2>10. NoAliasing'
    BY <2>1, <2>2 DEF IndInv, TypeOK, NoAliasing
  <2> QED
    BY <2>5, <2>7, <2>8, <2>9, <2>10 DEF IndInv
<1> QED
  BY <1>1, <1>2, <1>3, <1>4, <1>5, <1>6, <1>7 DEF MountVolume

\* The main loop around the packets: start, wait, media change, publish retry, exit.
LEMMA LoopPreserves ==
  ASSUME IndInv,
         \/ InstallMediaChange \/ Wait \/ SkipMediaChange \/ QueryChangeCount
         \/ QueryChangeState \/ NoMorePackets \/ SkipPublish
         \/ (\E ok \in May("doslist") : RetryPublish(ok)) \/ Exit
  PROVE  IndInv'
<1> USE DEF device, signals, control, counter, volumes, mount, dos
<1>1. CASE InstallMediaChange
  <2>1. UNCHANGED <<core, mounted>>
    BY <1>1 DEF InstallMediaChange, core
  <2>2. chgInstalled' \in BOOLEAN
    BY <1>1, Zenon DEF InstallMediaChange, May
  <2>3. changeCount' \in Nat \cup {Null}
    BY <1>1 DEF InstallMediaChange, PrimedCount, IndInv, TypeOK, ChangeNum
  <2>4. TypeOK'
    BY <1>1, <2>2, <2>3 DEF InstallMediaChange, IndInv, TypeOK, PcStates
  <2>5. pc' \notin MountPcs
    BY <1>1 DEF InstallMediaChange, MountPcs
  <2> QED
    BY <2>1, <2>4, <2>5, CoreUnchanged DEF IndInv, VolumesWellFormed, MountPcs
<1>2. CASE Wait
  <2>1. UNCHANGED <<core, mounted>>
    BY <1>2 DEF Wait, core
  <2>2. chgSig' \in BOOLEAN /\ dosSig' \in BOOLEAN /\ pubSig' \in BOOLEAN
    BY <1>2, Zenon DEF Wait, IndInv, TypeOK
  <2>3. TypeOK'
    BY <1>2, <2>2 DEF Wait, IndInv, TypeOK, PcStates
  <2>4. pc' \notin MountPcs
    BY <1>2 DEF Wait, MountPcs
  <2> QED
    BY <2>1, <2>3, <2>4, CoreUnchanged DEF IndInv, VolumesWellFormed, MountPcs
<1>3. CASE SkipMediaChange
  <2>1. UNCHANGED <<core, mounted>>
    BY <1>3 DEF SkipMediaChange, core
  <2>2. TypeOK'
    BY <1>3 DEF SkipMediaChange, IndInv, TypeOK, PcStates
  <2>3. pc' \notin MountPcs
    BY <1>3 DEF SkipMediaChange, MountPcs
  <2> QED
    BY <2>1, <2>2, <2>3, CoreUnchanged DEF IndInv, VolumesWellFormed, MountPcs
<1>4. CASE QueryChangeCount
  <2>1. UNCHANGED <<core, mounted>>
    BY <1>4 DEF QueryChangeCount, core
  <2>2. countMoved' \in BOOLEAN
    BY <1>4, Zenon DEF QueryChangeCount, IndInv, TypeOK
  <2>3. changeCount' \in Nat \cup {Null}
    BY <1>4 DEF QueryChangeCount, IndInv, TypeOK, ChangeNum
  <2>4. TypeOK'
    BY <1>4, <2>2, <2>3 DEF QueryChangeCount, IndInv, TypeOK, PcStates
  <2>5. pc' \notin MountPcs
    BY <1>4 DEF QueryChangeCount, MountPcs
  <2> QED
    BY <2>1, <2>4, <2>5, CoreUnchanged DEF IndInv, VolumesWellFormed, MountPcs
<1>5. CASE NoMorePackets
  <2>1. UNCHANGED <<core, mounted>>
    BY <1>5 DEF NoMorePackets, core
  <2>2. TypeOK'
    BY <1>5 DEF NoMorePackets, IndInv, TypeOK, PcStates
  <2>3. pc' \notin MountPcs
    BY <1>5 DEF NoMorePackets, MountPcs
  <2> QED
    BY <2>1, <2>2, <2>3, CoreUnchanged DEF IndInv, VolumesWellFormed, MountPcs
<1>6. CASE SkipPublish
  <2>1. UNCHANGED <<core, mounted>>
    BY <1>6 DEF SkipPublish, LoopTurns, core
  <2>2. TypeOK'
    BY <1>6 DEF SkipPublish, LoopTurns, IndInv, TypeOK, PcStates
  <2>3. pc' \notin MountPcs
    BY <1>6 DEF SkipPublish, LoopTurns, MountPcs
  <2> QED
    BY <2>1, <2>2, <2>3, CoreUnchanged DEF IndInv, VolumesWellFormed, MountPcs
<1>7. CASE Exit
  <2>1. UNCHANGED <<core, mounted>>
    BY <1>7 DEF Exit, core
  <2>2. TypeOK'
    BY <1>7 DEF Exit, IndInv, TypeOK, PcStates
  <2>3. pc' \notin MountPcs
    BY <1>7 DEF Exit, MountPcs
  <2> QED
    BY <2>1, <2>2, <2>3, CoreUnchanged DEF IndInv, VolumesWellFormed, MountPcs
<1>8. CASE QueryChangeState
  <2>1. /\ pc' \in {"packets", "presence"} /\ ret' \in {ret, "packets"}
        /\ UNCHANGED <<device, chgSig, dosSig, sigs, cur, counter, dos, inhibited>>
    BY <1>8 DEF QueryChangeState
  <2>2. countMoved' \in BOOLEAN
    BY <1>8, Zenon DEF QueryChangeState
  <2>3. CASE UNCHANGED <<ret, mount, volumes, timer, pubSig, workbench>>
    <3>1. TypeOK' /\ UNCHANGED <<core, mounted>>
      BY <2>1, <2>2, <2>3 DEF IndInv, TypeOK, core, PcStates
    <3> QED
      BY <2>1, <3>1, CoreUnchanged DEF IndInv, VolumesWellFormed, MountPcs
  <2>4. CASE UnmountVolume
    <3>1. pc' # "node" /\ UNCHANGED <<held, heldId, req>>
      BY <2>1
    <3>2. TypeOK'
      BY <2>1, <2>2, <2>4, <3>1, Unmounted DEF IndInv, TypeOK, PcStates
    <3>3. RequestsWellFormed'
      BY <3>1 DEF IndInv, RequestsWellFormed
    <3> QED
      BY <2>4, <3>1, <3>2, <3>3, Unmounted DEF IndInv
  <2> QED
    BY <1>8, <2>3, <2>4 DEF QueryChangeState
<1>9. ASSUME NEW ok \in May("doslist"), RetryPublish(ok)
      PROVE  IndInv'
  <2>1. /\ current # Null /\ PublishVolumeNode(current, ok)
        /\ timer' \in {"closed", "pending"} /\ workbench' \in {workbench, "inserted"}
        /\ pc' \in {"wait", "shutdown"} /\ sigs' = {}
        /\ UNCHANGED <<device, signals, ret, countMoved, cur, counter, live, active, count,
                       volId, nextId, mount, dos, inhibited>>
    BY <1>9 DEF RetryPublish, LoopTurns, PublishIdle, Published, RetryAgain
  <2>2. current \in live /\ current \in Addrs
    BY <2>1 DEF IndInv, VolumesWellFormed, TypeOK
  <2>3. listed' \subseteq live /\ dosList' \subseteq Addrs /\ (~ForeignLink => dosList' = listed')
    BY <2>1, <2>2 DEF PublishVolumeNode, IndInv, TypeOK, VolumesWellFormed
  <2>4. TypeOK'
    BY <2>1, <2>2, <2>3 DEF IndInv, TypeOK, PcStates
  <2>5. VolumesWellFormed' /\ IdsUnique' /\ OnlyCurrentActive'
    BY <2>1, <2>3 DEF IndInv, VolumesWellFormed, IdsUnique, OnlyCurrentActive
  <2>6. RequestsWellFormed'
    BY <2>1 DEF IndInv, RequestsWellFormed
  <2>7. CountsExact' /\ NoAliasing'
    BY <2>1 DEF IndInv, CountsExact, NoAliasing, Holders
  <2> QED
    BY <2>4, <2>5, <2>6, <2>7 DEF IndInv
<1> QED
  BY <1>1, <1>2, <1>3, <1>4, <1>5, <1>6, <1>7, <1>8, <1>9

\* A new object pins the volume it is made on.
LEMMA NewObjectPreserves ==
  ASSUME IndInv, NEW c \in Clients, NEW op \in {"locate", "dup"}, NewObject(c, op)
  PROVE  IndInv'
<1> USE DEF device, signals, control, counter, volumes, mount, dos
<1> DEFINE src == req[c].src
           dst == req[c].dst
           v   == IF op = "dup" /\ src # Null THEN held[src] ELSE current
<1>1. /\ req[c] # Null /\ req[c].op = op /\ port' = Tail(port) /\ port # <<>>
      /\ Reply(c) /\ pc' = "reap"
      /\ UNCHANGED <<device, signals, ret, sigs, countMoved, cur, counter, live, listed,
                     active, volId, nextId, dosList, mount, inhibited, timer, workbench>>
  BY DEF NewObject, GetMsg
<1>2. req[c] \in Request /\ src \in Handles \cup {Null} /\ dst \in Handles /\ held[dst] = Null
  BY <1>1 DEF IndInv, TypeOK, RequestsWellFormed, Request
<1>3. port' \in Seq(Clients)
  BY <1>1 DEF IndInv, TypeOK
<1>4. CASE UNCHANGED <<held, heldId, count>>
  <2>1. RequestsWellFormed' /\ req' \in [Clients -> Request \cup {Null}]
    BY <1>1, <1>4, ReplyKeepsRequests DEF IndInv
  <2>2. TypeOK'
    BY <1>1, <1>3, <1>4, <2>1 DEF IndInv, TypeOK, PcStates
  <2>3. VolumesWellFormed' /\ IdsUnique' /\ OnlyCurrentActive'
    BY <1>1 DEF IndInv, VolumesWellFormed, IdsUnique, OnlyCurrentActive
  <2>4. CountsExact' /\ NoAliasing'
    BY <1>1, <1>4 DEF IndInv, CountsExact, NoAliasing, Holders
  <2> QED
    BY <2>1, <2>2, <2>3, <2>4 DEF IndInv
<1>5. CASE /\ current # Null /\ (src # Null => Valid(src))
           /\ held'   = [held EXCEPT ![dst] = v]
           /\ heldId' = [heldId EXCEPT ![dst] = volId[v]]
           /\ count'  = [count EXCEPT ![v] = @ + 1]
  <2>1. v = current /\ v \in Addrs /\ v \in live
    BY <1>5 DEF Valid, IndInv, VolumesWellFormed, TypeOK
  <2>2. held' = [held EXCEPT ![dst] = v] /\ heldId' = [heldId EXCEPT ![dst] = volId[v]]
        /\ count' = [count EXCEPT ![v] = @ + 1] /\ req' = [req EXCEPT ![c] = Null]
        /\ req[c].dst = dst
    BY <1>1, <1>5 DEF Reply
  <2> HIDE DEF v, src, dst
  <2>3. TypeOK'
    BY <1>1, <1>2, <1>3, <2>1, <2>2 DEF IndInv, TypeOK, PcStates
  <2>4. VolumesWellFormed' /\ IdsUnique' /\ OnlyCurrentActive'
    BY <1>1 DEF IndInv, VolumesWellFormed, IdsUnique, OnlyCurrentActive
  <2>5. CountsExact'
    <3> SUFFICES ASSUME NEW a \in Addrs
                 PROVE  count'[a] = Cardinality(Holders(a)')
      BY DEF CountsExact, Holders
    <3>1. Cardinality(Holders(a)') =
            IF a = v THEN Cardinality(Holders(a)) + 1 ELSE Cardinality(Holders(a))
      BY <1>2, <2>1, <2>2, HolderAdded DEF IndInv
    <3> QED
      BY <2>1, <2>2, <3>1 DEF IndInv, TypeOK, CountsExact
  <2>6. NoAliasing'
    BY <1>1, <1>2, <2>1, <2>2 DEF IndInv, TypeOK, NoAliasing
  <2>7. RequestsWellFormed'
    <3>1. \A d \in Clients : req'[d] # Null => d # c /\ req'[d] = req[d]
      BY <2>2 DEF IndInv, TypeOK
    <3>2. \A d \in Clients : d # c /\ req[d] # Null => req[d].dst # dst
      BY <1>1, <1>2, <2>2, NullAssumption DEF IndInv, RequestsWellFormed
    <3>3. \A h \in Handles : h # dst => held'[h] = held[h]
      BY <2>2 DEF IndInv, TypeOK
    <3>4. held'[dst] # Null
      BY <1>2, <2>1, <2>2, NullAssumption DEF IndInv, TypeOK
    <3>5. \A d \in Clients : req[d] # Null => /\ req[d].src \in Handles \cup {Null}
                                              /\ req[d].dst \in Handles \cup {Null}
      BY DEF IndInv, TypeOK, Request
    <3> QED
      BY <1>2, <3>1, <3>2, <3>3, <3>4, <3>5 DEF IndInv, RequestsWellFormed
  <2> QED
    BY <2>3, <2>4, <2>5, <2>6, <2>7 DEF IndInv
<1> QED
  BY <1>4, <1>5 DEF NewObject, RetainVolumeObject

\* A released object drops its pin; the last one frees a stale volume.
LEMMA FreeObjectPreserves ==
  ASSUME IndInv, NEW c \in Clients, FreeObject(c)
  PROVE  IndInv'
<1> USE DEF device, signals, control, counter, volumes, mount, dos
<1> DEFINE h == req[c].src
           v == held[h]
           D == IF count[v] = 1 /\ v # current THEN {v} ELSE {}
<1>1. /\ req[c] # Null /\ req[c].op = "free" /\ port' = Tail(port) /\ port # <<>>
      /\ held' = [held EXCEPT ![h] = Null] /\ heldId' = [heldId EXCEPT ![h] = 0]
      /\ count' = [count EXCEPT ![v] = @ - 1]
      /\ Reply(c) /\ pc' = "reap"
      /\ UNCHANGED <<device, signals, ret, sigs, countMoved, cur, counter, nextId,
                     mount, inhibited, timer, workbench>>
  BY DEF FreeObject, GetMsg, ReleaseVolumeObject
<1>2. PICK Stuck \in MayStick(D) : DestroyStaleVolumes(D, Stuck) /\ active' = active \ (D \ Stuck)
  BY DEF FreeObject
<1>3. h \in Handles /\ held[h] # Null /\ req[c].src = h
  BY <1>1 DEF IndInv, TypeOK, RequestsWellFormed, Request
<1>4. v \in Addrs /\ v \in live
  BY <1>3 DEF IndInv, TypeOK, NoAliasing
<1>5. \A a \in Addrs : Cardinality(Holders(a)') =
        IF a = v THEN Cardinality(Holders(a)) - 1 ELSE Cardinality(Holders(a))
  BY <1>1, <1>3, HolderRemoved DEF IndInv
<1>6. D \in SUBSET live /\ current \notin D
  BY <1>4
<1>7. h \in Holders(v)
  BY <1>3 DEF Holders
<1>8. v \in D => count[v] = 1
  OBVIOUS
<1> HIDE DEF h, v, D
<1>9. count[v] \in Nat /\ count[v] > 0
  <2>1. Holders(v) # {}
    BY <1>7
  <2> QED
    BY <1>4, <2>1, HoldersFinite, FS_EmptySet DEF IndInv, CountsExact, TypeOK
<1>10. /\ live' \subseteq live /\ live \ D \subseteq live'
       /\ listed' \subseteq live' /\ dosList' \subseteq Addrs
       /\ volId' \in [Addrs -> Nat] /\ \A a \in Addrs \ D : volId'[a] = volId[a]
       /\ IdsUnique'
       /\ ~ForeignLink => dosList' = listed'
  BY <1>1, <1>2, <1>6, StaleDestroyed DEF IndInv
<1>11. port' \in Seq(Clients) /\ req' \in [Clients -> Request \cup {Null}]
  BY <1>1 DEF IndInv, TypeOK, Reply
<1>12. count' \in [Addrs -> Nat] /\ held' \in [Handles -> Addrs \cup {Null}]
       /\ heldId' \in [Handles -> Nat]
  <2>1. count[v] - 1 \in Nat
    BY <1>9
  <2>2. count' \in [Addrs -> Nat]
    BY <1>1, <1>4, <2>1 DEF IndInv, TypeOK
  <2>3. held' \in [Handles -> Addrs \cup {Null}] /\ heldId' \in [Handles -> Nat]
    BY <1>1 DEF IndInv, TypeOK
  <2> QED
    BY <2>2, <2>3
<1>13. TypeOK'
  BY <1>1, <1>2, <1>10, <1>11, <1>12 DEF IndInv, TypeOK, PcStates
<1>14. VolumesWellFormed' /\ OnlyCurrentActive'
  BY <1>1, <1>2, <1>6, <1>10 DEF IndInv, VolumesWellFormed, OnlyCurrentActive
<1>15. CountsExact'
  <2> SUFFICES ASSUME NEW a \in Addrs
               PROVE  count'[a] = Cardinality(Holders(a)')
    BY DEF CountsExact, Holders
  <2> QED
    BY <1>1, <1>4, <1>5 DEF IndInv, TypeOK, CountsExact
<1>16. NoAliasing'
  <2> SUFFICES ASSUME NEW g \in Handles, held'[g] # Null
               PROVE  held'[g] \in live' /\ volId'[held'[g]] = heldId'[g]
    BY DEF NoAliasing
  <2>1. g # h /\ held'[g] = held[g] /\ heldId'[g] = heldId[g]
    BY <1>1, <1>3 DEF IndInv, TypeOK
  <2>2. held[g] \in Addrs /\ held[g] \in live /\ volId[held[g]] = heldId[g]
    BY <2>1 DEF IndInv, TypeOK, NoAliasing
  <2>3. held[g] \notin D
    <3> SUFFICES ASSUME held[g] \in D PROVE FALSE
      OBVIOUS
    <3>1. held[g] = v /\ count[v] = 1
      BY <1>8 DEF D
    <3>2. PICK w \in Addrs : w = v
      BY <1>4
    <3>3. Cardinality(Holders(w)') = 0
      BY <1>4, <1>5, <3>1, <3>2 DEF IndInv, CountsExact
    <3>4. Holders(w)' \subseteq Handles
      BY DEF Holders
    <3>5. Holders(w)' = {}
      BY <3>3, <3>4, FiniteAssumption, FS_Subset, FS_EmptySet
    <3>6. \A f \in Handles : held'[f] # w
      BY <3>5 DEF Holders
    <3> QED
      BY <2>1, <3>1, <3>2, <3>6
  <2> QED
    BY <1>10, <2>1, <2>2, <2>3
<1>17. RequestsWellFormed'
  <2>1. \A d \in Clients : req'[d] # Null => d # c /\ req'[d] = req[d]
    BY <1>1 DEF IndInv, TypeOK, Reply
  <2>2. \A d \in Clients : d # c /\ req[d] # Null => req[d].src # h
    BY <1>1, <1>3, NullAssumption DEF IndInv, RequestsWellFormed
  <2>3. \A g \in Handles : g # h => held'[g] = held[g]
    BY <1>1 DEF IndInv, TypeOK
  <2>4. held'[h] = Null
    BY <1>1, <1>3 DEF IndInv, TypeOK
  <2>5. \A d \in Clients : req[d] # Null => /\ req[d].src \in Handles \cup {Null}
                                            /\ req[d].dst \in Handles \cup {Null}
    BY DEF IndInv, TypeOK, Request
  <2> QED
    BY <1>3, <2>1, <2>2, <2>3, <2>4, <2>5 DEF IndInv, RequestsWellFormed
<1> QED
  BY <1>10, <1>13, <1>14, <1>15, <1>16, <1>17, SMTT(40) DEF IndInv

\* The other packets, and the reaping after each.
LEMMA PacketPreserves ==
  ASSUME IndInv,
         \/ \E c \in Clients : \/ UseObject(c) \/ WritePacket(c) \/ Inhibit(c) \/ Uninhibit(c)
                               \/ RefuseDie(c) \/ AcceptDie(c)
         \/ ReplyUninhibit \/ ReapStaleVolumes \/ Shutdown
  PROVE  IndInv'
<1> USE DEF device, signals, control, counter, volumes, mount, dos
<1>1. ASSUME NEW c \in Clients, UseObject(c) \/ WritePacket(c) \/ RefuseDie(c)
      PROVE  IndInv'
  <2>1. /\ Reply(c) /\ port # <<>> /\ port' = Tail(port) /\ pc' \in {"reap", "packets"}
        /\ UNCHANGED <<device, signals, ret, sigs, countMoved, cur, counter, volumes,
                       mount, held, heldId, inhibited, timer, workbench>>
    BY <1>1 DEF UseObject, WritePacket, RefuseDie, GetMsg
  <2>2. port' \in Seq(Clients)
    BY <2>1 DEF IndInv, TypeOK
  <2>3. RequestsWellFormed' /\ req' \in [Clients -> Request \cup {Null}]
    BY <2>1, ReplyKeepsRequests DEF IndInv
  <2>4. TypeOK'
    BY <2>1, <2>2, <2>3 DEF IndInv, TypeOK, PcStates
  <2>5. VolumesWellFormed' /\ IdsUnique' /\ OnlyCurrentActive'
    BY <2>1 DEF IndInv, VolumesWellFormed, IdsUnique, OnlyCurrentActive
  <2>6. CountsExact' /\ NoAliasing'
    BY <2>1 DEF IndInv, CountsExact, NoAliasing, Holders
  <2> QED
    BY <2>3, <2>4, <2>5, <2>6 DEF IndInv
<1>2. ASSUME NEW c \in Clients, Uninhibit(c) \/ AcceptDie(c)
      PROVE  IndInv'
  <2>1. /\ port # <<>> /\ port' = Tail(port) /\ cur' = c /\ pc' \in {"presence", "publish"}
        /\ ret' \in {ret, "reply"} /\ sigs' \in {sigs, sigs \ {"dos"}}
        /\ UNCHANGED <<core, mounted>>
        /\ UNCHANGED <<device, signals, countMoved, counter, mount, timer, workbench>>
    BY <1>2 DEF Uninhibit, AcceptDie, GetMsg, core
  <2>2. port' \in Seq(Clients)
    BY <2>1 DEF IndInv, TypeOK
  <2>3. inhibited' \in BOOLEAN
    BY <1>2, Zenon DEF Uninhibit, AcceptDie, IndInv, TypeOK
  <2>4. TypeOK'
    BY <2>1, <2>2, <2>3 DEF IndInv, TypeOK, PcStates, core
  <2> QED
    BY <2>1, <2>4, CoreUnchanged DEF IndInv, VolumesWellFormed, MountPcs
<1>3. ASSUME NEW c \in Clients, Inhibit(c)
      PROVE  IndInv'
  <2>1. /\ Reply(c) /\ port # <<>> /\ port' = Tail(port) /\ pc' = "reap" /\ UnmountVolume
        /\ UNCHANGED <<device, chgSig, dosSig, ret, sigs, countMoved, cur, counter,
                       held, heldId>>
    BY <1>3 DEF Inhibit, GetMsg
  <2>2. port' \in Seq(Clients)
    BY <2>1 DEF IndInv, TypeOK
  <2>3. inhibited' \in BOOLEAN
    BY <1>3, Zenon DEF Inhibit
  <2>4. RequestsWellFormed' /\ req' \in [Clients -> Request \cup {Null}]
    BY <2>1, ReplyKeepsRequests DEF IndInv
  <2>5. TypeOK'
    BY <2>1, <2>2, <2>3, <2>4, Unmounted DEF IndInv, TypeOK, PcStates
  <2> QED
    BY <2>1, <2>4, <2>5, Unmounted DEF IndInv
<1>4. CASE ReplyUninhibit
  <2>1. RequestsWellFormed' /\ req' \in [Clients -> Request \cup {Null}]
    BY <1>4, ReplyKeepsRequests DEF ReplyUninhibit, IndInv
  <2>2. TypeOK'
    BY <1>4, <2>1 DEF ReplyUninhibit, IndInv, TypeOK, PcStates
  <2>3. VolumesWellFormed' /\ IdsUnique' /\ OnlyCurrentActive'
    BY <1>4 DEF ReplyUninhibit, IndInv, VolumesWellFormed, IdsUnique, OnlyCurrentActive
  <2>4. CountsExact' /\ NoAliasing'
    BY <1>4 DEF ReplyUninhibit, IndInv, CountsExact, NoAliasing, Holders
  <2> QED
    BY <2>1, <2>2, <2>3, <2>4 DEF IndInv
<1>5. CASE ReapStaleVolumes
  <2> DEFINE D == StaleVolumes
  <2>1. PICK Stuck \in MayStick(D) : DestroyStaleVolumes(D, Stuck) /\ active' = active \ (D \ Stuck)
    BY <1>5 DEF ReapStaleVolumes
  <2>2. /\ pc' = "packets"
        /\ UNCHANGED <<device, signals, ret, sigs, countMoved, cur, counter, count,
                       nextId, mount, dos, inhibited, timer, workbench>>
    BY <1>5 DEF ReapStaleVolumes
  <2>3. D \in SUBSET live /\ current \notin D /\ \A v \in D : v \in Addrs /\ count[v] = 0
    BY DEF StaleVolumes, IndInv, TypeOK
  <2> HIDE DEF D
  <2>4. /\ live' \subseteq live /\ live \ D \subseteq live'
        /\ listed' \subseteq live' /\ dosList' \subseteq Addrs
        /\ volId' \in [Addrs -> Nat] /\ \A a \in Addrs \ D : volId'[a] = volId[a]
        /\ IdsUnique'
        /\ ~ForeignLink => dosList' = listed'
    BY <2>1, <2>2, <2>3, StaleDestroyed DEF IndInv
  <2>5. TypeOK'
    BY <2>1, <2>2, <2>4 DEF IndInv, TypeOK, PcStates
  <2>6. VolumesWellFormed' /\ OnlyCurrentActive'
    BY <2>1, <2>2, <2>3, <2>4 DEF IndInv, VolumesWellFormed, OnlyCurrentActive
  <2>7. RequestsWellFormed' /\ CountsExact'
    BY <2>2 DEF IndInv, RequestsWellFormed, CountsExact, Holders
  <2>8. NoAliasing'
    <3> SUFFICES ASSUME NEW h \in Handles, held[h] # Null
                 PROVE  held[h] \in live' /\ volId'[held[h]] = heldId[h]
      BY <2>2 DEF NoAliasing
    <3>1. held[h] \in Addrs /\ held[h] \in live /\ volId[held[h]] = heldId[h]
      BY DEF IndInv, TypeOK, NoAliasing
    <3>2. held[h] \notin D
      BY <2>3, NoHolders DEF IndInv
    <3> QED
      BY <2>4, <3>1, <3>2
  <2> QED
    BY <2>4, <2>5, <2>6, <2>7, <2>8 DEF IndInv
<1>6. CASE Shutdown
  <2>1. /\ Reply(cur) /\ pc' = "exit" /\ cur' = Null /\ UnmountVolume
        /\ changeCount' \in {changeCount, Null}
        /\ UNCHANGED <<device, chgSig, dosSig, ret, sigs, countMoved, port, held, heldId,
                       inhibited>>
    BY <1>6 DEF Shutdown
  <2>2. chgInstalled' \in BOOLEAN
    BY <1>6, Zenon DEF Shutdown
  <2>3. RequestsWellFormed' /\ req' \in [Clients -> Request \cup {Null}]
    BY <2>1, ReplyKeepsRequests DEF IndInv
  <2>4. TypeOK'
    BY <2>1, <2>2, <2>3, Unmounted DEF IndInv, TypeOK, PcStates
  <2> QED
    BY <2>1, <2>3, <2>4, Unmounted DEF IndInv
<1> QED
  BY <1>1, <1>2, <1>3, <1>4, <1>5, <1>6

-----------------------------------------------------------------------------
(* The theorems.                                                           *)

\* The initial state, with nothing mounted and nothing held, satisfies IndInv.
LEMMA InitIndInv == Init => IndInv
<1> SUFFICES ASSUME Init
             PROVE  IndInv
  OBVIOUS
<1>1. /\ lag \in BOOLEAN /\ chgInstalled \in BOOLEAN /\ countMoved \in BOOLEAN
      /\ chgSig \in BOOLEAN /\ dosSig \in BOOLEAN /\ pubSig \in BOOLEAN
      /\ mounted \in BOOLEAN /\ inhibited \in BOOLEAN /\ hasCdda \in BOOLEAN
  BY Zenon DEF Init
<1>2. TypeOK
  BY <1>1 DEF Init, TypeOK, PcStates
<1>3. VolumesWellFormed /\ IdsUnique /\ RequestsWellFormed /\ OnlyCurrentActive
  BY DEF Init, VolumesWellFormed, IdsUnique, RequestsWellFormed, OnlyCurrentActive
<1>4. NoAliasing
  BY DEF Init, NoAliasing
<1>5. CountsExact
  <2>1. \A a \in Addrs : Holders(a) = {}
    BY NullAssumption DEF Init, Holders
  <2> QED
    BY <2>1, FS_EmptySet DEF Init, CountsExact
<1> QED
  BY <1>2, <1>3, <1>4, <1>5 DEF IndInv

\* IndInv is inductive: every step of the handler and of its environment, and
\* every stuttering step, preserves it.
LEMMA IndInvStep == IndInv /\ [Next]_vars => IndInv'
<1> SUFFICES ASSUME IndInv, [Next]_vars
             PROVE  IndInv'
  OBVIOUS
<1>1. CASE UNCHANGED vars
  <2>1. TypeOK' /\ UNCHANGED <<core, mounted, pc>>
    BY <1>1 DEF vars, device, signals, control, counter, volumes, mount, dos, core,
                IndInv, TypeOK
  <2> QED
    BY <2>1, CoreUnchanged DEF IndInv, VolumesWellFormed, MountPcs
<1>2. CASE Environment
  BY <1>2, EnvironmentPreserves
<1>3. CASE HandlerStep
  BY <1>3, MountPreserves, LoopPreserves, NewObjectPreserves, FreeObjectPreserves,
     PacketPreserves DEF HandlerStep, HandlePacket
<1> QED
  BY <1>1, <1>2, <1>3 DEF Next

\* IndInv holds in every reachable state.
THEOREM Inductive == Spec => []IndInv
BY InitIndInv, IndInvStep, PTL DEF Spec

\* Every variable of the handler model stays in its range.
THEOREM TypeCorrect == Spec => []TypeOK
BY Inductive, PTL DEF IndInv

\* volume->object_count always equals the number of objects that hold the volume.
THEOREM CountsCorrect == Spec => []CountsExact
BY Inductive, PTL DEF IndInv

\* No lock or file handle ever points at freed or reused volume memory.
THEOREM PointersCorrect == Spec => []NoAliasing
BY Inductive, PTL DEF IndInv

\* The address comparison of validate_object_volume() decides mount identity.
THEOREM ValidationCorrect == Spec => []ValidMeansSameMount
<1>1. IndInv => ValidMeansSameMount
  BY DEF IndInv, ValidMeansSameMount, Valid, NoAliasing, IdsUnique, VolumesWellFormed
<1> QED
  BY <1>1, Inductive, PTL

\* Unless another component links nodes behind the handler's back, every volume
\* node on the DOS list belongs to a volume that still exists.
THEOREM DosListCorrect ==
  ASSUME ~ForeignLink
  PROVE  Spec => []DosListNodesLive
<1>1. IndInv => DosListNodesLive
  BY DEF IndInv, DosListNodesLive, VolumesWellFormed
<1> QED
  BY <1>1, Inductive, PTL

\* A stale volume never looks active to DOS.
THEOREM StaleInactive == Spec => []OnlyCurrentActive
BY Inductive, PTL DEF IndInv
-----------------------------------------------------------------------------
(* What Workbench knows.                                                   *)

\* Destroying stale volumes does not take the current one off the DOS list.
LEMMA CurrentStaysListed ==
  ASSUME NEW D, NEW Stuck, DestroyStaleVolumes(D, Stuck), current \notin D
  PROVE  current \in listed' <=> current \in listed
BY DEF DestroyStaleVolumes

\* After unmount_volume() there is no volume, and no inserted event in force.
LEMMA RemovedTold ==
  ASSUME IndInv, WorkbenchInformed, UnmountVolume
  PROVE  WorkbenchInformed'
<1>1. CASE ~mounted
  BY <1>1 DEF UnmountVolume, WorkbenchInformed, mount, volumes
<1>2. CASE mounted
  <2>1. current' = Null /\ workbench' = IF current = Null THEN workbench ELSE "removed"
    BY <1>2 DEF UnmountVolume
  <2> QED
    BY <2>1 DEF WorkbenchInformed
<1> QED
  BY <1>1, <1>2 DEF IndInv, TypeOK

\* Every step keeps what Workbench was told true: volumes come with no volume
\* current, are listed together with the event, and lose the list only when
\* they are stale or when a removed event goes out.
LEMMA WorkbenchStep ==
  ASSUME IndInv, WorkbenchInformed, [Next]_vars
  PROVE  WorkbenchInformed'
<1> USE DEF WorkbenchInformed
<1>1. CASE UNCHANGED <<current, listed, workbench>>
  BY <1>1
<1>2. CASE MountVolumeNode
  <2>1. current = Null /\ workbench # "inserted"
    BY <1>2 DEF MountVolumeNode, IndInv, VolumesWellFormed
  <2>2. PICK v \in Addrs \ live, ok \in May("doslist") :
          /\ current' = v /\ PublishVolumeNode(v, ok)
          /\ IF ok THEN workbench' = "inserted" /\ UNCHANGED timer
                   ELSE SchedulePublishRetry /\ UNCHANGED workbench
    BY <1>2 DEF MountVolumeNode
  <2>3. v # Null /\ v \notin listed
    BY NullAssumption DEF IndInv, VolumesWellFormed
  <2>4. CASE ok
    BY <2>2, <2>3, <2>4 DEF PublishVolumeNode
  <2>5. CASE ~ok
    BY <2>1, <2>2, <2>3, <2>5 DEF PublishVolumeNode
  <2> QED
    BY <2>4, <2>5
<1>3. CASE QueryChangeState
  <2>1. CASE UnmountVolume
    BY <2>1, RemovedTold
  <2>2. CASE UNCHANGED <<mount, volumes, workbench>>
    BY <2>2, <1>1 DEF mount, volumes
  <2> QED
    BY <1>3, <2>1, <2>2 DEF QueryChangeState
<1>4. CASE Shutdown \/ \E c \in Clients : Inhibit(c)
  BY <1>4, RemovedTold DEF Shutdown, Inhibit
<1>5. ASSUME NEW c \in Clients, FreeObject(c)
      PROVE  WorkbenchInformed'
  <2> DEFINE v == held[req[c].src]
             D == IF count[v] = 1 /\ v # current THEN {v} ELSE {}
  <2>1. current \notin D /\ UNCHANGED <<current, workbench>>
    BY <1>5 DEF FreeObject, mount
  <2>2. \E Stuck \in MayStick(D) : DestroyStaleVolumes(D, Stuck)
    BY <1>5 DEF FreeObject
  <2> HIDE DEF D
  <2> QED
    BY <2>1, <2>2, CurrentStaysListed
<1>6. CASE ReapStaleVolumes
  <2>1. current \notin StaleVolumes /\ UNCHANGED <<current, workbench>>
    BY <1>6 DEF ReapStaleVolumes, StaleVolumes, mount
  <2>2. \E Stuck \in MayStick(StaleVolumes) : DestroyStaleVolumes(StaleVolumes, Stuck)
    BY <1>6 DEF ReapStaleVolumes
  <2> QED
    BY <2>1, <2>2, CurrentStaysListed
<1>7. ASSUME NEW ok \in May("doslist"), RetryPublish(ok)
      PROVE  WorkbenchInformed'
  <2>1. /\ current # Null /\ current \notin listed /\ current' = current
        /\ PublishVolumeNode(current, ok) /\ IF ok THEN Published ELSE RetryAgain
    BY <1>7 DEF RetryPublish, PublishIdle, mount
  <2>2. CASE ok
    BY <2>1, <2>2 DEF PublishVolumeNode, Published
  <2>3. CASE ~ok
    BY <2>1, <2>3 DEF PublishVolumeNode, RetryAgain
  <2> QED
    BY <2>2, <2>3
<1>8. CASE Environment \/ UNCHANGED vars
  <2>1. UNCHANGED <<current, listed, workbench>>
    BY <1>8 DEF Environment, Insert, Eject, MediumChanges, CounterCatchesUp, StrayInterrupt,
                TimerFires, ForeignAddDosEntry, Send, volumes, mount, vars
  <2> QED
    BY <1>1, <2>1
<1>9. CASE \/ MountPresence \/ MountToc \/ MountFilesystem \/ MountAudio
           \/ MountWithoutNode \/ MountWithoutVolume
  <2>1. UNCHANGED <<current, listed, workbench>>
    BY <1>9 DEF MountPresence, MountToc, MountFilesystem, MountAudio, MountWithoutNode,
                MountWithoutVolume, volumes, mount
  <2> QED
    BY <1>1, <2>1
<1>10. CASE \/ InstallMediaChange \/ Wait \/ SkipMediaChange \/ QueryChangeCount
            \/ NoMorePackets \/ ReplyUninhibit \/ SkipPublish \/ Exit
  <2>1. UNCHANGED <<current, listed, workbench>>
    BY <1>10 DEF InstallMediaChange, Wait, SkipMediaChange, QueryChangeCount, NoMorePackets,
                 ReplyUninhibit, SkipPublish, Exit, volumes, mount
  <2> QED
    BY <1>1, <2>1
<1>11. ASSUME NEW c \in Clients,
              \/ \E op \in {"locate", "dup"} : NewObject(c, op)
              \/ UseObject(c) \/ WritePacket(c) \/ Uninhibit(c) \/ RefuseDie(c) \/ AcceptDie(c)
       PROVE  WorkbenchInformed'
  <2>1. UNCHANGED <<current, listed, workbench>>
    BY <1>11 DEF NewObject, UseObject, WritePacket, Uninhibit, RefuseDie, AcceptDie,
                 volumes, mount
  <2> QED
    BY <1>1, <2>1
<1> QED
  BY <1>2, <1>3, <1>4, <1>5, <1>6, <1>7, <1>8, <1>9, <1>10, <1>11
     DEF Next, HandlerStep, MountVolume, HandlePacket

\* The last event Workbench got says "inserted" exactly while the current
\* volume is on the DOS list, whichever services fail and whoever links nodes.
THEOREM WorkbenchCorrect == Spec => []WorkbenchInformed
<1>1. Init => WorkbenchInformed
  BY DEF Init, WorkbenchInformed
<1>2. IndInv /\ WorkbenchInformed /\ [Next]_vars => WorkbenchInformed'
  BY WorkbenchStep
<1> QED
  BY <1>1, <1>2, Inductive, PTL DEF Spec
-----------------------------------------------------------------------------
(* The second mount at startup.                                            *)

\* What StartupInv looks at besides the process, its signals and the counts.
first == <<disc, media, lag, chgInstalled, changeCount, mounted, mountMedia, mountedBy>>

\* Where the handler is when the first turn of its main loop has looked at the
\* change signal, or is over.
AfterFirstTurn == {"packets", "reply", "reap", "publish", "shutdown", "exit", "dead"}

\* From there on, a step that takes no notice of the drive preserves StartupInv.
LEMMA LaterTurns ==
  ASSUME StartupInv, UNCHANGED first, pc \in AfterFirstTurn,
         pc' \in AfterFirstTurn \cup {"wait"} \/ (pc' = "presence" /\ ret' # "wait"),
         chgSig' => chgSig, pc \in {"exit", "dead"} => pc' \in {"exit", "dead"}
  PROVE  StartupInv'
BY DEF StartupInv, first, AfterFirstTurn, FirstMount, Uncounted, Untouched, FirstVolume

\* The drive, the timer, DOS and the clients preserve StartupInv: a transition
\* takes the medium away from FirstVolume and raises the signal.
LEMMA StartupEnvironment ==
  ASSUME ~LateCounter, IndInv, StartupInv, Environment
  PROVE  StartupInv'
<1> USE DEF FirstMount, Uncounted, Untouched, FirstVolume, StartupInv
<1>1. ASSUME NEW d, MediumChanges(d)
      PROVE  StartupInv'
  <2>1. /\ media' = media + 1 /\ lag' = FALSE /\ chgSig' = (chgSig \/ chgInstalled)
        /\ UNCHANGED <<pc, ret, sigs, countMoved, chgInstalled, changeCount, count, mounted,
                       mountMedia, mountedBy, inhibited>>
    BY <1>1, ConfigAssumption DEF MediumChanges, control, counter, volumes, mount
  <2>2. media \in Nat /\ mountMedia \in Nat
    BY DEF IndInv, TypeOK
  <2>3. mountMedia' <= media' /\ media' # mountMedia'
    BY <2>1, <2>2
  <2> HIDE DEF Untouched
  <2>4. Untouched' <=> Untouched
    BY <2>1 DEF Untouched
  <2>5. (chgInstalled => chgSig') /\ (chgSig' => chgSig \/ chgInstalled)
    BY <2>1, Zenon
  <2> QED
    BY <2>1, <2>3, <2>4, <2>5
<1>2. CASE \/ CounterCatchesUp \/ TimerFires \/ ForeignAddDosEntry
           \/ \E c \in Clients, op \in Ops : Send(c, op)
  <2>1. /\ UNCHANGED first /\ chgSig' = chgSig
        /\ UNCHANGED <<pc, ret, sigs, countMoved, inhibited, count>>
    BY <1>2 DEF CounterCatchesUp, TimerFires, ForeignAddDosEntry, Send, first, device, signals,
                control, counter, volumes, mount
  <2> QED
    BY <2>1 DEF first
<1>3. CASE StrayInterrupt
  <2>1. /\ UNCHANGED first /\ chgSig' = TRUE /\ chgInstalled
        /\ UNCHANGED <<pc, ret, sigs, countMoved, inhibited, count>>
    BY <1>3 DEF StrayInterrupt, first, device, signals, control, counter, volumes, mount
  <2> QED
    BY <2>1 DEF first
<1> QED
  BY <1>1, <1>2, <1>3 DEF Environment, Insert, Eject

\* The steps of a mount preserve StartupInv: the first one mounts what is in the
\* drive with the signal of an earlier change still pending.
LEMMA StartupMount ==
  ASSUME IndInv, StartupInv, MountVolume
  PROVE  StartupInv'
<1>1. /\ UNCHANGED <<disc, media, lag, chgInstalled, changeCount, chgSig, inhibited, count,
                     ret, sigs, countMoved>>
  BY DEF MountVolume, MountPresence, MountToc, MountFilesystem, MountAudio, MountWithoutNode,
         MountWithoutVolume, MountVolumeNode, device, signals, counter, volumes
<1>2. Untouched' <=> Untouched
  BY <1>1 DEF Untouched
<1>3. pc \in {"presence", "toc", "fs", "audio", "node"} /\ ret \in {"wait", "packets", "reply"}
  BY DEF MountVolume, MountPresence, MountToc, MountFilesystem, MountAudio, MountWithoutNode,
         MountWithoutVolume, MountVolumeNode, IndInv, TypeOK
<1>4. pc' \in {"toc", "fs", "audio", "node", ret}
  BY DEF MountVolume, MountPresence, MountToc, MountFilesystem, MountAudio, MountWithoutNode,
         MountWithoutVolume, MountVolumeNode, MountReturns
<1>5. \/ UNCHANGED <<mounted, mountMedia, mountedBy>>
      \/ Mounts /\ disc # NoDisc
      \/ mounted' = FALSE /\ mountMedia' = 0
  <2>1. CASE \/ MountPresence \/ MountWithoutNode \/ MountWithoutVolume \/ MountVolumeNode
    BY <2>1 DEF MountPresence, MountWithoutNode, MountWithoutVolume, MountVolumeNode, mount
  <2>2. CASE MountToc \/ MountFilesystem \/ MountAudio
    BY <2>2, DiscAssumption DEF MountToc, MountFilesystem, MountAudio
  <2> QED
    BY <2>1, <2>2 DEF MountVolume
<1>6. media \in Nat /\ mountMedia \in Nat
  BY DEF IndInv, TypeOK
<1>7. ret = "wait" => FirstMount
  BY <1>3 DEF FirstMount
<1>8. CASE UNCHANGED <<mounted, mountMedia, mountedBy>>
  BY <1>1, <1>2, <1>3, <1>4, <1>6, <1>7, <1>8 DEF StartupInv, FirstMount, FirstVolume, Uncounted
<1>9. CASE Mounts /\ disc # NoDisc
  BY <1>1, <1>2, <1>3, <1>4, <1>6, <1>7, <1>9
     DEF StartupInv, FirstMount, FirstVolume, Uncounted, Mounts
<1>10. CASE mounted' = FALSE /\ mountMedia' = 0
  BY <1>1, <1>2, <1>3, <1>4, <1>6, <1>7, <1>10
     DEF StartupInv, FirstMount, FirstVolume, Uncounted
<1> QED
  BY <1>5, <1>8, <1>9, <1>10

\* The head of the main loop preserves StartupInv: a pending change is taken
\* from Wait() to handle_media_change() before anything is served.
LEMMA StartupLoopHead ==
  ASSUME "count" \notin Failures, IndInv, StartupInv,
         \/ InstallMediaChange \/ Wait \/ SkipMediaChange \/ QueryChangeCount \/ QueryChangeState
  PROVE  StartupInv'
<1> USE DEF StartupInv, FirstMount, FirstVolume, Uncounted
<1>1. CASE InstallMediaChange
  <2>1. /\ pc = "start" /\ pc' = "presence" /\ ret' = "wait"
        /\ UNCHANGED <<disc, media, lag, chgSig, inhibited, count, mounted, mountMedia,
                       mountedBy, sigs, countMoved>>
    BY <1>1 DEF InstallMediaChange, device, signals, volumes, mount
  <2>2. chgInstalled' => changeCount' = media
    BY <1>1 DEF InstallMediaChange, PrimedCount, ChangeNum, May
  <2>3. Untouched' <=> Untouched
    BY <2>1 DEF Untouched
  <2>4. ~chgSig
    BY <2>1
  <2> QED
    BY <2>1, <2>2, <2>3, <2>4
<1>2. CASE Wait
  <2>1. /\ pc = "wait" /\ pc' = "change" /\ chgSig' = FALSE
        /\ UNCHANGED <<first, inhibited, count, ret, countMoved>>
        /\ "chg" \in sigs' <=> chgSig
    BY <1>2 DEF Wait, first, device, counter, volumes, mount
  <2>2. Untouched' <=> Untouched
    BY <2>1 DEF Untouched
  <2> QED
    BY <2>1, <2>2 DEF first
<1>3. CASE SkipMediaChange
  <2>1. /\ pc = "change" /\ pc' = "packets"
        /\ UNCHANGED <<first, inhibited, count, ret, countMoved, chgSig>>
        /\ "chg" \notin sigs \/ inhibited
    BY <1>3 DEF SkipMediaChange, first, device, signals, counter, volumes, mount
  <2> QED
    BY <2>1 DEF first, Untouched
<1>4. CASE QueryChangeCount
  <2>1. /\ pc = "change" /\ "chg" \in sigs /\ pc' = "state"
        /\ UNCHANGED <<disc, media, lag, chgInstalled, mounted, mountMedia, mountedBy,
                       inhibited, count, ret, chgSig>>
        /\ countMoved' = ~(changeCount = media) /\ changeCount' = media
    BY <1>4 DEF QueryChangeCount, ChangeNum, May, device, signals, volumes, mount
  <2>2. Untouched' <=> Untouched
    BY <2>1 DEF Untouched
  <2> QED
    BY <2>1, <2>2
<1>5. CASE QueryChangeState
  <2>1. /\ pc = "state" /\ pc' \in {"packets", "presence"} /\ (pc' = "presence" => ret' = "packets")
        /\ UNCHANGED <<disc, media, lag, chgInstalled, changeCount, chgSig, inhibited>>
    BY <1>5 DEF QueryChangeState, device, counter
  <2>2. \/ UNCHANGED <<mounted, mountMedia, mountedBy>>
        \/ ~mounted' /\ mountMedia' = 0
    BY <1>5 DEF QueryChangeState, UnmountVolume, mount
  <2>3. media \in Nat
    BY DEF IndInv, TypeOK
  <2> QED
    BY <2>1, <2>2, <2>3
<1> QED
  BY <1>1, <1>2, <1>3, <1>4, <1>5

\* The rest of the main loop comes after the first look at the signal.
LEMMA StartupLoopRest ==
  ASSUME IndInv, StartupInv,
         \/ NoMorePackets \/ HandlePacket \/ ReplyUninhibit \/ ReapStaleVolumes
         \/ SkipPublish \/ (\E ok \in May("doslist") : RetryPublish(ok)) \/ Shutdown \/ Exit
  PROVE  StartupInv'
<1>1. CASE \/ NoMorePackets \/ ReplyUninhibit \/ ReapStaleVolumes \/ SkipPublish
           \/ (\E ok \in May("doslist") : RetryPublish(ok)) \/ Exit
  <2>1. /\ UNCHANGED first /\ chgSig' = chgSig
        /\ pc \in AfterFirstTurn /\ pc' \in AfterFirstTurn \cup {"wait"}
        /\ pc \in {"exit", "dead"} => pc' \in {"exit", "dead"}
    BY <1>1 DEF NoMorePackets, ReplyUninhibit, ReapStaleVolumes, SkipPublish, RetryPublish, Exit,
                LoopTurns, AfterFirstTurn, first, device, signals, counter, mount
  <2> QED
    BY <2>1, LaterTurns
<1>2. ASSUME NEW c \in Clients,
             \/ \E op \in {"locate", "dup"} : NewObject(c, op)
             \/ UseObject(c) \/ WritePacket(c) \/ FreeObject(c)
             \/ Uninhibit(c) \/ RefuseDie(c) \/ AcceptDie(c)
      PROVE  StartupInv'
  <2>1. /\ UNCHANGED first /\ chgSig' = chgSig /\ pc = "packets"
        /\ \/ pc' \in {"packets", "reap", "publish"}
           \/ pc' = "presence" /\ ret' = "reply"
    BY <1>2 DEF NewObject, UseObject, WritePacket, FreeObject, Uninhibit, RefuseDie, AcceptDie,
                GetMsg, first, device, signals, control, counter, mount
  <2> QED
    BY <2>1, LaterTurns, SMTT(40) DEF AfterFirstTurn
<1>3. CASE Shutdown \/ \E c \in Clients : Inhibit(c)
  <2>1. /\ UNCHANGED <<disc, media, lag, chgSig>>
        /\ \/ pc = "shutdown" /\ pc' = "exit" /\ ~chgInstalled'
           \/ pc = "packets" /\ pc' = "reap" /\ UNCHANGED <<chgInstalled, changeCount>>
    BY <1>3 DEF Shutdown, Inhibit, GetMsg, device, counter
  <2>2. \/ UNCHANGED <<mounted, mountMedia, mountedBy>>
        \/ ~mounted' /\ mountMedia' = 0
    BY <1>3 DEF Shutdown, Inhibit, UnmountVolume, mount
  <2>3. media \in Nat
    BY DEF IndInv, TypeOK
  <2> QED
    BY <2>1, <2>2, <2>3 DEF StartupInv, FirstMount, FirstVolume, Uncounted
<1> QED
  BY <1>1, <1>2, <1>3 DEF HandlePacket

\* With a change counter that answers and keeps up, "a change that slips in
\* between install and mount at worst remounts a freshly mounted disc, which
\* holds no locks yet": the volume of the first mount is only dropped by
\* handle_media_change() if its medium is gone or if nothing holds it.
THEOREM StartupRemountSafe ==
  ASSUME ~LateCounter, "count" \notin Failures
  PROVE  Spec => StartupRemountHarmless
<1>1. Init => StartupInv
  BY DEF Init, StartupInv, FirstMount, FirstVolume, Uncounted, Untouched
<1>2. IndInv /\ StartupInv /\ [Next]_vars => StartupInv'
  <2> SUFFICES ASSUME IndInv, StartupInv, [Next]_vars
               PROVE  StartupInv'
    OBVIOUS
  <2>1. CASE UNCHANGED vars
    BY <2>1 DEF vars, device, signals, control, counter, volumes, mount, StartupInv, FirstMount,
                FirstVolume, Uncounted, Untouched
  <2>2. CASE Environment
    BY <2>2, StartupEnvironment
  <2>3. CASE HandlerStep
    BY <2>3, StartupMount, StartupLoopHead, StartupLoopRest DEF HandlerStep
  <2> QED
    BY <2>1, <2>2, <2>3 DEF Next
<1>3. IndInv /\ StartupInv /\ [Next]_vars =>
        [DropsVolume /\ mountedBy = "wait" /\ media = mountMedia => count[current] = 0]_vars
  <2> SUFFICES ASSUME IndInv, StartupInv, Next, DropsVolume, mountedBy = "wait",
                      media = mountMedia
               PROVE  count[current] = 0
    BY DEF vars, DropsVolume
  <2>1. QueryChangeState
    <3>1. pc = "state" /\ current' # current
      BY DEF DropsVolume
    <3> QED
      BY <3>1 DEF Next, HandlerStep, Environment, MountVolume, HandlePacket,
         InstallMediaChange, Wait, SkipMediaChange, QueryChangeCount, NoMorePackets,
         ReplyUninhibit, ReapStaleVolumes, SkipPublish, RetryPublish, Shutdown, Exit,
         MountPresence, MountToc, MountFilesystem, MountAudio, MountWithoutNode,
         MountWithoutVolume, MountVolumeNode, NewObject, UseObject, WritePacket, FreeObject,
         Inhibit, Uninhibit, RefuseDie, AcceptDie, GetMsg, Insert, Eject, MediumChanges,
         CounterCatchesUp, StrayInterrupt, TimerFires, ForeignAddDosEntry, Send, mount
  <2>2. ~Redundant
    BY <2>1 DEF QueryChangeState, DropsVolume, mount
  <2>3. current \in Addrs /\ mounted
    BY DEF DropsVolume, IndInv, TypeOK, VolumesWellFormed
  <2>4. countMoved
    BY <2>2, <2>3 DEF Redundant, StartupInv
  <2> QED
    BY <2>1, <2>3, <2>4 DEF StartupInv, FirstVolume, Untouched, QueryChangeState
<1>4. Spec => [](IndInv /\ StartupInv)
  BY <1>1, <1>2, Inductive, PTL DEF Spec
<1> QED
  BY <1>3, <1>4, PTL DEF Spec, StartupRemountHarmless
=============================================================================
