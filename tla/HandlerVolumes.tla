--------------------------- MODULE HandlerVolumes ---------------------------
(***************************************************************************)
(* The volume life cycle of the AmigaDOS handler: one process that serves  *)
(* DOS packets, follows the drive's medium and keeps one odfs_volume_t per *)
(* mount alive for as long as DOS clients hold locks or file handles on it *)
(* (platform/amiga/handler_main.c, the classic, single-threaded build).    *)
(*                                                                         *)
(* The handler is a sequential process whose control state is pc.  It is   *)
(* split where the world can move underneath it: at every device request   *)
(* (the disc may change between two of them) and at every packet reply     *)
(* (the client runs again before the handler does its housekeeping).       *)
(* Around it act the drive, the timer, DOS and the clients.                *)
(*                                                                         *)
(* An operator that is used nowhere and stands right before another one is *)
(* a faulty variant of it (README.md, "Faulty variants").                  *)
(***************************************************************************)
EXTENDS Naturals, Sequences, FiniteSets

CONSTANTS
  Discs,         \* the media that may be put into the drive
  DataDiscs,     \* discs with a data track a filesystem backend can mount
  AudioDiscs,    \* discs with audio tracks (mixed mode: in both sets)
  NoDisc,        \* the empty drive
  Addrs,         \* memory a volume (and its DOS node) can be allocated at
  Null,          \* the NULL pointer, and "no such object"
  Clients,       \* DOS processes; each has one packet outstanding at most
  Handles,       \* the locks and file handles the clients can hold
  Ops,           \* the packet types the clients send
  Failures,      \* the services that may fail
  LateCounter,   \* the driver raises the interrupt before TD_CHANGENUM moves
  ForeignLink,   \* another DOS component may link an unpublished volume node
  MaxEvents      \* bound on disc changes, stray interrupts and inhibits

AllOps == {"locate", "dup", "use", "write", "free", "inhibit", "uninhibit", "die"}
AllFailures == {"chgint", "count", "presence", "toc", "mount", "audio",
                "node", "volume", "object", "doslist", "timer"}

ASSUME DiscAssumption ==
  DataDiscs \subseteq Discs /\ AudioDiscs \subseteq Discs /\ NoDisc \notin Discs
ASSUME NullAssumption ==
  Null \notin Addrs /\ Null \notin Handles /\ Null \notin Clients
ASSUME FiniteAssumption == IsFiniteSet(Handles)
ASSUME ConfigAssumption ==
  /\ Ops \subseteq AllOps /\ Failures \subseteq AllFailures
  /\ LateCounter \in BOOLEAN /\ ForeignLink \in BOOLEAN /\ MaxEvents \in Nat

VARIABLES
  disc,         \* the medium in the drive
  media,        \* number of medium transitions so far
  lag,          \* TD_CHANGENUM has not caught up with the last transition
  events,       \* environment events so far (see MaxEvents)
  chgInstalled, \* g->chg_installed: the change interrupt is armed
  chgSig, dosSig, pubSig,  \* signal bits pending for the handler task
  pc,           \* where the handler process is
  ret,          \* where mount_volume() returns to
  sigs,         \* local sigs of the main loop, less what was handled
  countMoved,   \* local count_moved of handle_media_change()
  changeCount,  \* g->change_count, or Null while !g->change_count_valid
  mounted,      \* g->mounted
  inhibited,    \* g->inhibited
  current,      \* g->current_volume
  hasCdda,      \* g->has_cdda
  cddaCtx,      \* what g->cdda_ctx points to
  live,         \* g->volumes: the allocated volumes
  listed,       \* volumes with volume->listed set
  active,       \* volumes whose node has dl_Task set
  count,        \* volume->object_count
  volId,        \* volume->id
  nextId,       \* g->next_volume_id
  timer,        \* the publish retry timer
  dosList,      \* volume nodes that are linked into the DOS list
  workbench,    \* the last disk event sent to Workbench
  port,         \* packets queued at g->dosport, by the client that waits
  req,          \* the packet each client waits for
  cur,          \* the client whose ACTION_INHIBIT or ACTION_DIE is not answered yet
  held,         \* the volume each client-held object is pinned to
  heldId,       \* ghost: the id that volume had when the object was made
  mountMedia,   \* ghost: the transition number of the mounted medium
  mountedBy     \* ghost: who called the mount_volume() that mounted it

device  == <<disc, media, lag, events>>
signals == <<chgSig, dosSig, pubSig>>
control == <<pc, ret, sigs, countMoved, cur>>
counter == <<chgInstalled, changeCount>>
volumes == <<live, listed, active, count, volId, nextId, dosList>>
mount   == <<mounted, current, hasCdda, cddaCtx, mountMedia, mountedBy>>
dos     == <<port, req, held, heldId>>
vars == <<device, signals, control, counter, volumes, mount, dos,
          inhibited, timer, workbench>>

-----------------------------------------------------------------------------
(* Helpers.                                                                *)

\* The outcomes of a service: it works, and it fails if it is among Failures.
May(service) == IF service \in Failures THEN BOOLEAN ELSE {TRUE}

\* TD_CHANGENUM as the driver answers it.
ChangeNum == IF lag THEN media - 1 ELSE media

Request == [op : AllOps, src : Handles \cup {Null}, dst : Handles \cup {Null}]

\* The objects that hold a reference on the volume at a.
Holders(a) == {h \in Handles : held[h] = a}

\* The objects that a packet on its way refers to.
Busy == UNION {{req[c].src, req[c].dst} : c \in {d \in Clients : req[d] # Null}}

\* retain_volume_object() and the count of release_volume_object().
RetainForgotten(v) == UNCHANGED count
RetainVolumeObject(v) == count' = [count EXCEPT ![v] = @ + 1]
ReleaseVolumeObject(v) == count' = [count EXCEPT ![v] = @ - 1]

\* The volumes reap_stale_volumes() looks for.
StaleEvenIfHeld == live \ {current}
StaleVolumes == {v \in live \ {current} : count[v] = 0}

\* validate_object_volume(): the object belongs to the mounted volume.
ValidIfAllocated(h) == held[h] \in live
Valid(h) == held[h] = current

-----------------------------------------------------------------------------
(* DOS-list membership and the end of a volume.                            *)

\* publish_volume_node() with the DOS list available or not.
PublishVolumeNode(v, ok) ==
  /\ listed'  = IF ok THEN listed \cup {v} ELSE listed
  /\ dosList' = IF ok THEN dosList \cup {v} ELSE dosList

\* destroy_stale_volume() on every volume of D, of which detach_volume_node()
\* cannot take those in Stuck off the DOS list (only a listed one can stick).
DestroyedWhileListed(D, Stuck) ==
  /\ live'    = live \ D
  /\ dosList' = dosList \ (D \ Stuck)
  /\ listed'  = listed \ D
  /\ volId'   = [a \in Addrs |-> IF a \in D THEN 0 ELSE volId[a]]
DestroyStaleVolumes(D, Stuck) ==
  LET gone == D \ Stuck IN
  /\ live'    = live \ gone
  /\ dosList' = dosList \ (gone \cap listed)
  /\ listed'  = listed \ gone
  /\ volId'   = [a \in Addrs |-> IF a \in gone THEN 0 ELSE volId[a]]

\* The sets of volumes AttemptLockDosList()/RemDosEntry() may fail for.
MayStick(D) == IF "doslist" \in Failures THEN SUBSET (D \cap listed) ELSE {{}}

\* cancel_volume_publish_retry(): an aborted request still signals its port.
CancelPublishRetry ==
  IF timer \in {"pending", "done"}
  THEN timer' = "idle" /\ pubSig' = TRUE
  ELSE UNCHANGED <<timer, pubSig>>

\* schedule_volume_publish_retry(); opening the timer device may fail.
RetryNotScheduled == UNCHANGED timer
SchedulePublishRetry ==
  \/ timer \in {"pending", "done"} /\ UNCHANGED timer
  \/ timer = "idle" /\ timer' = "pending"
  \/ /\ timer = "closed"
     /\ \E ok \in May("timer") : timer' = IF ok THEN "pending" ELSE "closed"

\* What unmount_volume() clears: the audio context, and the node's dl_Task.
ForgetCdda == hasCdda' = FALSE /\ cddaCtx' = "none"
ClearTask == active' = active \ {current}

\* unmount_volume(): the handler forgets the volume; the volume itself stays,
\* inactive, while objects refer to it or while DOS will not let go of it.
UnmountVolume ==
  IF ~mounted
  THEN UNCHANGED <<mount, volumes, timer, pubSig, workbench>>
  ELSE
  /\ CancelPublishRetry
  /\ mounted' = FALSE /\ current' = Null
  /\ ForgetCdda /\ ClearTask
  /\ mountMedia' = 0 /\ mountedBy' = "none"
  /\ workbench' = IF current = Null THEN workbench ELSE "removed"
  /\ UNCHANGED <<count, nextId>>
  /\ LET D == IF current # Null /\ count[current] = 0 THEN {current} ELSE {}
     IN  \E Stuck \in MayStick(D) : DestroyStaleVolumes(D, Stuck)

-----------------------------------------------------------------------------
(* The drive, the timer and DOS: what the handler does not control.        *)

\* The drive notices a transition and runs changeint_signal().
MediumChanges(d) ==
  /\ events < MaxEvents /\ ~lag
  /\ disc' = d
  /\ media' = media + 1
  /\ events' = events + 1
  /\ lag' = LateCounter
  /\ chgSig' = (chgSig \/ chgInstalled)
  /\ UNCHANGED <<dosSig, pubSig, control, counter, volumes, mount, dos,
                 inhibited, timer, workbench>>

Insert == disc = NoDisc /\ \E d \in Discs : MediumChanges(d)
Eject  == disc # NoDisc /\ MediumChanges(NoDisc)

\* A polling driver updates TD_CHANGENUM after it delivered the interrupt.
CounterCatchesUp ==
  /\ lag
  /\ lag' = FALSE
  /\ UNCHANGED <<disc, media, events, signals, control, counter, volumes, mount,
                 dos, inhibited, timer, workbench>>

\* An interrupt without a transition.
StrayInterrupt ==
  /\ events < MaxEvents /\ chgInstalled
  /\ events' = events + 1
  /\ chgSig' = TRUE
  /\ UNCHANGED <<disc, media, lag, dosSig, pubSig, control, counter, volumes,
                 mount, dos, inhibited, timer, workbench>>

\* timer.device completes the retry request.
TimerFires ==
  /\ timer = "pending"
  /\ timer' = "done" /\ pubSig' = TRUE
  /\ UNCHANGED <<device, chgSig, dosSig, control, counter, volumes, mount, dos,
                 inhibited, workbench>>

\* A DOS component that got the node through ACTION_DISK_INFO links it.
ForeignAddDosEntry ==
  /\ ForeignLink
  /\ current # Null /\ current \notin dosList
  /\ dosList' = dosList \cup {current}
  /\ UNCHANGED <<device, signals, control, counter, live, listed, active, count,
                 volId, nextId, mount, dos, inhibited, timer, workbench>>

\* A client sends a packet and waits for its reply.  Only a reference that no
\* other packet uses is passed, and a new object goes into a free slot.
Send(c, op) ==
  /\ pc # "dead" /\ req[c] = Null
  /\ op \in {"inhibit", "uninhibit"} => events < MaxEvents
  /\ \E src \in Handles \cup {Null}, dst \in Handles \cup {Null} :
       /\ src # Null => src \notin Busy /\ held[src] # Null
       /\ dst # Null => dst \notin Busy /\ held[dst] = Null
       /\ (dst # Null) <=> op \in {"locate", "dup"}
       /\ op \in {"use", "free"} => src # Null
       /\ op \in {"write", "inhibit", "uninhibit", "die"} => src = Null
       /\ req' = [req EXCEPT ![c] = [op |-> op, src |-> src, dst |-> dst]]
  /\ events' = IF op \in {"inhibit", "uninhibit"} THEN events + 1 ELSE events
  /\ port' = Append(port, c)
  /\ dosSig' = TRUE
  /\ UNCHANGED <<disc, media, lag, chgSig, pubSig, control, counter, volumes,
                 mount, held, heldId, inhibited, timer, workbench>>

-----------------------------------------------------------------------------
(* mount_volume(), one action per device request and one for the volume.   *)

MountReturns == pc' = ret

\* Give up on a mounted or inhibited unit and on an empty drive.
MountPresence ==
  /\ pc = "presence"
  /\ \E ok \in May("presence") :
       IF mounted \/ inhibited \/ (ok /\ disc = NoDisc)
       THEN MountReturns ELSE pc' = "toc"
  /\ UNCHANGED <<device, signals, ret, sigs, countMoved, cur, counter, volumes,
                 mount, dos, inhibited, timer, workbench>>

\* A mount in progress takes what it finds in the drive now.
Mounts == mounted' = TRUE /\ mountMedia' = media /\ mountedBy' = ret
FindsAudio == hasCdda' = TRUE /\ cddaCtx' = "live"

\* An audio-only disc needs no filesystem probe, and gets none.
MountToc ==
  /\ pc = "toc"
  /\ \E ok \in May("toc"), audio \in May("audio") :
       IF ok /\ disc \in Discs \ DataDiscs
       THEN IF audio /\ disc \in AudioDiscs
            THEN pc' = "node" /\ Mounts /\ FindsAudio
            ELSE MountReturns /\ UNCHANGED <<mounted, mountMedia, mountedBy, hasCdda, cddaCtx>>
       ELSE pc' = "fs" /\ UNCHANGED <<mounted, mountMedia, mountedBy, hasCdda, cddaCtx>>
  /\ UNCHANGED <<device, signals, ret, sigs, countMoved, cur, counter, volumes,
                 current, dos, inhibited, timer, workbench>>

\* odfs_mount() probes the filesystem backends.
MountFilesystem ==
  /\ pc = "fs"
  /\ pc' = "audio"
  /\ \E ok \in May("mount") :
       IF ok /\ disc \in DataDiscs
       THEN Mounts
       ELSE UNCHANGED <<mounted, mountMedia, mountedBy>>
  /\ UNCHANGED <<device, signals, ret, sigs, countMoved, cur, counter, volumes,
                 current, hasCdda, cddaCtx, dos, inhibited, timer, workbench>>

\* Look for audio tracks beside the filesystem, or instead of a failed one.
MountAudio ==
  /\ pc = "audio"
  /\ \E ok \in May("toc"), audio \in May("audio") :
       LET found == ok /\ audio /\ disc \in AudioDiscs IN
       /\ IF found THEN FindsAudio ELSE UNCHANGED <<hasCdda, cddaCtx>>
       /\ IF found /\ ~mounted THEN Mounts
                               ELSE UNCHANGED <<mounted, mountMedia, mountedBy>>
       /\ IF found \/ mounted THEN pc' = "node" ELSE MountReturns
  /\ UNCHANGED <<device, signals, ret, sigs, countMoved, cur, counter, volumes,
                 current, dos, inhibited, timer, workbench>>

\* create_volume_node() fails: mounted, but there is no volume to open.
MountWithoutNode ==
  /\ pc = "node"
  /\ FALSE \in May("node")
  /\ MountReturns
  /\ UNCHANGED <<device, signals, ret, sigs, countMoved, cur, counter, volumes,
                 mount, dos, inhibited, timer, workbench>>

\* alloc_volume() fails, or memory has run out: odfs_unmount() frees the
\* backends, the CDDA context among them.
MountWithoutVolume ==
  /\ pc = "node"
  /\ FALSE \in May("volume") \/ Addrs \subseteq live
  /\ mounted' = FALSE /\ mountMedia' = 0 /\ mountedBy' = "none"
  /\ cddaCtx' = IF cddaCtx = "live" THEN "freed" ELSE cddaCtx
  /\ MountReturns
  /\ UNCHANGED <<device, signals, ret, sigs, countMoved, cur, counter, volumes,
                 current, hasCdda, dos, inhibited, timer, workbench>>

\* The volume exists; publish it now or have the timer retry.
MountVolumeNode ==
  /\ pc = "node"
  /\ \E v \in Addrs \ live, ok \in May("doslist") :
       /\ current' = v
       /\ live' = live \cup {v}
       /\ active' = active \cup {v}
       /\ volId' = [volId EXCEPT ![v] = nextId]
       /\ nextId' = nextId + 1
       /\ PublishVolumeNode(v, ok)
       /\ IF ok THEN workbench' = "inserted" /\ UNCHANGED timer
                ELSE SchedulePublishRetry /\ UNCHANGED workbench
  /\ MountReturns
  /\ UNCHANGED <<device, signals, ret, sigs, countMoved, cur, counter, count,
                 mounted, hasCdda, cddaCtx, mountMedia, mountedBy, dos, inhibited>>

-----------------------------------------------------------------------------
(* Start of the process and the head of the main loop.                     *)

\* The change count install_media_change() starts from.
CountNotPrimed(known) == Null
PrimedCount(known) == IF known THEN ChangeNum ELSE Null

\* install_media_change(), before the first mount attempt.
InstallMediaChange ==
  /\ pc = "start"
  /\ pc' = "presence" /\ ret' = "wait"
  /\ \E ok \in May("chgint"), counted \in May("count") :
       /\ chgInstalled' = ok
       /\ changeCount' = PrimedCount(ok /\ counted)
  /\ UNCHANGED <<device, signals, sigs, countMoved, cur, volumes, mount, dos,
                 inhibited, timer, workbench>>

\* sigs = Wait(waitmask); the publish port is in the mask while it exists.
Wait ==
  /\ pc = "wait"
  /\ LET got == {s \in {"chg", "dos", "pub"} :
                   \/ s = "chg" /\ chgSig
                   \/ s = "dos" /\ dosSig
                   \/ s = "pub" /\ pubSig /\ timer # "closed"}
     IN  /\ got # {}
         /\ sigs' = got
         /\ chgSig' = FALSE /\ dosSig' = FALSE
         /\ pubSig' = (pubSig /\ "pub" \notin got)
  /\ pc' = "change"
  /\ UNCHANGED <<device, ret, countMoved, cur, counter, volumes, mount, dos,
                 inhibited, timer, workbench>>

\* No change signal, or one that arrives while the unit is inhibited.
ChangeDeferred ==
  LET deferred == inhibited /\ "chg" \in sigs
  IN  /\ pc = "change"
      /\ "chg" \notin sigs \/ inhibited
      /\ pc' = IF deferred THEN "wait" ELSE "packets"
      /\ sigs' = sigs \ {"chg"}
      /\ chgSig' = (chgSig \/ deferred)
      /\ UNCHANGED <<device, dosSig, pubSig, ret, countMoved, cur, counter, volumes,
                     mount, dos, inhibited, timer, workbench>>
SkipMediaChange ==
  /\ pc = "change"
  /\ "chg" \notin sigs \/ inhibited
  /\ pc' = "packets"
  /\ sigs' = sigs \ {"chg"}
  /\ UNCHANGED <<device, signals, ret, countMoved, cur, counter, volumes, mount,
                 dos, inhibited, timer, workbench>>

\* handle_media_change(): read the counter ...
QueryChangeCount ==
  /\ pc = "change"
  /\ "chg" \in sigs /\ ~inhibited
  /\ pc' = "state" /\ sigs' = sigs \ {"chg"}
  /\ \E ok \in May("count") :
       /\ countMoved' = ~(ok /\ changeCount = ChangeNum)
       /\ changeCount' = IF ok THEN ChangeNum ELSE changeCount
  /\ UNCHANGED <<device, signals, ret, cur, chgInstalled, volumes, mount, dos,
                 inhibited, timer, workbench>>

\* An interrupt that tells nothing new: the mounted disc is there and no other
\* disc has been counted since.
CounterVetoes == ~countMoved
Redundant == disc # NoDisc /\ mounted /\ ~countMoved

\* ... then the state of the drive, and drop what is no longer there.
QueryChangeState ==
  /\ pc = "state"
  /\ countMoved' = FALSE
  /\ \E ok \in May("presence") :
       IF ~ok \/ Redundant
       THEN pc' = "packets" /\ UNCHANGED <<ret, mount, volumes, timer, pubSig, workbench>>
       ELSE /\ UnmountVolume
            /\ IF disc = NoDisc THEN pc' = "packets" /\ UNCHANGED ret
                                ELSE pc' = "presence" /\ ret' = "packets"
  /\ UNCHANGED <<device, chgSig, dosSig, sigs, cur, counter, dos, inhibited>>

-----------------------------------------------------------------------------
(* DOS packets.                                                            *)

\* return_packet() to client c.
Reply(c) == req' = [req EXCEPT ![c] = Null]

\* GetMsg() finds the port empty, or there was no packet signal.
NoMorePackets ==
  /\ pc = "packets"
  /\ "dos" \notin sigs \/ port = <<>>
  /\ pc' = "publish" /\ sigs' = sigs \ {"dos"}
  /\ UNCHANGED <<device, signals, ret, countMoved, cur, counter, volumes, mount,
                 dos, inhibited, timer, workbench>>

\* GetMsg() takes the packet of client c with action op off the port.
GetMsg(c, op) ==
  /\ pc = "packets" /\ "dos" \in sigs
  /\ port # <<>> /\ c = Head(port)
  /\ req[c] # Null /\ req[c].op = op
  /\ port' = Tail(port)

\* ACTION_LOCATE_OBJECT, ACTION_FINDINPUT, ACTION_PARENT and duplicates of the
\* root: a new object on the current volume.
\* ACTION_COPY_DIR of a lock: a new object on the volume of the source.
\* Either is refused when the source is stale or there is no volume.
NewObject(c, op) ==
  /\ op \in {"locate", "dup"}
  /\ GetMsg(c, op)
  /\ \E ok \in May("object") :
       LET src == req[c].src
           dst == req[c].dst
           v   == IF op = "dup" /\ src # Null THEN held[src] ELSE current
       IN  IF ok /\ current # Null /\ (src # Null => Valid(src))
           THEN /\ held'   = [held EXCEPT ![dst] = v]
                /\ heldId' = [heldId EXCEPT ![dst] = volId[v]]
                /\ RetainVolumeObject(v)
           ELSE UNCHANGED <<held, heldId, count>>
  /\ Reply(c) /\ pc' = "reap"
  /\ UNCHANGED <<device, signals, ret, sigs, countMoved, cur, counter, live, listed,
                 active, volId, nextId, dosList, mount, inhibited, timer, workbench>>

\* Packets that only look: read, seek, examine, fh-from-lock, info, ...
UseObject(c) ==
  /\ GetMsg(c, "use")
  /\ Reply(c) /\ pc' = "reap"
  /\ UNCHANGED <<device, signals, ret, sigs, countMoved, cur, counter, volumes,
                 mount, held, heldId, inhibited, timer, workbench>>

\* Packets that need a mount are answered without housekeeping if there is none.
WritePacket(c) ==
  /\ GetMsg(c, "write")
  /\ Reply(c)
  /\ pc' = IF mounted THEN "reap" ELSE "packets"
  /\ UNCHANGED <<device, signals, ret, sigs, countMoved, cur, counter, volumes,
                 mount, held, heldId, inhibited, timer, workbench>>

\* ACTION_FREE_LOCK and ACTION_END: release_volume_object() frees a stale
\* volume with its last object.
FreeObject(c) ==
  /\ GetMsg(c, "free")
  /\ LET h == req[c].src
         v == held[h]
         D == IF count[v] = 1 /\ v # current THEN {v} ELSE {}
     IN  /\ held'   = [held EXCEPT ![h] = Null]
         /\ heldId' = [heldId EXCEPT ![h] = 0]
         /\ ReleaseVolumeObject(v)
         /\ \E Stuck \in MayStick(D) : /\ DestroyStaleVolumes(D, Stuck)
                                       /\ active' = active \ (D \ Stuck)
  /\ Reply(c) /\ pc' = "reap"
  /\ UNCHANGED <<device, signals, ret, sigs, countMoved, cur, counter, nextId,
                 mount, inhibited, timer, workbench>>

\* ACTION_INHIBIT, DOSTRUE: drop the volume and stop following the drive.
Inhibit(c) ==
  /\ GetMsg(c, "inhibit")
  /\ inhibited' = TRUE
  /\ UnmountVolume
  /\ Reply(c) /\ pc' = "reap"
  /\ UNCHANGED <<device, chgSig, dosSig, ret, sigs, countMoved, cur, counter,
                 held, heldId>>

\* ACTION_INHIBIT, DOSFALSE: mount what is in the drive, then reply.
Uninhibit(c) ==
  /\ GetMsg(c, "uninhibit")
  /\ inhibited' = FALSE
  /\ cur' = c
  /\ pc' = "presence" /\ ret' = "reply"
  /\ UNCHANGED <<device, signals, sigs, countMoved, counter, volumes, mount, req,
                 held, heldId, timer, workbench>>

ReplyUninhibit ==
  /\ pc = "reply"
  /\ Reply(cur) /\ cur' = Null /\ pc' = "reap"
  /\ UNCHANGED <<device, signals, ret, sigs, countMoved, counter, volumes, mount,
                 port, held, heldId, inhibited, timer, workbench>>

\* ACTION_DIE is refused while locks or file handles exist.
RefuseDie(c) ==
  /\ GetMsg(c, "die")
  /\ \E h \in Handles : held[h] # Null
  /\ Reply(c)
  /\ UNCHANGED <<device, signals, control, counter, volumes, mount, held, heldId,
                 inhibited, timer, workbench>>

\* ACTION_DIE leaves the packet loop, whatever is still queued behind it, and
\* ends the main loop after this turn: cur keeps its packet.
AcceptDie(c) ==
  /\ GetMsg(c, "die")
  /\ \A h \in Handles : held[h] = Null
  /\ cur' = c
  /\ pc' = "publish" /\ sigs' = sigs \ {"dos"}
  /\ UNCHANGED <<device, signals, ret, countMoved, counter, volumes, mount, req,
                 held, heldId, inhibited, timer, workbench>>

\* reap_stale_volumes(), after the client has its reply.
ReapStaleVolumes ==
  /\ pc = "reap"
  /\ pc' = "packets"
  /\ \E Stuck \in MayStick(StaleVolumes) :
       /\ DestroyStaleVolumes(StaleVolumes, Stuck)
       /\ active' = active \ (StaleVolumes \ Stuck)
  /\ UNCHANGED <<device, signals, ret, sigs, countMoved, cur, counter, count,
                 nextId, mount, dos, inhibited, timer, workbench>>

-----------------------------------------------------------------------------
(* The publish retry at the end of the loop, and the shutdown.             *)

\* The guards of handle_volume_publish_retry() that leave nothing to publish.
PublishIdle == ~mounted \/ current = Null \/ current \in listed

\* while (running): once more, or on to the shutdown.
LoopTurns == pc' = IF cur = Null THEN "wait" ELSE "shutdown"

\* No publish signal, a stray one, or nothing left to publish.
SkipPublish ==
  /\ pc = "publish"
  /\ "pub" \notin sigs \/ timer # "done" \/ PublishIdle
  /\ timer' = IF "pub" \in sigs /\ timer = "done" THEN "idle" ELSE timer
  /\ LoopTurns /\ sigs' = {}
  /\ UNCHANGED <<device, signals, ret, countMoved, cur, counter, volumes, mount,
                 dos, inhibited, workbench>>

\* The two outcomes of a retry: Workbench hears of it, or the timer runs again.
PublishedSilently == timer' = "closed" /\ UNCHANGED workbench
Published == timer' = "closed" /\ workbench' = "inserted"
RetryAgain == timer' = "pending" /\ UNCHANGED workbench

\* Try again; done with the timer once the volume is listed.
RetryPublish(ok) ==
  /\ pc = "publish"
  /\ "pub" \in sigs /\ timer = "done" /\ ~PublishIdle
  /\ PublishVolumeNode(current, ok)
  /\ IF ok THEN Published ELSE RetryAgain
  /\ LoopTurns /\ sigs' = {}
  /\ UNCHANGED <<device, signals, ret, countMoved, cur, counter, live, active, count,
                 volId, nextId, mount, dos, inhibited>>

\* remove_media_change(), unmount_volume(), and the reply to ACTION_DIE.
\* begin_shutdown() has seen to it that there is no object left to drain.
Shutdown ==
  /\ pc = "shutdown"
  /\ chgInstalled' = FALSE
  /\ changeCount' = IF chgInstalled THEN Null ELSE changeCount
  /\ UnmountVolume
  /\ Reply(cur) /\ cur' = Null /\ pc' = "exit"
  /\ UNCHANGED <<device, chgSig, dosSig, ret, sigs, countMoved, port, held, heldId,
                 inhibited>>

\* destroy_volume_publish_timer() and the end of the process.
Exit ==
  /\ pc = "exit"
  /\ timer' = "closed"
  /\ pc' = "dead"
  /\ UNCHANGED <<device, signals, ret, sigs, countMoved, cur, counter, volumes,
                 mount, dos, inhibited, workbench>>

-----------------------------------------------------------------------------
(* The specification.                                                      *)

Init ==
  /\ disc \in Discs \cup {NoDisc}
  /\ media = 1 /\ lag = FALSE /\ events = 0
  /\ chgInstalled = FALSE /\ changeCount = Null
  /\ chgSig = FALSE /\ dosSig = FALSE /\ pubSig = FALSE
  /\ pc = "start" /\ ret = "wait" /\ sigs = {} /\ countMoved = FALSE /\ cur = Null
  /\ mounted = FALSE /\ inhibited = FALSE /\ current = Null
  /\ hasCdda = FALSE /\ cddaCtx = "none" /\ mountMedia = 0 /\ mountedBy = "none"
  /\ live = {} /\ listed = {} /\ active = {} /\ dosList = {}
  /\ count = [a \in Addrs |-> 0] /\ volId = [a \in Addrs |-> 0] /\ nextId = 1
  /\ timer = "closed" /\ workbench = "none"
  /\ port = <<>> /\ req = [c \in Clients |-> Null]
  /\ held = [h \in Handles |-> Null] /\ heldId = [h \in Handles |-> 0]

MountVolume == \/ MountPresence \/ MountToc \/ MountFilesystem \/ MountAudio
               \/ MountWithoutNode \/ MountWithoutVolume \/ MountVolumeNode

HandlePacket == \E c \in Clients :
  \/ \E op \in {"locate", "dup"} : NewObject(c, op)
  \/ UseObject(c) \/ WritePacket(c) \/ FreeObject(c)
  \/ Inhibit(c) \/ Uninhibit(c) \/ RefuseDie(c) \/ AcceptDie(c)

HandlerStep ==
  \/ InstallMediaChange \/ MountVolume \/ Wait
  \/ SkipMediaChange \/ QueryChangeCount \/ QueryChangeState
  \/ NoMorePackets \/ HandlePacket \/ ReplyUninhibit \/ ReapStaleVolumes
  \/ SkipPublish \/ (\E ok \in May("doslist") : RetryPublish(ok))
  \/ Shutdown \/ Exit

Environment ==
  \/ Insert \/ Eject \/ CounterCatchesUp \/ StrayInterrupt
  \/ TimerFires \/ ForeignAddDosEntry
  \/ \E c \in Clients, op \in Ops : Send(c, op)

Next == HandlerStep \/ Environment

Spec == Init /\ [][Next]_vars

(* The handler process runs whenever it can, timer.device completes its     *)
(* requests, a polling driver does update its counter, and the DOS list is  *)
(* not locked at every single retry.                                        *)
Fairness ==
  /\ WF_vars(HandlerStep)
  /\ WF_vars(TimerFires)
  /\ WF_vars(CounterCatchesUp)
  /\ SF_vars(RetryPublish(TRUE))

FairSpec == Spec /\ Fairness

-----------------------------------------------------------------------------
(* Properties.                                                             *)

PcStates == {"start", "presence", "toc", "fs", "audio", "node", "wait", "change",
             "state", "packets", "reply", "reap", "publish", "shutdown", "exit", "dead"}

\* Every variable stays in its range.
TypeOK ==
  /\ disc \in Discs \cup {NoDisc} /\ media \in Nat \ {0} /\ lag \in BOOLEAN /\ events \in Nat
  /\ chgInstalled \in BOOLEAN /\ changeCount \in Nat \cup {Null}
  /\ chgSig \in BOOLEAN /\ dosSig \in BOOLEAN /\ pubSig \in BOOLEAN
  /\ pc \in PcStates /\ ret \in {"wait", "packets", "reply"}
  /\ sigs \subseteq {"chg", "dos", "pub"} /\ countMoved \in BOOLEAN
  /\ cur \in Clients \cup {Null}
  /\ mounted \in BOOLEAN /\ inhibited \in BOOLEAN /\ current \in Addrs \cup {Null}
  /\ hasCdda \in BOOLEAN /\ cddaCtx \in {"none", "live", "freed"}
  /\ mountMedia \in Nat /\ mountedBy \in {"none", "wait", "packets", "reply"}
  /\ live \subseteq Addrs /\ listed \subseteq Addrs /\ active \subseteq Addrs
  /\ dosList \subseteq Addrs
  /\ count \in [Addrs -> Nat] /\ volId \in [Addrs -> Nat] /\ nextId \in Nat \ {0}
  /\ timer \in {"closed", "idle", "pending", "done"}
  /\ workbench \in {"none", "inserted", "removed"}
  /\ port \in Seq(Clients) /\ req \in [Clients -> Request \cup {Null}]
  /\ held \in [Handles -> Addrs \cup {Null}] /\ heldId \in [Handles -> Nat]

\* object_count is the number of locks and file handles that point at the
\* volume, so that the last release, and no other, frees a stale volume
\* (retain_volume_object / release_volume_object).
CountsExact == \A a \in Addrs : count[a] = Cardinality(Holders(a))

\* An object's volume pointer never dangles and never comes to mean another
\* volume, although freed volumes give their memory to new ones: the volume it
\* leads to is the one it was made on.
NoAliasing ==
  \A h \in Handles : held[h] # Null => held[h] \in live /\ volId[held[h]] = heldId[h]

\* validate_object_volume() compares addresses.  That is enough: an object is
\* accepted exactly if it was made on the mount that is current now.
ValidMeansSameMount ==
  \A h \in Handles :
    held[h] # Null /\ current # Null => (Valid(h) <=> heldId[h] = volId[current])

\* DOS never sees a volume node whose memory the handler has freed
\* (destroy_stale_volume frees only after detach_volume_node succeeded).
DosListNodesLive == dosList \subseteq live

\* At most the current volume looks active to DOS: every stale volume that
\* stays listed has dl_Task cleared, however its removal is delayed.
OnlyCurrentActive == active = IF current = Null THEN {} ELSE {current}

\* What Workbench was told last agrees with what DOS can see: an inserted event
\* is in force exactly while the current volume is on the DOS list, whether it
\* got there at mount time or by a retry.
WorkbenchInformed ==
  (workbench = "inserted") <=> (current # Null /\ current \in listed)

\* g->has_cdda ("audio tracks detected") is only set while g->cdda_ctx points to
\* a context that exists: the packet code dereferences it on has_cdda alone.
CddaContextLive == mounted /\ hasCdda => cddaCtx = "live"

\* "A change that slips in between install and mount at worst remounts a freshly
\* mounted disc, which holds no locks yet" (handler_main, before
\* install_media_change): a disc mounted at startup is only dropped for a disc
\* change if the medium did change or no object is held on it.
DropsVolume == current # Null /\ current' = Null /\ pc = "state"
StartupRemountHarmless ==
  [][DropsVolume /\ mountedBy = "wait" /\ media = mountMedia => count[current] = 0]_vars

\* "use the counter only to tell a disc swap apart from a redundant re-interrupt
\* on an already-mounted disc (remounting the same disc would invalidate every
\* outstanding lock and file handle)" (handle_media_change): objects lose their
\* volume to a change interrupt only if the medium is another one.
LocksSurviveReinterrupt ==
  [][DropsVolume /\ count[current] # 0 => media # mountMedia]_vars

\* Shutdown tears down the DOS-visible state before replying to the packet.
ShutdownTearsDown == pc \in {"exit", "dead"} => dosList = {}

-----------------------------------------------------------------------------
(* The inductive strengthening of the safety invariants.                   *)

\* A free address is no volume, the current volume is one, and only volumes are
\* flagged as listed; without foreign links that flag is the truth.
VolumesWellFormed ==
  /\ current # Null => current \in live /\ mounted
  /\ listed \subseteq live
  /\ ~ForeignLink => dosList = listed
  /\ pc \in {"toc", "fs", "audio", "node"} => current = Null
  /\ pc = "node" => mounted

\* Volume ids are never given out twice.
IdsUnique ==
  /\ \A a \in live : volId[a] < nextId
  /\ \A a, b \in live : volId[a] = volId[b] => a = b

\* A packet on its way refers to objects that exist, names free slots for the
\* ones to be made, and shares neither with another packet.
RequestsWellFormed ==
  \A c \in Clients : req[c] # Null =>
    /\ req[c].src # Null => held[req[c].src] # Null
    /\ req[c].dst # Null => held[req[c].dst] = Null
    /\ req[c].op \in {"locate", "dup"} => req[c].dst # Null
    /\ req[c].op = "free" => req[c].src # Null
    /\ \A d \in Clients \ {c} : req[d] # Null =>
         /\ req[c].src # Null => req[c].src # req[d].src
         /\ req[c].dst # Null => req[c].dst # req[d].dst

\* The mount steps run with no volume, so none is ever lost.
IndInv ==
  /\ TypeOK /\ VolumesWellFormed /\ IdsUnique /\ RequestsWellFormed
  /\ CountsExact /\ NoAliasing /\ OnlyCurrentActive

\* The first mount, of a medium that may have changed since install_media_change().
FirstMount == pc \in {"presence", "toc", "fs", "audio", "node"} /\ ret = "wait"

\* A transition that handle_media_change() has not counted yet.
Uncounted == chgInstalled /\ changeCount # media

\* No packet has been served: nothing is held, and nothing is inhibited.
Untouched == ~inhibited /\ \A a \in Addrs : count[a] = 0

\* The volume of the first mount, whose medium has not changed since.
FirstVolume == mounted /\ mountedBy = "wait" /\ media = mountMedia

\* For StartupRemountHarmless, with a counter that keeps up: a change that slipped
\* in before the first mount has its signal pending until the first turn of the
\* main loop, and that turn looks at it before it looks at any packet.
StartupInv ==
  /\ ~lag
  /\ mountMedia <= media
  /\ mounted /\ media = mountMedia => disc # NoDisc
  /\ chgSig /\ pc \notin {"exit", "dead"} => chgInstalled
  /\ pc = "change" /\ "chg" \in sigs => chgInstalled
  /\ pc = "start" => ~mounted /\ ~chgInstalled
  /\ pc = "start" \/ FirstMount => Untouched
  /\ FirstMount /\ Uncounted => chgSig
  /\ FirstVolume /\ Uncounted =>
       /\ Untouched
       /\ \/ (FirstMount \/ pc = "wait") /\ chgSig
          \/ pc = "change" /\ "chg" \in sigs
  /\ FirstVolume /\ pc = "state" /\ countMoved => Untouched

-----------------------------------------------------------------------------
(* Liveness, under FairSpec.                                               *)

\* What is mounted is what is in the drive.
InSync ==
  /\ disc = NoDisc => ~mounted
  /\ disc \in DataDiscs \cup AudioDiscs => mounted /\ mountMedia = media

\* Clients that never leave the packet port empty keep the handler from looking
\* at its other signals; these two promises are for when it does sleep.
LoopKeepsTurning == []<>(pc = "wait")

\* Once the drive is left alone the handler ends up with its disc mounted, or
\* with nothing mounted if it is empty, whatever signals were merged, however
\* late the change counter moves and wherever in a mount the disc was swapped
\* (handle_media_change: "the counter must never veto a genuine present/absent
\* transition").  A mount that finds no memory for its volume is not tried again,
\* and there may be none while stale volumes cannot leave the DOS list.
OutOfMemory == pc = "node" /\ Addrs \subseteq live
SettlesOnDisc == LoopKeepsTurning /\ []~OutOfMemory => <>[](inhibited \/ InSync)

\* A volume that stays mounted is eventually on the DOS list.
EventuallyPublished == LoopKeepsTurning => <>[](current = Null \/ current \in listed)

\* Every packet is answered, unless the handler ends first.
PacketsAnswered ==
  \A c \in Clients : req[c] # Null ~> (req[c] = Null \/ pc = "dead")
=============================================================================
