----------------------------- MODULE VectorGuard -----------------------------
(***************************************************************************)
(* The OS4 build, where file system calls do not travel as packets: they   *)
(* run as vectors in the calling task (platform/amiga/os4/vector_port.c),  *)
(* serialized with the handler process by the semaphore fs_sem and shut    *)
(* out by the guard of platform/amiga/os4/vector_guard.h when the handler  *)
(* ends.                                                                   *)
(*                                                                         *)
(* What runs under fs_sem is one step, as is what runs under Forbid().     *)
(* Between these the tasks interleave; the handler process also reads      *)
(* g->inhibited without the semaphore.  Volumes are reduced to "mounted"   *)
(* and objects to their number: HandlerVolumes has the details.            *)
(*                                                                         *)
(* An operator that is used nowhere and stands right before another one is *)
(* a faulty variant of it (README.md, "Faulty variants").                  *)
(***************************************************************************)
EXTENDS Naturals, Sequences

CONSTANTS
  Callers,      \* tasks that call vectors
  Handler,      \* g->handler_task
  Null,         \* no task
  Ops,          \* what vectors and packets do
  MaxObjects    \* bound on the locks and file handles

AllOps == {"open", "close", "read", "inhibit", "uninhibit"}

ASSUME TaskAssumption == Handler \notin Callers /\ Null \notin Callers \cup {Handler}
ASSUME OpsAssumption ==
  Ops \subseteq AllOps /\ MaxObjects \in Nat

Tasks == Callers \cup {Handler}

VARIABLES
  owner,      \* owner of g->fs_sem
  queue,      \* the tasks that wait for it, first come first served
  entry,      \* vp->FSV.FSPrivate still leads to the handler
  at,         \* where each caller is
  pc,         \* where the handler process is
  die,        \* the last ACTION_DIE or ACTION_SHUTDOWN packet
  objects,    \* number of objects on g->locklist and g->fhlist
  inhibited,  \* g->inhibited
  mounted,    \* g->mounted
  listed,     \* the mounted volume is on the DOS list
  ioTask,     \* g->vector_io_task, Null while there is no g->vector_io_req
  portTask    \* the task g->publish_timer_port signals, Null if there is none

volume == <<inhibited, mounted, listed, portTask>>
vars == <<owner, queue, entry, at, pc, die, objects, volume, ioTask>>

-----------------------------------------------------------------------------
(* The semaphore.                                                          *)

Obtain(t) ==
  IF owner = Null THEN owner' = t /\ UNCHANGED queue
                  ELSE queue' = Append(queue, t) /\ UNCHANGED owner

\* Exec hands a released semaphore to the first task that waits for it.
Release ==
  IF queue = <<>> THEN owner' = Null /\ UNCHANGED queue
                  ELSE owner' = Head(queue) /\ queue' = Tail(queue)

-----------------------------------------------------------------------------
(* What both sides do to the handler's state, in task t.                   *)

\* mount_volume() looks at g->inhibited itself, whoever calls it.
BlockedIfMounted(isMounted, isInhibited) == isMounted
Blocked(isMounted, isInhibited) == isMounted \/ isInhibited

\* The outcomes of a mount: no disc, a published volume, or one whose
\* publication is to be retried, for which a port is made if there is none.
Mounting(t) ==
  \E found \in BOOLEAN, published \in BOOLEAN :
    /\ mounted' = found
    /\ listed' = (found /\ published)
    /\ portTask' = IF found /\ ~published /\ portTask = Null THEN t ELSE portTask

MountVolume(t, isMounted, isInhibited) ==
  IF Blocked(isMounted, isInhibited)
  THEN mounted' = isMounted /\ listed' = (isMounted /\ listed) /\ UNCHANGED portTask
  ELSE Mounting(t)

UnmountVolume == mounted' = FALSE /\ listed' = FALSE /\ UNCHANGED portTask

\* A lock or file handle is freed, if there is one.
FreeObject == objects > 0 /\ objects' = objects - 1

\* An operation on objects, which may fail, and odfs_handler_inhibit().
Effect(t, op) ==
  \/ /\ op = "open" /\ mounted /\ objects < MaxObjects
     /\ objects' = objects + 1 /\ UNCHANGED volume
  \/ /\ op = "close"
     /\ FreeObject /\ UNCHANGED volume
  \/ /\ op \in {"open", "read"}
     /\ UNCHANGED <<objects, volume>>
  \/ /\ op = "inhibit"
     /\ inhibited' = TRUE /\ UnmountVolume /\ UNCHANGED objects
  \/ /\ op = "uninhibit"
     /\ inhibited' = FALSE /\ MountVolume(t, mounted, FALSE) /\ UNCHANGED objects

-----------------------------------------------------------------------------
(* Vector calls.                                                           *)

\* activate_vector_port() comes before the first mount: DOS may call at any time.
MayCall == pc # "dead"

\* odfs_os4_acquire_handler(): under Forbid() the handler is looked up and its
\* semaphore obtained, or queued for.
Enter(c) ==
  /\ at[c] \in {"out", "refused"} /\ MayCall
  /\ entry
  /\ at' = [at EXCEPT ![c] = "in"]
  /\ Obtain(c)
  /\ UNCHANGED <<entry, pc, die, objects, volume, ioTask>>

\* vp_require_global() finds no handler.
TurnedAway(c) ==
  /\ at[c] \in {"out", "refused"} /\ MayCall
  /\ ~entry
  /\ at' = [at EXCEPT ![c] = "refused"]
  /\ UNCHANGED <<owner, queue, entry, pc, die, objects, volume, ioTask>>

\* vector_io_request_for_current_task(), if the call reads from the device.
TakeCallerIo(c) == UNCHANGED ioTask \/ (ioTask = Null /\ ioTask' = c)

\* The body of a vector.
Call(c, op) ==
  /\ at[c] = "in" /\ owner = c
  /\ Effect(c, op)
  /\ TakeCallerIo(c)
  /\ at' = [at EXCEPT ![c] = "leaving"]
  /\ UNCHANGED <<owner, queue, entry, pc, die>>

\* fs_unlock(): the request goes first, then the semaphore.
CallerIoKept(c) == UNCHANGED ioTask
ReleaseCallerIo(c) == ioTask' = IF ioTask = c THEN Null ELSE ioTask
LeaveLocked(c) ==
  /\ at[c] = "leaving" /\ owner = c
  /\ at' = [at EXCEPT ![c] = "out"]
  /\ ReleaseCallerIo(c)
  /\ UNCHANGED <<owner, queue, entry, pc, die, objects, volume>>
Leave(c) ==
  /\ at[c] = "leaving" /\ owner = c
  /\ at' = [at EXCEPT ![c] = "out"]
  /\ ReleaseCallerIo(c) /\ Release
  /\ UNCHANGED <<entry, pc, die, objects, volume>>

-----------------------------------------------------------------------------
(* The handler process.                                                    *)

\* The first mount_volume(), which runs without the semaphore: callers may mount,
\* inhibit and unmount meanwhile.  It ends with a volume, with none, or, if it
\* finds no disc, with what the callers have made of it.
StartMount ==
  /\ pc = "start"
  /\ pc' = IF Blocked(mounted, inhibited) THEN "wait" ELSE "mounting"
  /\ UNCHANGED <<owner, queue, entry, at, die, objects, volume, ioTask>>

FinishMount ==
  /\ pc = "mounting"
  /\ pc' = "wait"
  /\ Mounting(Handler) \/ UNCHANGED <<mounted, listed, portTask>>
  /\ UNCHANGED <<owner, queue, entry, at, die, objects, inhibited, ioTask>>

\* ODFS_FS_LOCK() on the way from one place to the next.
Lock(here, next) ==
  /\ pc = here /\ pc' = next
  /\ Obtain(Handler)
  /\ UNCHANGED <<entry, at, die, objects, volume, ioTask>>

\* The handler owns the semaphore and gives it back at the end of the step.
Locked(here, next) ==
  /\ pc = here /\ owner = Handler
  /\ pc' = next /\ Release
  /\ UNCHANGED <<entry, at, die, ioTask>>

\* A change signal; g->inhibited is looked at before the semaphore is obtained.
ChangeSignal == ~inhibited /\ Lock("wait", "change")

NoChangeSignal ==
  /\ pc = "wait" /\ pc' = "packets"
  /\ UNCHANGED <<owner, queue, entry, at, die, objects, volume, ioTask>>

\* handle_media_change(): nothing new, no disc any more, or another one.
HandleMediaChange ==
  /\ Locked("change", "packets")
  /\ \/ UNCHANGED volume
     \/ UnmountVolume /\ UNCHANGED inhibited
     \/ MountVolume(Handler, FALSE, inhibited) /\ UNCHANGED inhibited
  /\ UNCHANGED objects

\* handle_packet(), the reply, and reap_stale_volumes().  A packet that needs a
\* volume when there is none is answered at once and changes nothing.
TakePacket == die # "sent" /\ Lock("packets", "packet")
HandlePacket(op) == Locked("packet", "reap") /\ Effect(Handler, op)
ReapLock == Lock("reap", "reaping")
ReapStaleVolumes == Locked("reaping", "packets") /\ UNCHANGED <<objects, volume>>

SendDie ==
  /\ die \in {"none", "refused"} /\ entry
  /\ die' = "sent"
  /\ UNCHANGED <<owner, queue, entry, at, pc, objects, volume, ioTask>>

\* odfs_os4_begin_shutdown(): nobody in the handler, and nothing of it outside.
IdleButForCalls == objects = 0
Idle == owner = Null /\ objects = 0

RefuseDieUnanswered ==
  /\ pc = "packets" /\ die = "sent"
  /\ ~Idle
  /\ pc' = "publish"
  /\ UNCHANGED <<owner, queue, entry, at, die, objects, volume, ioTask>>
RefuseDie ==
  /\ pc = "packets" /\ die = "sent"
  /\ ~Idle
  /\ die' = "refused"
  /\ UNCHANGED <<owner, queue, entry, at, pc, objects, volume, ioTask>>

AcceptDie ==
  /\ pc = "packets" /\ die = "sent"
  /\ Idle
  /\ die' = "accepted" /\ entry' = FALSE /\ pc' = "publish"
  /\ UNCHANGED <<owner, queue, at, objects, volume, ioTask>>

NoMorePackets ==
  /\ pc = "packets" /\ die # "sent"
  /\ pc' = "publish"
  /\ UNCHANGED <<owner, queue, entry, at, die, objects, volume, ioTask>>

\* The timer's signal arrives here only if the port is this task's.
PublishSignal == portTask = Handler /\ Lock("publish", "retry")

\* while (running): shutdown_pkt is set exactly when the entry is closed.
Continue == IF entry THEN "wait" ELSE "shutdown"
NoPublishSignal ==
  /\ pc = "publish" /\ pc' = Continue
  /\ UNCHANGED <<owner, queue, entry, at, die, objects, volume, ioTask>>

\* handle_volume_publish_retry(), which destroys the timer when it is done.
RetryPublish ==
  /\ Locked("retry", Continue)
  /\ \/ UNCHANGED <<listed, portTask>>
     \/ mounted /\ ~listed /\ listed' = TRUE /\ portTask' = Null
  /\ UNCHANGED <<objects, inhibited, mounted>>

\* The shutdown drains what objects there are.
ShutdownLock == Lock("shutdown", "teardown")
Teardown ==
  /\ Locked("teardown", "exit")
  /\ UnmountVolume /\ objects' = 0 /\ UNCHANGED inhibited

\* The timer, the vector port and g itself are freed.
Exit ==
  /\ pc = "exit" /\ pc' = "dead"
  /\ portTask' = Null
  /\ UNCHANGED <<owner, queue, entry, at, die, objects, inhibited, mounted, listed, ioTask>>

-----------------------------------------------------------------------------
Init ==
  /\ owner = Null /\ queue = <<>> /\ entry = TRUE
  /\ at = [c \in Callers |-> "out"] /\ pc = "start" /\ die = "none"
  /\ objects = 0 /\ inhibited = FALSE /\ mounted = FALSE /\ listed = FALSE
  /\ ioTask = Null /\ portTask = Null

CallerStep(c) == (\E op \in Ops : Call(c, op)) \/ Leave(c)

HandlerStep ==
  \/ StartMount \/ FinishMount
  \/ ChangeSignal \/ NoChangeSignal \/ HandleMediaChange
  \/ TakePacket \/ (\E op \in Ops : HandlePacket(op)) \/ ReapLock \/ ReapStaleVolumes
  \/ RefuseDie \/ AcceptDie \/ NoMorePackets
  \/ PublishSignal \/ NoPublishSignal \/ RetryPublish
  \/ ShutdownLock \/ Teardown \/ Exit

Next ==
  \/ HandlerStep \/ SendDie
  \/ \E c \in Callers : Enter(c) \/ TurnedAway(c) \/ CallerStep(c)

\* Tasks inside the handler run on; nobody has to call it.
Spec == Init /\ [][Next]_vars /\ WF_vars(HandlerStep) /\ \A c \in Callers : WF_vars(CallerStep(c))

-----------------------------------------------------------------------------
(* Properties.                                                             *)

LockedPlaces == {"change", "packet", "reaping", "retry", "teardown"}
PcStates == LockedPlaces \cup
  {"start", "mounting", "wait", "packets", "reap", "publish", "shutdown", "exit", "dead"}

\* Every variable stays in its range.
TypeOK ==
  /\ owner \in Tasks \cup {Null} /\ queue \in Seq(Tasks) /\ entry \in BOOLEAN
  /\ at \in [Callers -> {"out", "refused", "in", "leaving"}] /\ pc \in PcStates
  /\ die \in {"none", "sent", "refused", "accepted"} /\ objects \in Nat
  /\ inhibited \in BOOLEAN /\ mounted \in BOOLEAN /\ listed \in BOOLEAN
  /\ ioTask \in Callers \cup {Null} /\ portTask \in Tasks \cup {Null}

Inside(c) == at[c] \in {"in", "leaving"}

\* "begin_shutdown() has closed vector entry with no callbacks or objects
\* outstanding" (handler_main, shutdown): from then on until g is freed no task
\* is in a vector or waits for the semaphore in g, and no object leads to g.
ShutdownAlone == ~entry => objects = 0 /\ \A c \in Callers : ~Inside(c)

\* Nobody gives an inhibited unit a volume, although the main loop looks at
\* g->inhibited before it has the semaphore and a vector may set it in between
\* (main loop, mount_volume), except the handler's first mount, which does not
\* hold the semaphore at all.
InhibitRespected == inhibited' /\ mounted' => (inhibited /\ mounted) \/ pc = "mounting"
MountsRespectInhibit == [][InhibitRespected]_vars

\* "every vector call releases its request before fs_sem, so a request owned by
\* another task is never ours to free" (vector_io_request_for_current_task).
CallerIoOwned == ioTask # Null => owner = ioTask

\* Whoever gets into a vector gets out, and ACTION_DIE is always answered: the
\* guard refuses "instead of waiting" (vp_require_global), so that no queue of
\* callers holds it up.
CallsReturn == \A c \in Callers : Inside(c) ~> ~Inside(c)
DieAnswered == die = "sent" ~> die # "sent"

\* "OS4 vector callbacks run in the calling process context; the handler process
\* must hold the same semaphore while it touches handler state" (handler_main.c):
\* it is not in a mount while a caller is in a vector.
OneTaskInside == pc = "mounting" => owner = Null

\* handler_task is the "task that owns handler ports" (handler.h): the port that
\* the main loop waits on for publish retries signals the handler.
RetryPortOfHandler == portTask # Null => portTask = Handler

-----------------------------------------------------------------------------
(* The inductive strengthening.                                            *)

Queued(t) == \E i \in 1..Len(queue) : queue[i] = t

\* Who is inside owns the semaphore or waits for it, and nobody waits for a free
\* one.
SemaphoreSound ==
  /\ owner = Null => queue = <<>>
  /\ \A c \in Callers : Inside(c) => owner = c \/ Queued(c)
  /\ \A c \in Callers : at[c] = "leaving" => owner = c

\* After the end of the entry the handler is past its last packet.
EndGame == ~entry => pc \in {"publish", "retry", "shutdown", "teardown", "exit", "dead"}

IndInv == TypeOK /\ SemaphoreSound /\ EndGame /\ ShutdownAlone /\ CallerIoOwned
=============================================================================
