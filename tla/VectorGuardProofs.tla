-------------------------- MODULE VectorGuardProofs --------------------------
(***************************************************************************)
(* Proofs about VectorGuard for any number of calling tasks, any bound on  *)
(* the objects and, except for the last theorem, whether or not vectors    *)
(* are called while the handler starts.                                    *)
(***************************************************************************)
EXTENDS VectorGuard, TLAPS

\* What an ObtainSemaphore() of task t does to owner and queue.
LEMMA ObtainKeeps ==
  ASSUME NEW t \in Tasks, TypeOK, owner = Null => queue = <<>>, Obtain(t)
  PROVE  /\ owner' \in Tasks /\ queue' \in Seq(Tasks)
         /\ owner # Null => owner' = owner
         /\ owner' = t \/ Queued(t)'
         /\ \A c \in Callers : owner = c \/ Queued(c) => owner' = c \/ Queued(c)'
<1>1. CASE owner = Null
  BY <1>1, TaskAssumption DEF Obtain, TypeOK, Tasks, Queued
<1>2. CASE owner # Null
  <2>1. queue' = Append(queue, t) /\ owner' = owner /\ queue \in Seq(Tasks)
    BY <1>2 DEF Obtain, TypeOK
  <2>2. /\ queue' \in Seq(Tasks) /\ Len(queue') = Len(queue) + 1
        /\ queue'[Len(queue) + 1] = t
        /\ \A i \in 1..Len(queue) : queue'[i] = queue[i]
    BY <2>1
  <2>3. Len(queue) \in Nat
    BY <2>1
  <2>4. Queued(t)'
    BY <2>2, <2>3 DEF Queued
  <2>5. \A c \in Callers : Queued(c) => Queued(c)'
    BY <2>2, <2>3 DEF Queued
  <2>. QED
    BY <1>2, <2>1, <2>2, <2>4, <2>5 DEF TypeOK
<1>. QED
  BY <1>1, <1>2

\* What a ReleaseSemaphore() does: everybody who waits stays known to it.
LEMMA ReleaseKeeps ==
  ASSUME TypeOK, Release
  PROVE  /\ owner' \in Tasks \cup {Null} /\ queue' \in Seq(Tasks)
         /\ owner' = Null => queue' = <<>>
         /\ \A c \in Callers : Queued(c) => owner' = c \/ Queued(c)'
<1>1. CASE queue = <<>>
  BY <1>1 DEF Release, TypeOK, Queued
<1>2. CASE queue # <<>>
  <2>1. owner' = Head(queue) /\ queue' = Tail(queue) /\ queue \in Seq(Tasks)
    BY <1>2 DEF Release, TypeOK
  <2>2. /\ owner' \in Tasks /\ queue' \in Seq(Tasks) /\ owner' = queue[1]
        /\ Len(queue) \in Nat /\ Len(queue) > 0 /\ Len(queue') = Len(queue) - 1
        /\ \A i \in 1..Len(queue') : queue'[i] = queue[i + 1]
    BY <1>2, <2>1
  <2>3. ASSUME NEW c \in Callers, NEW i \in 1..Len(queue), queue[i] = c
        PROVE  owner' = c \/ Queued(c)'
    <3>1. CASE i = 1
      BY <2>2, <2>3, <3>1
    <3>2. CASE i # 1
      <4>1. i - 1 \in 1..Len(queue') /\ (i - 1) + 1 = i
        BY <2>2, <3>2
      <4>2. queue'[i - 1] = c
        BY <2>2, <2>3, <4>1
      <4>. QED
        BY <4>1, <4>2 DEF Queued
    <3>. QED
      BY <3>1, <3>2
  <2>. QED
    BY <2>2, <2>3, TaskAssumption DEF Tasks, Queued
<1>. QED
  BY <1>1, <1>2

\* The volume stays typed through a mount in task t.
LEMMA MountTyped ==
  ASSUME NEW t \in Tasks, NEW m \in BOOLEAN, NEW i \in BOOLEAN, TypeOK,
         MountVolume(t, m, i)
  PROVE  mounted' \in BOOLEAN /\ listed' \in BOOLEAN /\ portTask' \in Tasks \cup {Null}
<1>1. CASE Blocked(m, i)
  <2>1. mounted' = m /\ listed' = (m /\ listed) /\ portTask' = portTask
    BY <1>1 DEF MountVolume
  <2>. QED
    BY <2>1 DEF TypeOK
<1>2. CASE Mounting(t)
  <2>1. PICK found \in BOOLEAN, published \in BOOLEAN :
          /\ mounted' = found
          /\ listed' = (found /\ published)
          /\ portTask' = IF found /\ ~published /\ portTask = Null THEN t ELSE portTask
    BY <1>2 DEF Mounting
  <2>2. portTask' = t \/ portTask' = portTask
    BY <2>1
  <2>. QED
    BY <2>1, <2>2 DEF TypeOK
<1>. QED
  BY <1>1, <1>2 DEF MountVolume

\* What an operation does to the objects and the volume, in a task t.
LEMMA EffectTyped ==
  ASSUME NEW t \in Tasks, NEW op, TypeOK, Effect(t, op)
  PROVE  /\ objects' \in Nat
         /\ inhibited' \in BOOLEAN /\ mounted' \in BOOLEAN /\ listed' \in BOOLEAN
         /\ portTask' \in Tasks \cup {Null}
<1>1. CASE op = "open" /\ objects' = objects + 1 /\ UNCHANGED volume
  BY <1>1 DEF TypeOK, volume
<1>2. CASE FreeObject /\ UNCHANGED volume
  BY <1>2 DEF TypeOK, FreeObject, volume
<1>3. CASE UNCHANGED <<objects, volume>>
  BY <1>3 DEF TypeOK, volume
<1>4. CASE inhibited' = TRUE /\ UnmountVolume /\ UNCHANGED objects
  BY <1>4 DEF TypeOK, UnmountVolume
<1>5. CASE inhibited' = FALSE /\ MountVolume(t, mounted, FALSE) /\ UNCHANGED objects
  <2>1. mounted \in BOOLEAN
    BY DEF TypeOK
  <2>. QED
    BY <1>5, <2>1, MountTyped DEF TypeOK
<1>. QED
  BY <1>1, <1>2, <1>3, <1>4, <1>5 DEF Effect

LEMMA InitInv == Init => IndInv
<1>. SUFFICES ASSUME Init PROVE IndInv
  OBVIOUS
<1>1. TypeOK
  <2>1. owner = Null /\ queue \in Seq(Tasks) /\ pc \in PcStates /\ objects \in Nat
    BY DEF Init, PcStates
  <2>2. at \in [Callers -> {"out", "refused", "in", "leaving"}]
    BY DEF Init
  <2>. QED
    BY <2>1, <2>2 DEF Init, TypeOK
<1>2. SemaphoreSound /\ EndGame /\ ShutdownAlone /\ CallerIoOwned
  BY DEF Init, SemaphoreSound, EndGame, ShutdownAlone, CallerIoOwned, Inside
<1>. QED
  BY <1>1, <1>2 DEF IndInv

\* A step that takes the semaphore for the handler, on the way to another place.
LEMMA LockKeeps ==
  ASSUME IndInv, NEW here \in PcStates, NEW next \in PcStates, Lock(here, next),
         next \notin {"start", "mounting"},
         ~entry => next \in {"retry", "teardown"}
  PROVE  IndInv'
<1>. USE DEF IndInv, Lock
<1>1. Handler \in Tasks
  BY DEF Tasks
<1>2. /\ owner' \in Tasks /\ queue' \in Seq(Tasks)
      /\ owner # Null => owner' = owner
      /\ \A c \in Callers : owner = c \/ Queued(c) => owner' = c \/ Queued(c)'
  BY <1>1, ObtainKeeps DEF SemaphoreSound
<1>3. TypeOK'
  BY <1>2 DEF TypeOK, volume
<1>4. SemaphoreSound'
  BY <1>2, TaskAssumption DEF SemaphoreSound, Inside, Tasks
<1>5. EndGame'
  BY DEF EndGame
<1>6. ShutdownAlone'
  BY DEF ShutdownAlone, Inside
<1>7. CallerIoOwned'
  BY <1>2, TaskAssumption DEF CallerIoOwned, TypeOK
<1>. QED
  BY <1>3, <1>4, <1>5, <1>6, <1>7

\* A step under the semaphore that gives it back, whatever it does to the volume.
LEMMA LockedKeeps ==
  ASSUME IndInv, NEW here \in LockedPlaces, NEW next \in PcStates, Locked(here, next),
         next \notin {"start", "mounting"},
         ~entry => /\ next \in {"shutdown", "exit"}
                   /\ objects' = 0,
         objects' \in Nat, inhibited' \in BOOLEAN, mounted' \in BOOLEAN,
         listed' \in BOOLEAN, portTask' \in Tasks \cup {Null}
  PROVE  IndInv'
<1>. USE DEF IndInv, Locked
<1>1. /\ owner' \in Tasks \cup {Null} /\ queue' \in Seq(Tasks)
      /\ owner' = Null => queue' = <<>>
      /\ \A c \in Callers : Queued(c) => owner' = c \/ Queued(c)'
  BY ReleaseKeeps
<1>2. TypeOK'
  BY <1>1 DEF TypeOK
<1>3. SemaphoreSound'
  BY <1>1, TaskAssumption DEF SemaphoreSound, Inside
<1>4. EndGame'
  BY DEF EndGame
<1>5. ShutdownAlone'
  BY DEF ShutdownAlone, Inside
<1>6. CallerIoOwned'
  BY TaskAssumption DEF CallerIoOwned, TypeOK
<1>. QED
  BY <1>2, <1>3, <1>4, <1>5, <1>6

\* A step that leaves the semaphore, the callers and their request alone.
LEMMA UnlockedKeeps ==
  ASSUME IndInv, UNCHANGED <<owner, queue, at, ioTask>>,
         entry' \in BOOLEAN, pc' \in PcStates, objects' \in Nat,
         die' \in {"none", "sent", "refused", "accepted"}, inhibited' \in BOOLEAN,
         mounted' \in BOOLEAN, listed' \in BOOLEAN, portTask' \in Tasks \cup {Null},
         EndGame', ShutdownAlone'
  PROVE  IndInv'
<1>. USE DEF IndInv
<1>1. TypeOK'
  BY DEF TypeOK
<1>2. SemaphoreSound'
  BY DEF SemaphoreSound, Inside, Queued
<1>3. CallerIoOwned'
  BY DEF CallerIoOwned
<1>. QED
  BY <1>1, <1>2, <1>3

\* One step of the handler process.
LEMMA HandlerKeeps == IndInv /\ HandlerStep => IndInv'
<1>. SUFFICES ASSUME IndInv, HandlerStep PROVE IndInv'
  OBVIOUS
<1>. USE DEF IndInv
<1>t. TypeOK /\ EndGame /\ ShutdownAlone /\ SemaphoreSound
  OBVIOUS
<1>h. Handler \in Tasks
  BY DEF Tasks
<1>1. CASE StartMount
  BY <1>1, UnlockedKeeps
  DEF StartMount, TypeOK, volume, PcStates, LockedPlaces, EndGame, ShutdownAlone, Inside
<1>2. CASE FinishMount
  <2>1. ASSUME Mounting(Handler)
        PROVE  mounted' \in BOOLEAN /\ listed' \in BOOLEAN /\ portTask' \in Tasks \cup {Null}
    <3>1. MountVolume(Handler, FALSE, FALSE)
      BY <2>1 DEF MountVolume, Blocked
    <3>. QED
      BY <1>h, <3>1, MountTyped
  <2>2. mounted' \in BOOLEAN /\ listed' \in BOOLEAN /\ portTask' \in Tasks \cup {Null}
    BY <1>2, <2>1 DEF FinishMount, TypeOK
  <2>. QED
    BY <1>2, <2>2, UnlockedKeeps
    DEF FinishMount, TypeOK, PcStates, LockedPlaces, EndGame, ShutdownAlone, Inside
<1>3. CASE ChangeSignal
  BY <1>3, LockKeeps DEF ChangeSignal, Lock, EndGame, PcStates, LockedPlaces
<1>4. CASE NoChangeSignal \/ NoMorePackets
  BY <1>4, UnlockedKeeps
  DEF NoChangeSignal, NoMorePackets, TypeOK, volume, PcStates, LockedPlaces, EndGame,
      ShutdownAlone, Inside
<1>5. CASE HandleMediaChange
  <2>1. /\ Locked("change", "packets") /\ objects' = objects
        /\ inhibited' = inhibited /\ entry
    BY <1>5 DEF HandleMediaChange, Locked, volume, EndGame
  <2>2. mounted' \in BOOLEAN /\ listed' \in BOOLEAN /\ portTask' \in Tasks \cup {Null}
    <3>1. CASE UNCHANGED volume \/ UnmountVolume
      BY <3>1 DEF volume, UnmountVolume, TypeOK
    <3>2. CASE MountVolume(Handler, FALSE, inhibited)
      BY <1>h, <3>2, MountTyped DEF TypeOK
    <3>. QED
      BY <1>5, <3>1, <3>2 DEF HandleMediaChange
  <2>. QED
    BY <2>1, <2>2, LockedKeeps DEF TypeOK, PcStates, LockedPlaces
<1>6. CASE TakePacket \/ ReapLock
  BY <1>6, LockKeeps DEF TakePacket, ReapLock, Lock, EndGame, PcStates, LockedPlaces
<1>7. ASSUME NEW op \in Ops, HandlePacket(op) PROVE IndInv'
  <2>1. Locked("packet", "reap") /\ Effect(Handler, op) /\ entry
    BY <1>7 DEF HandlePacket, Locked, EndGame
  <2>2. /\ objects' \in Nat
        /\ inhibited' \in BOOLEAN /\ mounted' \in BOOLEAN /\ listed' \in BOOLEAN
        /\ portTask' \in Tasks \cup {Null}
    BY <1>h, <2>1, EffectTyped
  <2>. QED
    BY <2>1, <2>2, LockedKeeps DEF PcStates, LockedPlaces
<1>8. CASE ReapStaleVolumes
  <2>1. Locked("reaping", "packets") /\ UNCHANGED <<objects, volume>> /\ entry
    BY <1>8 DEF ReapStaleVolumes, Locked, EndGame
  <2>. QED
    BY <2>1, LockedKeeps DEF TypeOK, volume, PcStates, LockedPlaces
<1>9. CASE RefuseDie
  BY <1>9, UnlockedKeeps DEF RefuseDie, TypeOK, volume, EndGame, ShutdownAlone, Inside
<1>10. CASE AcceptDie
  <2>1. owner = Null /\ objects = 0 /\ pc' = "publish" /\ UNCHANGED <<at, objects>>
    BY <1>10 DEF AcceptDie, Idle
  <2>2. \A c \in Callers : ~Inside(c)
    BY <2>1, TaskAssumption DEF SemaphoreSound, Queued
  <2>3. ShutdownAlone' /\ EndGame'
    BY <2>1, <2>2 DEF ShutdownAlone, EndGame, Inside
  <2>. QED
    BY <1>10, <2>3, UnlockedKeeps DEF AcceptDie, TypeOK, volume, PcStates
<1>11. CASE PublishSignal
  BY <1>11, LockKeeps DEF PublishSignal, Lock, PcStates, LockedPlaces
<1>12. CASE NoPublishSignal
  BY <1>12, UnlockedKeeps
  DEF NoPublishSignal, Continue, TypeOK, volume, PcStates, LockedPlaces, EndGame,
      ShutdownAlone, Inside
<1>13. CASE RetryPublish
  <2>1. Locked("retry", Continue) /\ UNCHANGED <<objects, inhibited, mounted>>
    BY <1>13 DEF RetryPublish
  <2>2. listed' \in BOOLEAN /\ portTask' \in Tasks \cup {Null}
    BY <1>13 DEF RetryPublish, TypeOK
  <2>3. /\ Continue \in PcStates \ {"start", "mounting"}
        /\ ~entry => Continue = "shutdown"
    BY DEF Continue, PcStates
  <2>. QED
    BY <2>1, <2>2, <2>3, LockedKeeps DEF TypeOK, LockedPlaces, ShutdownAlone
<1>14. CASE ShutdownLock
  BY <1>14, LockKeeps DEF ShutdownLock, Lock, PcStates, LockedPlaces
<1>15. CASE Teardown
  BY <1>15, LockedKeeps DEF Teardown, UnmountVolume, TypeOK, PcStates, LockedPlaces
<1>16. CASE Exit
  BY <1>16, UnlockedKeeps
  DEF Exit, TypeOK, PcStates, EndGame, ShutdownAlone, Inside
<1>. QED
  BY <1>1, <1>2, <1>3, <1>4, <1>5, <1>6, <1>7, <1>8, <1>9, <1>10, <1>11, <1>12, <1>13,
     <1>14, <1>15, <1>16
  DEF HandlerStep

\* One step of a calling task, and the arrival of ACTION_DIE.
LEMMA CallerKeeps ==
  ASSUME IndInv, NEW c \in Callers, Enter(c) \/ TurnedAway(c) \/ CallerStep(c)
  PROVE  IndInv'
<1>. USE DEF IndInv
<1>t. c \in Tasks /\ c # Handler /\ c # Null
  BY TaskAssumption DEF Tasks
<1>1. CASE Enter(c)
  <2>1. /\ owner' \in Tasks /\ queue' \in Seq(Tasks)
        /\ owner # Null => owner' = owner
        /\ owner' = c \/ Queued(c)'
        /\ \A d \in Callers : owner = d \/ Queued(d) => owner' = d \/ Queued(d)'
    BY <1>1, <1>t, ObtainKeeps DEF Enter, SemaphoreSound
  <2>2. /\ at' = [at EXCEPT ![c] = "in"] /\ at \in [Callers -> {"out", "refused", "in", "leaving"}]
        /\ entry /\ MayCall /\ UNCHANGED <<entry, pc, die, objects, volume, ioTask>>
    BY <1>1 DEF Enter, TypeOK
  <2>3. TypeOK'
    BY <2>1, <2>2 DEF TypeOK, volume
  <2>4. SemaphoreSound'
    BY <2>1, <2>2, TaskAssumption DEF SemaphoreSound, Inside, Tasks
  <2>5. EndGame'
    BY <2>2 DEF EndGame, MayCall, volume, Inside
  <2>6. ShutdownAlone' /\ CallerIoOwned'
    BY <2>1, <2>2, TaskAssumption DEF ShutdownAlone, CallerIoOwned, TypeOK
  <2>. QED
    BY <2>3, <2>4, <2>5, <2>6
<1>2. CASE TurnedAway(c)
  <2>1. /\ at' = [at EXCEPT ![c] = "refused"]
        /\ at \in [Callers -> {"out", "refused", "in", "leaving"}]
        /\ UNCHANGED <<owner, queue, entry, pc, die, objects, volume, ioTask>>
    BY <1>2 DEF TurnedAway, TypeOK
  <2>2. TypeOK'
    BY <2>1 DEF TypeOK, volume
  <2>3. SemaphoreSound'
    BY <2>1 DEF SemaphoreSound, Inside, Queued
  <2>4. EndGame' /\ ShutdownAlone' /\ CallerIoOwned'
    BY <2>1 DEF EndGame, ShutdownAlone, CallerIoOwned, Inside, volume
  <2>. QED
    BY <2>2, <2>3, <2>4
<1>3. ASSUME NEW op \in Ops, Call(c, op) PROVE IndInv'
  <2>1. /\ at' = [at EXCEPT ![c] = "leaving"]
        /\ at \in [Callers -> {"out", "refused", "in", "leaving"}]
        /\ at[c] = "in" /\ owner = c /\ UNCHANGED <<owner, queue, entry, pc, die>>
        /\ ioTask' = ioTask \/ ioTask' = c
    BY <1>3 DEF Call, TypeOK, TakeCallerIo
  <2>2. /\ objects' \in Nat
        /\ inhibited' \in BOOLEAN /\ mounted' \in BOOLEAN /\ listed' \in BOOLEAN
        /\ portTask' \in Tasks \cup {Null}
    BY <1>3, <1>t, EffectTyped DEF Call
  <2>3. TypeOK'
    BY <2>1, <2>2 DEF TypeOK
  <2>4. SemaphoreSound'
    BY <2>1 DEF SemaphoreSound, Inside, Queued
  <2>5. entry
    BY <2>1 DEF ShutdownAlone, Inside
  <2>6. EndGame' /\ ShutdownAlone' /\ CallerIoOwned'
    BY <2>1, <2>5 DEF EndGame, ShutdownAlone, CallerIoOwned
  <2>. QED
    BY <2>3, <2>4, <2>6
<1>4. CASE Leave(c)
  <2>1. /\ owner' \in Tasks \cup {Null} /\ queue' \in Seq(Tasks)
        /\ owner' = Null => queue' = <<>>
        /\ \A d \in Callers : Queued(d) => owner' = d \/ Queued(d)'
    BY <1>4, ReleaseKeeps DEF Leave
  <2>2. /\ at' = [at EXCEPT ![c] = "out"]
        /\ at \in [Callers -> {"out", "refused", "in", "leaving"}]
        /\ at[c] = "leaving" /\ owner = c /\ UNCHANGED <<entry, pc, die, objects, volume>>
        /\ ioTask' = IF ioTask = c THEN Null ELSE ioTask
    BY <1>4 DEF Leave, TypeOK, ReleaseCallerIo
  <2>3. ioTask' = Null
    BY <2>2 DEF CallerIoOwned
  <2>4. TypeOK'
    BY <2>1, <2>2, <2>3 DEF TypeOK, volume
  <2>5. SemaphoreSound'
    BY <2>1, <2>2 DEF SemaphoreSound, Inside
  <2>6. EndGame' /\ ShutdownAlone'
    BY <2>2 DEF EndGame, ShutdownAlone, Inside, volume
  <2>. QED
    BY <2>3, <2>4, <2>5, <2>6 DEF CallerIoOwned
<1>. QED
  BY <1>1, <1>2, <1>3, <1>4 DEF CallerStep

LEMMA NextInv == IndInv /\ [Next]_vars => IndInv'
<1>. SUFFICES ASSUME IndInv, [Next]_vars PROVE IndInv'
  OBVIOUS
<1>1. CASE HandlerStep
  BY <1>1, HandlerKeeps
<1>2. CASE SendDie
  BY <1>2, UnlockedKeeps
  DEF SendDie, IndInv, TypeOK, volume, EndGame, ShutdownAlone, Inside
<1>3. ASSUME NEW c \in Callers, Enter(c) \/ TurnedAway(c) \/ CallerStep(c) PROVE IndInv'
  BY <1>3, CallerKeeps
<1>4. CASE UNCHANGED vars
  BY <1>4, UnlockedKeeps DEF vars, volume, IndInv, TypeOK, EndGame, ShutdownAlone, Inside
<1>. QED
  BY <1>1, <1>2, <1>3, <1>4 DEF Next

\* The inductive invariant holds: the semaphore knows everybody who is inside a
\* vector, and after the end of the entry only the way out is left to the handler.
THEOREM Inductive == Spec => []IndInv
BY InitInv, NextInv, PTL DEF Spec

\* Every variable of the vector port stays in its range, for any number of tasks.
THEOREM TypeCorrect == Spec => []TypeOK
<1>1. IndInv => TypeOK
  BY DEF IndInv
<1>. QED
  BY <1>1, Inductive, PTL

\* begin_shutdown() never closes the entry over a task that is in a vector or
\* waits to get in, nor over an object: g can be freed.
THEOREM ShutdownSafe == Spec => []ShutdownAlone
<1>1. IndInv => ShutdownAlone
  BY DEF IndInv
<1>. QED
  BY <1>1, Inductive, PTL

\* The request of a calling task exists only while that task owns fs_sem, so
\* that no other task ever finds it or frees it.
THEOREM CallerIoSafe == Spec => []CallerIoOwned
<1>1. IndInv => CallerIoOwned
  BY DEF IndInv
<1>. QED
  BY <1>1, Inductive, PTL

LEMMA EffectInhibits ==
  ASSUME NEW t, NEW op, Effect(t, op)
  PROVE  InhibitRespected
BY DEF Effect, UnmountVolume, volume, InhibitRespected

\* Whenever vectors are called, also before the first mount is done, only that
\* mount can give an inhibited unit a volume, although the main loop looks at
\* g->inhibited without the semaphore.
THEOREM InhibitSafe == Spec => MountsRespectInhibit
<1>1. [Next]_vars => [InhibitRespected]_vars
  <2>. SUFFICES ASSUME [Next]_vars
                PROVE  InhibitRespected
    OBVIOUS
  <2>1. CASE UNCHANGED <<inhibited, mounted>>
    BY <2>1 DEF InhibitRespected
  <2>2. CASE FinishMount
    BY <2>2 DEF FinishMount, InhibitRespected
  <2>3. CASE HandleMediaChange
    <3>1. CASE UNCHANGED volume \/ UnmountVolume
      BY <2>3, <3>1 DEF HandleMediaChange, volume, UnmountVolume, InhibitRespected
    <3>2. CASE MountVolume(Handler, FALSE, inhibited)
      BY <2>3, <3>2
      DEF HandleMediaChange, volume, UnmountVolume, MountVolume, Blocked, InhibitRespected
    <3>. QED
      BY <2>3, <3>1, <3>2 DEF HandleMediaChange
  <2>4. ASSUME NEW op \in Ops, HandlePacket(op) PROVE InhibitRespected
    BY <2>4, EffectInhibits DEF HandlePacket
  <2>5. ASSUME NEW c \in Callers, NEW op \in Ops, Call(c, op) PROVE InhibitRespected
    BY <2>5, EffectInhibits DEF Call
  <2>6. CASE Teardown
    BY <2>6 DEF Teardown, UnmountVolume, InhibitRespected
  <2>7. CASE HandlerStep
    <3>1. CASE \/ StartMount \/ ChangeSignal \/ NoChangeSignal \/ TakePacket \/ ReapLock
               \/ ReapStaleVolumes \/ RefuseDie \/ AcceptDie \/ NoMorePackets
               \/ PublishSignal \/ NoPublishSignal \/ RetryPublish \/ ShutdownLock \/ Exit
      BY <2>1, <3>1
      DEF StartMount, ChangeSignal, NoChangeSignal, TakePacket, ReapLock, ReapStaleVolumes,
          RefuseDie, AcceptDie, NoMorePackets, PublishSignal, NoPublishSignal, RetryPublish,
          ShutdownLock, Exit, Lock, volume
    <3>. QED
      BY <2>2, <2>3, <2>4, <2>6, <2>7, <3>1 DEF HandlerStep
  <2>8. ASSUME NEW c \in Callers, Enter(c) \/ TurnedAway(c) \/ Leave(c)
        PROVE  InhibitRespected
    BY <2>1, <2>8 DEF Enter, TurnedAway, Leave, volume
  <2>9. CASE SendDie \/ UNCHANGED vars
    BY <2>1, <2>9 DEF SendDie, vars, volume
  <2>. QED
    BY <2>5, <2>7, <2>8, <2>9 DEF Next, CallerStep
<1>. QED
  BY <1>1, PTL DEF Spec, MountsRespectInhibit

=============================================================================
