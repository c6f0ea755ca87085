------------------------- MODULE MissionRuntimeProofs -------------------------
(***************************************************************************)
(* MissionRuntime, for every set of missions, coordinators and             *)
(* repositories and every dependency graph: type correctness, for every    *)
(* choice of Faults, and the lemmas on the store's rows and on the         *)
(* threads' stages; one executor per mission and at most one call of its   *)
(* worker under every fault; one thread per repository as long as          *)
(* heartbeats do not stall and drains do not time out; cancel requests     *)
(* that stay.                                                              *)
(***************************************************************************)
EXTENDS MissionRuntime, TLAPS

-----------------------------------------------------------------------------
(* Types.                                                                  *)

\* The updates the store makes to a row yield a row.
LEMMA RowUpdate ==
  ASSUME NEW r \in Row, NEW st \in Status, NEW o \in Coordinators \cup {NoOwner},
         NEW f \in BOOLEAN, NEW b \in BOOLEAN, NEW d \in BOOLEAN
  PROVE  /\ [r EXCEPT !.status = st] \in Row
         /\ [r EXCEPT !.fresh = f] \in Row
         /\ [r EXCEPT !.fresh = f, !.payloadCancel = d] \in Row
         /\ [r EXCEPT !.cancel = b, !.payloadCancel = d, !.status = st] \in Row
         /\ [r EXCEPT !.status = st, !.cancel = b] \in Row
         /\ [r EXCEPT !.status = st, !.claimedBy = o, !.fresh = f] \in Row
         /\ [r EXCEPT !.status = st, !.claimedBy = o, !.fresh = f, !.cancel = b] \in Row
         /\ [r EXCEPT !.status = st, !.claimedBy = o, !.cancel = b, !.payloadCancel = d] \in Row
  BY DEF Row

\* A write that replaces one row by a row is well typed.
LEMMA PutType ==
  ASSUME StoreTypeOK, NEW m \in Missions, NEW r \in Row,
         rows' = [rows EXCEPT ![m] = r], outbox' = outbox
  PROVE  StoreTypeOK'
  BY DEF StoreTypeOK

\* What the store holds, field by field.
LEMMA RowFields ==
  ASSUME StoreTypeOK, NEW m \in Missions
  PROVE  /\ rows[m] \in Row
         /\ rows[m].status \in Status
         /\ rows[m].claimedBy \in Coordinators \cup {NoOwner}
         /\ rows[m].cancel \in BOOLEAN /\ rows[m].payloadCancel \in BOOLEAN
         /\ Read(m) \in Snapshot
<1>1. rows[m] \in Row
  BY DEF StoreTypeOK
<1> QED BY <1>1 DEF Row, Read, Snapshot

\* The statuses the operations write.
LEMMA Statuses ==
  /\ {"QUEUED", "RUNNING", "OBSERVING", "PLANNING", Absent} \subseteq Status
  /\ Terminal \subseteq Status
  /\ {"PASS", "FAIL", "BLOCKED", "BLOCKED_EXTERNAL", "CANCELLED"} \subseteq Terminal
  BY DEF Status, Active, Executing, Terminal

\* Every operation of the store keeps it well typed.
LEMMA EnqueueType ==
  ASSUME StoreTypeOK, NEW m \in Missions, Enqueue(m)
  PROVE  StoreTypeOK'
  BY RowFields, Statuses, RowUpdate, PutType DEF Enqueue

LEMMA RequestCancelType ==
  ASSUME StoreTypeOK, NEW m \in Missions, RequestCancel(m)
  PROVE  StoreTypeOK'
<1> DEFINE st == IF rows[m].status = "QUEUED" THEN "CANCELLED" ELSE rows[m].status
           r == [rows[m] EXCEPT !.cancel = TRUE, !.payloadCancel = TRUE, !.status = st]
<1>1. r \in Row
  BY RowFields, Statuses, RowUpdate
<1>2. rows' = [rows EXCEPT ![m] = r] /\ outbox' = outbox
  BY Zenon DEF RequestCancel
<1> QED BY <1>1, <1>2, PutType

LEMMA ClaimNextType ==
  ASSUME StoreTypeOK, NEW m \in Missions, NEW o \in Coordinators, NEW skip,
         ClaimNext(o, skip, m)
  PROVE  StoreTypeOK'
<1>1. \A x \in Missions :
        /\ rows[x] \in Row
        /\ Block(rows[x]) \in Row
        /\ [rows[x] EXCEPT !.status = "RUNNING", !.claimedBy = o, !.fresh = TRUE] \in Row
  BY RowFields, Statuses, RowUpdate DEF Block
<1>2. rows' \in [Missions -> Row] /\ outbox' = outbox
  BY <1>1 DEF ClaimNext
<1> QED BY <1>2 DEF StoreTypeOK

LEMMA ClaimNothingType ==
  ASSUME StoreTypeOK, NEW skip, ClaimNothing(skip)
  PROVE  StoreTypeOK'
<1>1. \A x \in Missions : rows[x] \in Row /\ Block(rows[x]) \in Row
  BY RowFields, Statuses, RowUpdate DEF Block
<1>2. rows' \in [Missions -> Row] /\ outbox' = outbox
  BY <1>1 DEF ClaimNothing
<1> QED BY <1>2 DEF StoreTypeOK

LEMMA HeartbeatType ==
  ASSUME StoreTypeOK, NEW m \in Missions, NEW o \in Coordinators, Heartbeat(o, m)
  PROVE  StoreTypeOK'
<1> DEFINE d == rows[m].payloadCancel \/ rows[m].cancel
           r == [rows[m] EXCEPT !.fresh = TRUE, !.payloadCancel = d]
<1>1. r \in Row
  BY RowFields, RowUpdate
<1>2. rows' = [rows EXCEPT ![m] = r] /\ outbox' = outbox
  BY Zenon DEF Heartbeat
<1> QED BY <1>1, <1>2, PutType

LEMMA SaveType ==
  ASSUME StoreTypeOK, NEW m \in Missions, NEW snap \in Snapshot, NEW st \in Status,
         Save(m, snap, st)
  PROVE  StoreTypeOK'
<1> DEFINE b == rows[m].cancel \/ snap.payloadCancel
           r == [rows[m] EXCEPT !.status = st, !.claimedBy = snap.claimedBy,
                                !.cancel = b, !.payloadCancel = b]
<1>1. snap.claimedBy \in Coordinators \cup {NoOwner} /\ snap.payloadCancel \in BOOLEAN
  BY DEF Snapshot
<1>2. r \in Row
  BY <1>1, RowFields, RowUpdate
<1>3. rows' = [rows EXCEPT ![m] = r] /\ outbox' = outbox
  BY Zenon DEF Save
<1> QED BY <1>2, <1>3, PutType

LEMMA SaveOwnedType ==
  ASSUME StoreTypeOK, NEW m \in Missions, NEW o \in Coordinators,
         NEW snap \in Snapshot, NEW st \in Status, SaveOwned(o, m, snap, st)
  PROVE  StoreTypeOK'
<1> DEFINE b == rows[m].cancel \/ snap.payloadCancel
           r == [rows[m] EXCEPT !.status = st, !.claimedBy = snap.claimedBy,
                                !.cancel = b, !.payloadCancel = snap.payloadCancel]
<1>1. snap.claimedBy \in Coordinators \cup {NoOwner} /\ snap.payloadCancel \in BOOLEAN
  BY DEF Snapshot
<1>2. r \in Row
  BY <1>1, RowFields, RowUpdate
<1>3. rows' = [rows EXCEPT ![m] = r] /\ outbox' = outbox
  BY Zenon DEF SaveOwned
<1> QED BY <1>2, <1>3, PutType

LEMMA RequeueType ==
  ASSUME StoreTypeOK, NEW m \in Missions, Requeue(m)
  PROVE  StoreTypeOK'
<1> DEFINE b == rows[m].cancel \/ rows[m].payloadCancel
           r == [rows[m] EXCEPT !.status = "QUEUED", !.claimedBy = NoOwner,
                                !.fresh = FALSE, !.cancel = b]
<1>1. r \in Row
  BY RowFields, Statuses, RowUpdate
<1>2. rows' \in {rows, [rows EXCEPT ![m] = r]} /\ outbox' = outbox
  BY Zenon DEF Requeue
<1> QED BY <1>1, <1>2, PutType DEF StoreTypeOK

LEMMA FinalizeMissionType ==
  ASSUME StoreTypeOK, NEW m \in Missions, NEW o \in Coordinators,
         NEW st \in Terminal, FinalizeMission(o, m, st)
  PROVE  StoreTypeOK'
<1> DEFINE b == rows[m].cancel \/ rows[m].payloadCancel
           r == [rows[m] EXCEPT !.status = st, !.cancel = b]
<1>1. r \in Row
  BY RowFields, Statuses, RowUpdate
<1>2. rows' = [rows EXCEPT ![m] = r]
  BY Zenon DEF FinalizeMission
<1>3. outbox' \in [Missions -> Terminal \cup {Absent}]
  BY DEF FinalizeMission, StoreTypeOK
<1> QED BY <1>1, <1>2, <1>3 DEF StoreTypeOK

LEMMA BlockDependentsType ==
  ASSUME StoreTypeOK, NEW m \in Missions, BlockDependents(m)
  PROVE  StoreTypeOK'
<1>1. \A x \in Missions : rows[x] \in Row /\ Block(rows[x]) \in Row
  BY RowFields, Statuses, RowUpdate DEF Block
<1>2. rows' \in [Missions -> Row] /\ outbox' = outbox
  BY <1>1 DEF BlockDependents
<1> QED BY <1>2 DEF StoreTypeOK

LEMMA AgeRowType ==
  ASSUME StoreTypeOK, NEW m \in Missions, AgeRow(m)
  PROVE  StoreTypeOK'
  BY RowFields, RowUpdate, PutType DEF AgeRow

\* The verdict a thread carries into finalize is terminal; TypeOK rests on it, for
\* the verdict goes into the outbox.
Verdicts == \A c \in Coordinators, m \in Missions :
              task[c][m].pc = "finalize" => task[c][m].to \in Terminal

Typed == TypeOK /\ Verdicts

LEMMA TaskFields ==
  ASSUME TypeOK, NEW c \in Coordinators, NEW m \in Missions
  PROVE  /\ task[c][m] \in Task
         /\ task[c][m].pc \in Stage
         /\ task[c][m].snap \in Snapshot
         /\ task[c][m].to \in Status
<1>1. task[c][m] \in Task
  BY DEF TypeOK
<1> QED BY <1>1 DEF Task

\* Where a thread goes without and with a snapshot.
Stand(pc) == [pc |-> pc, snap |-> NoSnapshot, to |-> Absent]

LEMMA Moves ==
  ASSUME NEW c, NEW m, NEW pc, NEW snap, NEW to
  PROVE  /\ Goto(c, m, pc) => task' = [task EXCEPT ![c][m] = Stand(pc)]
         /\ GotoWith(c, m, pc, snap, to) =>
              task' = [task EXCEPT ![c][m] = [pc |-> pc, snap |-> snap, to |-> to]]
<1>1. [Idle EXCEPT !.pc = pc] = Stand(pc)
  BY DEF Idle, Stand
<1> QED BY <1>1 DEF Goto, GotoWith

LEMMA StandType ==
  /\ \A pc \in Stage : Stand(pc) \in Task
  /\ \A pc \in Stage, snap \in Snapshot, to \in Status :
       [pc |-> pc, snap |-> snap, to |-> to] \in Task
  /\ NoSnapshot \in Snapshot
  /\ Idle = Stand("idle")
<1>1. NoSnapshot \in Snapshot
  BY DEF NoSnapshot, Snapshot, Status
<1>2. Idle = Stand("idle")
  BY DEF Idle, Stand
<1> QED BY <1>1, <1>2, Statuses DEF Stand, Task

LEMMA Stages ==
  /\ {"idle", "acquire", "release", "leaked", "abort", "abort_save"} \subseteq Stage
  /\ {"load", "cancel_save", "own_blocked", "own_worker", "dry_read", "dry_save", "ev_read",
      "ev_save", "start", "work", "finalize", "block_deps"} \subseteq Stage
  BY DEF Stage, Admitted, Aborting

\* A thread step is well typed when its store, its runs and its new stage are.
LEMMA ThreadFrame ==
  ASSUME Typed, NEW c \in Coordinators, NEW m \in Missions,
         StoreTypeOK', LeaseTypeOK', runs' \in [Missions -> Nat],
         UNCHANGED <<mode, scan>>,
         NEW t \in Task, t.pc = "finalize" => t.to \in Terminal,
         task' = [task EXCEPT ![c][m] = t]
  PROVE  Typed'
<1>1. task \in [Coordinators -> [Missions -> Task]]
  BY DEF Typed, TypeOK
<1>2. task' \in [Coordinators -> [Missions -> Task]]
  BY <1>1
<1>3. \A d \in Coordinators, x \in Missions :
        task'[d][x] = IF d = c /\ x = m THEN t ELSE task[d][x]
  BY <1>1
<1>4. Verdicts'
  BY <1>3 DEF Typed, Verdicts
<1> QED BY <1>2, <1>4 DEF Typed, TypeOK

\* Steps of a pool thread.
LEMMA TypedThread ==
  ASSUME Typed, NEW c \in Coordinators, NEW m \in Missions,
         Thread(c, m) \/ ThreadError(c, m)
  PROVE  Typed'
<1> DEFINE T == task[c][m]
<1>1. /\ StoreTypeOK /\ LeaseTypeOK
      /\ runs \in [Missions -> Nat]
      /\ T \in Task /\ T.snap \in Snapshot /\ T.to \in Status
      /\ T.pc = "finalize" => T.to \in Terminal
      /\ Read(m) \in Snapshot /\ rows[m].status \in Status
  BY TaskFields, RowFields DEF Typed, Verdicts, TypeOK
<1>2. UNCHANGED storeVars => StoreTypeOK'
  BY <1>1 DEF StoreTypeOK, storeVars
<1>3. UNCHANGED lease => LeaseTypeOK'
  BY <1>1 DEF LeaseTypeOK
<1>4. ASSUME NEW pc \in Stage \ {"finalize"}, Goto(c, m, pc)
      PROVE  \E t \in Task : /\ t.pc = "finalize" => t.to \in Terminal
                             /\ task' = [task EXCEPT ![c][m] = t]
  <2>1. Stand(pc) \in Task /\ Stand(pc).pc = pc
    BY StandType DEF Stand
  <2>2. task' = [task EXCEPT ![c][m] = Stand(pc)]
    BY <1>4, Moves
  <2> QED BY <2>1, <2>2
<1>5. ASSUME NEW pc \in Stage, NEW snap \in Snapshot, NEW to \in Status,
             GotoWith(c, m, pc, snap, to), pc = "finalize" => to \in Terminal
      PROVE  \E t \in Task : /\ t.pc = "finalize" => t.to \in Terminal
                             /\ task' = [task EXCEPT ![c][m] = t]
  <2> DEFINE t == [pc |-> pc, snap |-> snap, to |-> to]
  <2>1. t \in Task /\ (t.pc = "finalize" => t.to \in Terminal)
    BY <1>5, StandType
  <2>2. task' = [task EXCEPT ![c][m] = t]
    BY <1>5 DEF GotoWith
  <2> QED BY <2>1, <2>2
<1>6. SUFFICES /\ StoreTypeOK' /\ LeaseTypeOK' /\ runs' \in [Missions -> Nat]
               /\ UNCHANGED <<mode, scan>>
               /\ \E t \in Task : /\ t.pc = "finalize" => t.to \in Terminal
                                  /\ task' = [task EXCEPT ![c][m] = t]
  BY ThreadFrame
<1> HIDE DEF T
<1>7. CASE AcquireLease(c, m)
  <2>1. LeaseTypeOK'
    <3>1. [owner |-> c, fresh |-> TRUE] \in Lease
      BY DEF Lease
    <3> QED BY <1>1, <1>7, <3>1 DEF AcquireLease, Acquire, LeaseTypeOK
  <2> QED BY <1>1, <1>2, <1>4, <1>7, <2>1, Stages DEF AcquireLease, storeVars
<1>8. CASE AcquireTimeout(c, m)
  BY <1>1, <1>3, <1>4, <1>8, RequeueType, Stages DEF AcquireTimeout
<1>9. CASE Load(c, m)
  BY <1>1, <1>2, <1>3, <1>5, <1>9, Stages, Statuses DEF Load, storeVars
<1>10. CASE FinalizeCancelled(c, m)
  BY <1>1, <1>3, <1>4, <1>10, SaveType, Stages, Statuses DEF FinalizeCancelled, T
<1>11. CASE BlockForNoWorker(c, m)
  BY <1>1, <1>2, <1>3, <1>4, <1>11, SaveOwnedType, Stages, Statuses
     DEF BlockForNoWorker, OwnedSave, storeVars, T
<1>12. CASE RecordWorker(c, m)
  <2>1. T.snap.status \in Status
    BY <1>1 DEF Snapshot
  <2> QED BY <1>1, <1>2, <1>3, <1>4, <1>5, <1>12, <2>1, SaveOwnedType, Stages, Statuses, StandType
          DEF RecordWorker, OwnedSave, storeVars, T
<1>13. CASE DryRead(c, m)
  BY <1>1, <1>2, <1>3, <1>5, <1>13, Stages DEF DryRead, storeVars, T
<1>14. CASE DrySave(c, m)
  <2>1. StoreTypeOK'
    BY <1>1, <1>14, SaveType DEF DrySave, T
  <2> QED BY <1>1, <1>3, <1>4, <1>5, <1>14, <2>1, Stages, Statuses, StandType DEF DrySave
<1>15. CASE EvidenceRead(c, m)
  BY <1>1, <1>2, <1>3, <1>5, <1>15, Stages, Statuses DEF EvidenceRead, storeVars
<1>16. CASE EvidenceSave(c, m)
  <2>1. T.snap.status \in Status
    BY <1>1 DEF Snapshot
  <2> QED BY <1>1, <1>2, <1>3, <1>4, <1>16, <2>1, SaveOwnedType, Stages
          DEF EvidenceSave, OwnedSave, storeVars, T
<1>17. CASE StartWorker(c, m)
  BY <1>1, <1>2, <1>3, <1>4, <1>17, Stages DEF StartWorker, storeVars
<1>18. CASE WorkerSucceeds(c, m) \/ WorkerCancelled(c, m) \/ WorkerFails(c, m)
  BY <1>1, <1>2, <1>3, <1>5, <1>18, Stages, Statuses, StandType
     DEF WorkerSucceeds, WorkerCancelled, WorkerFails, storeVars
<1>19. CASE Finalize(c, m)
  <2>1. StoreTypeOK'
    BY <1>1, <1>2, <1>19, FinalizeMissionType DEF Finalize, At, storeVars, T
  <2> QED BY <1>1, <1>3, <1>4, <1>19, <2>1, Stages DEF Finalize, AfterFinalize
<1>20. CASE BlockDependentMissions(c, m)
  BY <1>1, <1>3, <1>4, <1>20, BlockDependentsType, Stages DEF BlockDependentMissions
<1>21. CASE Release(c, m)
  <2>1. LeaseTypeOK'
    <3>1. Unleased \in Lease
      BY DEF Unleased, Lease
    <3> QED BY <1>1, <1>21, <3>1 DEF Release, ReleaseLease, LeaseTypeOK
  <2>2. Stand("idle") \in Task /\ Stand("idle").pc # "finalize"
    BY StandType, Stages DEF Stand
  <2> QED BY <1>1, <1>2, <1>21, <2>1, <2>2, StandType DEF Release, storeVars
<1>22. CASE AbortRead(c, m)
  BY <1>1, <1>2, <1>3, <1>4, <1>5, <1>22, Stages, Statuses DEF AbortRead, storeVars
<1>23. CASE AbortSave(c, m)
  BY <1>1, <1>3, <1>4, <1>23, SaveType, Stages, Statuses DEF AbortSave, T
<1>24. CASE ThreadError(c, m)
  BY <1>1, <1>2, <1>3, <1>4, <1>24, Stages
     DEF ThreadError, ContextError, FinalizeError, ExecuteError, ReleaseError, storeVars
<1> QED BY <1>7, <1>8, <1>9, <1>10, <1>11, <1>12, <1>13, <1>14, <1>15, <1>16, <1>17, <1>18,
           <1>19, <1>20, <1>21, <1>22, <1>23, <1>24 DEF Thread

\* A step that leaves the threads alone, or ends them.
LEMMA TypedElsewhere ==
  ASSUME Typed,
         \/ Api \/ Time
         \/ \E c \in Coordinators : ClaimLoop(c) \/ Beat(c) \/ Watchdog(c) \/ Lifecycle(c)
  PROVE  Typed'
<1>1. /\ StoreTypeOK /\ LeaseTypeOK
      /\ mode \in [Coordinators -> {"up", "draining", "closed", "crashed"}]
      /\ task \in [Coordinators -> [Missions -> Task]]
      /\ scan \in [Coordinators -> SUBSET Entry]
      /\ runs \in [Missions -> Nat]
  BY DEF Typed, TypeOK
<1>2. UNCHANGED storeVars => StoreTypeOK'
  BY <1>1 DEF StoreTypeOK, storeVars
<1>3. UNCHANGED lease => LeaseTypeOK'
  BY <1>1 DEF LeaseTypeOK
<1>4. UNCHANGED task => Verdicts'
  BY DEF Typed, Verdicts
<1>5. ASSUME NEW m \in Missions, Submit(m) \/ CancelMission(m)  PROVE Typed'
  BY <1>1, <1>3, <1>4, <1>5, EnqueueType, RequestCancelType
     DEF Submit, CancelMission, Typed, TypeOK
<1>6. ASSUME NEW m \in Missions, RowAges(m)  PROVE Typed'
  BY <1>1, <1>3, <1>4, <1>6, AgeRowType DEF RowAges, Typed, TypeOK
<1>7. ASSUME NEW r \in Repos, LeaseAges(r)  PROVE Typed'
  <2>1. LeaseTypeOK'
    BY <1>1, <1>7 DEF LeaseAges, AgeLease, LeaseTypeOK, Lease
  <2> QED BY <1>1, <1>2, <1>4, <1>7, <2>1 DEF LeaseAges, storeVars, Typed, TypeOK
<1>8. ASSUME NEW c \in Coordinators, ClaimPassBlocks(c)  PROVE Typed'
  BY <1>1, <1>3, <1>4, <1>8, ClaimNothingType DEF ClaimPassBlocks, Typed, TypeOK
<1>9. ASSUME NEW c \in Coordinators, NEW m \in Missions, ClaimAndDispatch(c, m)  PROVE Typed'
  <2>1. StoreTypeOK'
    BY <1>1, <1>9, ClaimNextType DEF ClaimAndDispatch
  <2>2. LeaseTypeOK' /\ runs' \in [Missions -> Nat] /\ UNCHANGED <<mode, scan>>
    BY <1>1, <1>3, <1>9 DEF ClaimAndDispatch
  <2>3. Stand("acquire") \in Task /\ Stand("acquire").pc = "acquire"
    BY StandType, Stages DEF Stand
  <2>4. task' = [task EXCEPT ![c][m] = Stand("acquire")]
    BY <1>9, Moves DEF ClaimAndDispatch
  <2> QED BY <2>1, <2>2, <2>3, <2>4, ThreadFrame
<1>10. ASSUME NEW c \in Coordinators, Beat(c)  PROVE Typed'
  <2>1. CASE \E m \in Missions : BeatMission(c, m)
    BY <1>1, <1>3, <1>4, <2>1, HeartbeatType DEF BeatMission, Typed, TypeOK
  <2>2. CASE \E r \in Repos : BeatLease(c, r)
    <3>1. LeaseTypeOK'
      <4>1. PICK r \in Repos : lease' = [lease EXCEPT ![r].fresh = TRUE]
        BY <2>2 DEF BeatLease, LeaseHeartbeat
      <4>2. [lease[r] EXCEPT !.fresh = TRUE] \in Lease
        BY <1>1 DEF LeaseTypeOK, Lease
      <4> QED BY <1>1, <4>1, <4>2 DEF LeaseTypeOK
    <3> QED BY <1>1, <1>2, <1>4, <2>2, <3>1 DEF BeatLease, storeVars, Typed, TypeOK
  <2> QED BY <1>10, <2>1, <2>2 DEF Beat
<1>11. ASSUME NEW c \in Coordinators, WatchdogScan(c)  PROVE Typed'
  <2>1. {[mission |-> m, snap |-> Read(m)] : m \in StaleExecuting} \subseteq Entry
    BY <1>1, RowFields DEF StaleExecuting, Entry
  <2>2. scan' \in [Coordinators -> SUBSET Entry]
    BY <1>1, <1>11, <2>1 DEF WatchdogScan
  <2> QED BY <1>1, <1>2, <1>3, <1>4, <1>11, <2>2 DEF WatchdogScan, storeVars, Typed, TypeOK
<1>12. ASSUME NEW c \in Coordinators, NEW e \in scan[c], WatchdogSkip(c, e) \/ RecoverOne(c, e)
       PROVE  Typed'
  <2>1. e.mission \in Missions /\ e.snap \in Snapshot
    BY <1>1, <1>12 DEF Entry
  <2>2. StoreTypeOK'
    BY <1>1, <1>2, <1>12, <2>1, SaveType, Statuses DEF WatchdogSkip, RecoverOne, storeVars
  <2>3. scan' \in [Coordinators -> SUBSET Entry]
    BY <1>1, <1>12 DEF WatchdogSkip, RecoverOne
  <2> QED BY <1>1, <1>3, <1>4, <1>12, <2>2, <2>3 DEF WatchdogSkip, RecoverOne, Typed, TypeOK
<1>13. ASSUME NEW c \in Coordinators, Stop(c)  PROVE Typed'
  <2>1. mode' \in [Coordinators -> {"up", "draining", "closed", "crashed"}]
    BY <1>1, <1>13 DEF Stop
  <2> QED BY <1>1, <1>2, <1>3, <1>4, <1>13, <2>1 DEF Stop, storeVars, Typed, TypeOK
<1>14. ASSUME NEW c \in Coordinators, Close(c)  PROVE Typed'
  <2>1. mode' \in [Coordinators -> {"up", "draining", "closed", "crashed"}]
    BY <1>1, <1>14 DEF Close
  <2>2. LeaseTypeOK'
    BY <1>1, <1>14 DEF Close, ReleaseAll, LeaseTypeOK, Lease, Unleased
  <2> QED BY <1>1, <1>2, <1>4, <1>14, <2>1, <2>2 DEF Close, storeVars, Typed, TypeOK
<1>15. ASSUME NEW c \in Coordinators, Crash(c)  PROVE Typed'
  <2>1. Idle \in Task /\ Idle.pc = "idle"
    BY StandType, Stages DEF Stand
  <2>2. /\ mode' \in [Coordinators -> {"up", "draining", "closed", "crashed"}]
        /\ task' \in [Coordinators -> [Missions -> Task]]
        /\ scan' \in [Coordinators -> SUBSET Entry]
    BY <1>1, <1>15, <2>1 DEF Crash
  <2>3. \A d \in Coordinators, x \in Missions :
          task'[d][x] = IF d = c THEN Idle ELSE task[d][x]
    BY <1>1, <1>15 DEF Crash
  <2>4. Verdicts'
    BY <2>1, <2>3 DEF Typed, Verdicts
  <2> QED BY <1>1, <1>2, <1>3, <1>15, <2>2, <2>4 DEF Crash, storeVars, Typed, TypeOK
<1> QED BY <1>5, <1>6, <1>7, <1>8, <1>9, <1>10, <1>11, <1>12, <1>13, <1>14, <1>15
        DEF Api, Time, ClaimLoop, Watchdog, Lifecycle

LEMMA TypedInit == Init => Typed
<1> SUFFICES ASSUME Init  PROVE Typed
  OBVIOUS
<1>1. [status |-> Absent, claimedBy |-> NoOwner, fresh |-> FALSE,
       cancel |-> FALSE, payloadCancel |-> FALSE] \in Row
  BY Statuses DEF Row
<1>2. StoreTypeOK
  BY <1>1 DEF Init, StoreInit, StoreTypeOK
<1>3. LeaseTypeOK
  BY DEF Init, LeaseInit, LeaseTypeOK, Unleased, Lease
<1>4. Idle \in Task /\ Idle.pc = "idle"
  BY StandType, Stages DEF Stand
<1>5. Verdicts
  BY <1>4 DEF Init, Verdicts
<1> QED BY <1>2, <1>3, <1>4, <1>5 DEF Init, Typed, TypeOK

LEMMA TypedStep == Typed /\ [Next]_vars => Typed'
<1> SUFFICES ASSUME Typed, [Next]_vars  PROVE Typed'
  OBVIOUS
<1>1. CASE UNCHANGED vars
  BY <1>1 DEF vars, Typed, TypeOK, Verdicts, StoreTypeOK, LeaseTypeOK
<1>2. CASE Next
  BY <1>2, TypedElsewhere, TypedThread DEF Next
<1> QED BY <1>1, <1>2

\* Type correctness, for every choice of Faults.
THEOREM TypeCorrect == Spec => []TypeOK
<1>1. Typed => TypeOK
  BY DEF Typed
<1> QED BY <1>1, TypedInit, TypedStep, PTL DEF Spec

-----------------------------------------------------------------------------
(* One executor, one call of the worker.                                   *)

\* A row in such a status has been claimed, or is finished.
Claimed(st) == st \notin {Absent, "QUEUED"}

BeforeWork == {"acquire", "load", "cancel_save", "own_blocked", "own_worker",
               "dry_read", "dry_save", "ev_read", "ev_save", "start"}

\* A thread that holds its mission holds a claimed row, can only write a claimed
\* status back, and has not called the worker before it reaches work.
ThreadOK(t, st, n) ==
  /\ t.pc \notin {"idle", "release", "leaked"} => Claimed(st)
  /\ t.pc \in {"own_worker", "ev_save"} => Claimed(t.snap.status)
  /\ t.pc \in {"dry_read", "dry_save"} => Claimed(t.to)
  /\ t.pc \in BeforeWork => n = 0

\* The inductive invariant.  OneExecutor alone is not inductive: a row could be
\* QUEUED again under a thread that still holds it.
AtMostOnceInv ==
  /\ Typed
  /\ OneExecutor
  /\ \A c \in Coordinators, m \in Missions : ThreadOK(task[c][m], rows[m].status, runs[m])
  /\ \A m \in Missions : runs[m] <= 1 /\ (Claimed(rows[m].status) \/ runs[m] = 0)

\* No operation of the store makes a claimed row claimable again, except Requeue.
ClaimsKept == \A x \in Missions : Claimed(rows[x].status) => Claimed(rows'[x].status)

LEMMA KeepsClaims ==
  ASSUME StoreTypeOK, NEW m \in Missions
  PROVE  /\ Enqueue(m) \/ RequestCancel(m) \/ AgeRow(m) \/ BlockDependents(m) => ClaimsKept
         /\ \A o \in Coordinators : Heartbeat(o, m) => ClaimsKept
         /\ \A snap \in Snapshot, st \in Status :
              Save(m, snap, st) /\ Claimed(st) => ClaimsKept /\ Claimed(rows'[m].status)
         /\ \A o \in Coordinators, snap \in Snapshot, st \in Status :
              SaveOwned(o, m, snap, st) /\ Claimed(st) => ClaimsKept /\ Claimed(rows'[m].status)
         /\ \A o \in Coordinators, st \in Terminal :
              FinalizeMission(o, m, st) => ClaimsKept /\ Claimed(rows'[m].status)
<1>1. rows \in [Missions -> Row] /\ \A x \in Missions : rows[x] \in Row
  BY DEF StoreTypeOK
<1>2. \A st \in Terminal : Claimed(st)
  BY DEF Terminal, Claimed, Absent
<1>3. ASSUME NEW r \in Row, NEW st
      PROVE  [r EXCEPT !.status = st].status = st
  BY <1>3 DEF Row
<1>4. Enqueue(m) => ClaimsKept
  BY <1>1 DEF Enqueue, ClaimsKept, Claimed, Row
<1>5. RequestCancel(m) => ClaimsKept
  BY <1>1 DEF RequestCancel, ClaimsKept, Claimed, Row, Absent
<1>6. AgeRow(m) => ClaimsKept
  BY <1>1 DEF AgeRow, ClaimsKept, Row
<1>7. BlockDependents(m) => ClaimsKept
  BY <1>1 DEF BlockDependents, Block, ClaimsKept, Claimed, Row, Absent
<1>8. \A o \in Coordinators : Heartbeat(o, m) => ClaimsKept
  BY <1>1 DEF Heartbeat, ClaimsKept, Row
<1>9. \A snap \in Snapshot, st \in Status :
        Save(m, snap, st) /\ Claimed(st) => ClaimsKept /\ Claimed(rows'[m].status)
  BY <1>1 DEF Save, ClaimsKept, Row
<1>10. \A o \in Coordinators, snap \in Snapshot, st \in Status :
         SaveOwned(o, m, snap, st) /\ Claimed(st) => ClaimsKept /\ Claimed(rows'[m].status)
  BY <1>1 DEF SaveOwned, ClaimsKept, Row
<1>11. \A o \in Coordinators, st \in Terminal :
         FinalizeMission(o, m, st) => ClaimsKept /\ Claimed(rows'[m].status)
  BY <1>1, <1>2 DEF FinalizeMission, ClaimsKept, Row
<1> QED BY <1>4, <1>5, <1>6, <1>7, <1>8, <1>9, <1>10, <1>11

\* A claim takes a QUEUED row; a pass may block rows that are QUEUED.
LEMMA ClaimKeepsClaims ==
  ASSUME StoreTypeOK, NEW skip
  PROVE  /\ ClaimNothing(skip) => ClaimsKept
         /\ \A o \in Coordinators, m \in Missions : ClaimNext(o, skip, m) =>
              ClaimsKept /\ rows[m].status = "QUEUED" /\ Claimed(rows'[m].status)
<1>1. rows \in [Missions -> Row] /\ \A x \in Missions : rows[x] \in Row
  BY DEF StoreTypeOK
<1>2. \A x \in Missions : Claimed(Block(rows[x]).status)
  BY <1>1 DEF Block, Claimed, Row, Absent
<1>3. ClaimNothing(skip) => ClaimsKept
  BY <1>2 DEF ClaimNothing, ClaimsKept
<1>4. ASSUME NEW o \in Coordinators, NEW m \in Missions, ClaimNext(o, skip, m)
      PROVE  ClaimsKept /\ rows[m].status = "QUEUED" /\ Claimed(rows'[m].status)
  <2>1. rows[m].status = "QUEUED"
    BY <1>4 DEF ClaimNext, Candidates, Queue
  <2> DEFINE r == [rows[m] EXCEPT !.status = "RUNNING", !.claimedBy = o, !.fresh = TRUE]
  <2>2. Claimed(r.status)
    BY <1>1 DEF Claimed, Row, Absent
  <2> HIDE DEF r
  <2>3. rows'[m] = r /\ \A x \in Missions \ {m} : rows'[x] \in {rows[x], Block(rows[x])}
    BY <1>4 DEF ClaimNext, r
  <2> QED BY <1>2, <2>1, <2>2, <2>3 DEF ClaimsKept
<1> QED BY <1>3, <1>4

\* Steps that leave the threads alone keep the invariant if they keep the claims.
LEMMA AtMostOnceFrame ==
  ASSUME AtMostOnceInv, Typed', ClaimsKept, UNCHANGED <<task, runs>>
  PROVE  AtMostOnceInv'
<1>1. OneExecutor'
  BY DEF AtMostOnceInv, OneExecutor, Holds
<1>2. ASSUME NEW c \in Coordinators, NEW m \in Missions
      PROVE  ThreadOK(task[c][m], rows[m].status, runs[m])'
  BY DEF AtMostOnceInv, ThreadOK, ClaimsKept
<1>3. ASSUME NEW m \in Missions
      PROVE  (runs[m] <= 1 /\ (Claimed(rows[m].status) \/ runs[m] = 0))'
  BY DEF AtMostOnceInv, ClaimsKept
<1> QED BY <1>1, <1>2, <1>3 DEF AtMostOnceInv

\* So does a step of the thread that holds the mission, if its new stage is in order.
LEMMA AtMostOnceMove ==
  ASSUME AtMostOnceInv, Typed', NEW c \in Coordinators, NEW m \in Missions, Holds(c, m),
         NEW t \in Task, task' = [task EXCEPT ![c][m] = t],
         ThreadOK(t, rows'[m].status, runs'[m]),
         \A x \in Missions \ {m} : /\ Claimed(rows[x].status) => Claimed(rows'[x].status)
                                   /\ runs'[x] = runs[x],
         runs'[m] <= 1, Claimed(rows'[m].status) \/ runs'[m] = 0
  PROVE  AtMostOnceInv'
<1>1. \A d \in Coordinators, x \in Missions :
        task'[d][x] = IF d = c /\ x = m THEN t ELSE task[d][x]
  BY DEF AtMostOnceInv, Typed, TypeOK
<1>2. \A d \in Coordinators : d # c => ~Holds(d, m)
  BY DEF AtMostOnceInv, OneExecutor
<1>3. OneExecutor'
  BY <1>1, <1>2 DEF AtMostOnceInv, OneExecutor, Holds
<1>4. ASSUME NEW d \in Coordinators, NEW x \in Missions
      PROVE  ThreadOK(task'[d][x], rows'[x].status, runs'[x])
  <2>1. CASE d = c /\ x = m
    BY <1>1, <2>1
  <2>2. CASE x # m
    BY <1>1, <2>2 DEF AtMostOnceInv, ThreadOK
  <2>3. CASE d # c /\ x = m
    BY <1>1, <1>2, <2>3 DEF ThreadOK, Holds, BeforeWork
  <2> QED BY <2>1, <2>2, <2>3
<1>5. ASSUME NEW x \in Missions
      PROVE  runs'[x] <= 1 /\ (Claimed(rows'[x].status) \/ runs'[x] = 0)
  BY DEF AtMostOnceInv
<1> QED BY <1>3, <1>4, <1>5 DEF AtMostOnceInv

\* A thread that lets its mission go, or has let it go, puts nothing at risk.
LEMMA AtMostOnceLeave ==
  ASSUME AtMostOnceInv, Typed', UNCHANGED <<rows, runs>>,
         NEW c \in Coordinators, NEW m \in Missions,
         NEW t \in Task, t.pc \in {"idle", "release", "leaked"},
         task' = [task EXCEPT ![c][m] = t]
  PROVE  AtMostOnceInv'
<1>1. \A d \in Coordinators, x \in Missions :
        task'[d][x] = IF d = c /\ x = m THEN t ELSE task[d][x]
  BY DEF AtMostOnceInv, Typed, TypeOK
<1>2. OneExecutor'
  BY <1>1 DEF AtMostOnceInv, OneExecutor, Holds
<1>3. \A n, st : ThreadOK(t, st, n)
  BY DEF ThreadOK, BeforeWork
<1>4. ASSUME NEW d \in Coordinators, NEW x \in Missions
      PROVE  ThreadOK(task'[d][x], rows'[x].status, runs'[x])
  BY <1>1, <1>3 DEF AtMostOnceInv
<1> QED BY <1>2, <1>4 DEF AtMostOnceInv

\* Steps of a pool thread.
LEMMA AtMostOnceThread ==
  ASSUME AtMostOnceInv, NEW c \in Coordinators, NEW m \in Missions,
         Thread(c, m) \/ ThreadError(c, m)
  PROVE  AtMostOnceInv'
<1> DEFINE T == task[c][m]
<1>1. /\ StoreTypeOK /\ T \in Task /\ T.snap \in Snapshot /\ T.to \in Status
      /\ Read(m) \in Snapshot /\ Read(m).status = rows[m].status
      /\ T.snap.status \in Status
      /\ T.pc = "finalize" => T.to \in Terminal
      /\ ThreadOK(T, rows[m].status, runs[m])
      /\ runs \in [Missions -> Nat]
      /\ runs[m] <= 1
  BY TaskFields, RowFields DEF AtMostOnceInv, Typed, TypeOK, Verdicts, Read, Snapshot
<1>2. Typed'
  BY TypedThread DEF AtMostOnceInv
<1>3. UNCHANGED storeVars => ClaimsKept
  BY DEF storeVars, ClaimsKept
<1>4. Holds(c, m) => Claimed(rows[m].status)
  BY <1>1 DEF ThreadOK, Holds
<1>5. T.pc \in BeforeWork => runs[m] = 0
  BY <1>1 DEF ThreadOK
<1>6. ASSUME NEW t \in Task, task' = [task EXCEPT ![c][m] = t],
             Holds(c, m), ClaimsKept, UNCHANGED runs,
             t.pc \in BeforeWork => T.pc \in BeforeWork,
             t.pc \in {"own_worker", "ev_save"} => Claimed(t.snap.status),
             t.pc \in {"dry_read", "dry_save"} => Claimed(t.to)
      PROVE  AtMostOnceInv'
  <2>1. Claimed(rows'[m].status)
    BY <1>4, <1>6 DEF ClaimsKept
  <2>2. ThreadOK(t, rows'[m].status, runs'[m])
    BY <1>5, <1>6, <2>1 DEF ThreadOK
  <2> QED BY <1>1, <1>2, <1>6, <2>1, <2>2, AtMostOnceMove DEF ClaimsKept
<1>7. ASSUME NEW pc \in Stage, Goto(c, m, pc), Holds(c, m), ClaimsKept, UNCHANGED runs,
             pc \in BeforeWork => T.pc \in BeforeWork,
             pc \notin {"own_worker", "ev_save", "dry_read", "dry_save"}
      PROVE  AtMostOnceInv'
  <2>1. Stand(pc) \in Task /\ Stand(pc).pc = pc
    BY StandType DEF Stand
  <2>2. task' = [task EXCEPT ![c][m] = Stand(pc)]
    BY <1>7, Moves
  <2> QED BY <1>6, <1>7, <2>1, <2>2
<1>8. ASSUME NEW pc \in Stage, NEW snap \in Snapshot, NEW to \in Status,
             GotoWith(c, m, pc, snap, to), Holds(c, m), ClaimsKept, UNCHANGED runs,
             pc \in BeforeWork => T.pc \in BeforeWork,
             pc \in {"own_worker", "ev_save"} => Claimed(snap.status),
             pc \in {"dry_read", "dry_save"} => Claimed(to)
      PROVE  AtMostOnceInv'
  <2> DEFINE t == [pc |-> pc, snap |-> snap, to |-> to]
  <2>1. t \in Task
    BY StandType
  <2>2. task' = [task EXCEPT ![c][m] = t]
    BY <1>8 DEF GotoWith
  <2> QED BY <1>6, <1>8, <2>1, <2>2
<1> HIDE DEF T
<1>9. CASE AcquireLease(c, m)
  BY <1>3, <1>7, <1>9, Stages DEF AcquireLease, At, Holds, BeforeWork, storeVars, T
<1>10. CASE AcquireTimeout(c, m)
  <2>1. Stand("release") \in Task /\ Stand("release").pc = "release"
    BY StandType, Stages DEF Stand
  <2>2. task' = [task EXCEPT ![c][m] = Stand("release")]
    BY <1>10, Moves DEF AcquireTimeout
  <2>3. Holds(c, m) /\ runs[m] = 0 /\ UNCHANGED runs
    BY <1>5, <1>10 DEF AcquireTimeout, At, Holds, BeforeWork, T
  <2>4. \A x \in Missions \ {m} : rows'[x] = rows[x]
    BY <1>1, <1>10 DEF AcquireTimeout, Requeue, StoreTypeOK
  <2>5. ThreadOK(Stand("release"), rows'[m].status, runs'[m])
    BY <2>1 DEF ThreadOK, BeforeWork
  <2>6. \A x \in Missions \ {m} : /\ Claimed(rows[x].status) => Claimed(rows'[x].status)
                                  /\ runs'[x] = runs[x]
    BY <2>3, <2>4
  <2>7. runs'[m] <= 1 /\ runs'[m] = 0
    BY <2>3
  <2> QED BY <1>2, <2>1, <2>2, <2>3, <2>5, <2>6, <2>7, AtMostOnceMove
<1>11. CASE Load(c, m)
  BY <1>1, <1>3, <1>4, <1>8, <1>11, Stages, Statuses DEF Load, At, Holds, BeforeWork, storeVars, T
<1>12. CASE FinalizeCancelled(c, m)
  <2>1. ClaimsKept
    BY <1>1, <1>12, KeepsClaims, Statuses DEF FinalizeCancelled, Claimed, Absent, T
  <2> QED BY <1>7, <1>12, <2>1, Stages DEF FinalizeCancelled, At, Holds, BeforeWork, T
<1>13. CASE BlockForNoWorker(c, m)
  <2>1. ClaimsKept
    BY <1>1, <1>3, <1>13, KeepsClaims, Statuses
       DEF BlockForNoWorker, OwnedSave, Claimed, Absent, storeVars, T
  <2> QED BY <1>7, <1>13, <2>1, Stages DEF BlockForNoWorker, OwnedSave, At, Holds, BeforeWork, T
<1>14. CASE RecordWorker(c, m)
  <2>1. T.pc = "own_worker" /\ Holds(c, m) /\ UNCHANGED runs
    BY <1>14 DEF RecordWorker, At, Holds, T
  <2>2. Claimed(T.snap.status)
    BY <1>1, <2>1 DEF ThreadOK
  <2>3. ClaimsKept
    BY <1>1, <1>3, <1>14, <2>2, KeepsClaims DEF RecordWorker, OwnedSave, storeVars, T
  <2>4. \/ Goto(c, m, "ev_read") \/ Goto(c, m, "release")
        \/ GotoWith(c, m, "dry_read", NoSnapshot, "OBSERVING")
    BY <1>14 DEF RecordWorker, OwnedSave
  <2>5. Claimed("OBSERVING") /\ "own_worker" \in BeforeWork
    BY DEF Claimed, Absent, BeforeWork
  <2> QED BY <1>7, <1>8, <2>1, <2>3, <2>4, <2>5, Stages, Statuses, StandType DEF BeforeWork
<1>15. CASE DryRead(c, m)
  <2>1. T.pc = "dry_read" /\ Holds(c, m) /\ UNCHANGED runs /\ ClaimsKept
    BY <1>3, <1>15 DEF DryRead, At, Holds, storeVars, T
  <2>2. Claimed(T.to)
    BY <1>1, <2>1 DEF ThreadOK
  <2> QED BY <1>1, <1>8, <1>15, <2>1, <2>2, Stages DEF DryRead, BeforeWork, T
<1>16. CASE DrySave(c, m)
  <2>1. T.pc = "dry_save" /\ Holds(c, m) /\ UNCHANGED runs
    BY <1>16 DEF DrySave, At, Holds, T
  <2>2. Claimed(T.to)
    BY <1>1, <2>1 DEF ThreadOK
  <2>3. ClaimsKept
    BY <1>1, <1>16, <2>2, KeepsClaims DEF DrySave, T
  <2>4. \/ GotoWith(c, m, "dry_read", NoSnapshot, "PLANNING")
        \/ GotoWith(c, m, "dry_read", NoSnapshot, "PASS")
        \/ Goto(c, m, "release")
    BY <1>16 DEF DrySave
  <2>5. Claimed("PLANNING") /\ Claimed("PASS") /\ "dry_save" \in BeforeWork
    BY DEF Claimed, Absent, BeforeWork
  <2> QED BY <1>7, <1>8, <2>1, <2>3, <2>4, <2>5, Stages, Statuses, StandType DEF BeforeWork
<1>17. CASE EvidenceRead(c, m)
  BY <1>1, <1>3, <1>4, <1>8, <1>17, Stages, Statuses
     DEF EvidenceRead, At, Holds, BeforeWork, storeVars, T
<1>18. CASE EvidenceSave(c, m)
  <2>1. T.pc = "ev_save" /\ Holds(c, m) /\ UNCHANGED runs
    BY <1>18 DEF EvidenceSave, At, Holds, T
  <2>2. Claimed(T.snap.status)
    BY <1>1, <2>1 DEF ThreadOK
  <2>3. ClaimsKept
    BY <1>1, <1>3, <1>18, <2>2, KeepsClaims DEF EvidenceSave, OwnedSave, storeVars, T
  <2>4. Goto(c, m, "start") \/ Goto(c, m, "release")
    BY <1>18 DEF EvidenceSave, OwnedSave
  <2> QED BY <1>7, <2>1, <2>3, <2>4, Stages DEF BeforeWork
<1>19. CASE StartWorker(c, m)
  <2>1. Stand("work") \in Task /\ Stand("work").pc = "work"
    BY StandType, Stages DEF Stand
  <2>2. task' = [task EXCEPT ![c][m] = Stand("work")]
    BY <1>19, Moves DEF StartWorker
  <2>3. Holds(c, m) /\ runs[m] = 0 /\ UNCHANGED rows
    BY <1>5, <1>19 DEF StartWorker, At, Holds, BeforeWork, T
  <2>4. runs'[m] = 1 /\ \A x \in Missions \ {m} : runs'[x] = runs[x]
    BY <1>1, <1>19, <2>3 DEF StartWorker
  <2>5. Claimed(rows'[m].status)
    BY <1>4, <2>3
  <2>6. ThreadOK(Stand("work"), rows'[m].status, runs'[m])
    BY <2>1, <2>5 DEF ThreadOK, BeforeWork
  <2>7. \A x \in Missions \ {m} : /\ Claimed(rows[x].status) => Claimed(rows'[x].status)
                                  /\ runs'[x] = runs[x]
    BY <2>3, <2>4
  <2>8. runs'[m] <= 1
    BY <2>4
  <2> QED BY <1>2, <2>1, <2>2, <2>3, <2>5, <2>6, <2>7, <2>8, AtMostOnceMove
<1>20. CASE WorkerSucceeds(c, m) \/ WorkerCancelled(c, m) \/ WorkerFails(c, m)
  <2>1. Holds(c, m) /\ UNCHANGED runs /\ ClaimsKept
    BY <1>3, <1>20 DEF WorkerSucceeds, WorkerCancelled, WorkerFails, At, Holds, storeVars
  <2>2. \E st \in Terminal : GotoWith(c, m, "finalize", NoSnapshot, st)
    BY <1>20, Statuses DEF WorkerSucceeds, WorkerCancelled, WorkerFails
  <2> QED BY <1>8, <2>1, <2>2, Stages, Statuses, StandType DEF BeforeWork
<1>21. CASE Finalize(c, m)
  <2>1. T.pc = "finalize" /\ Holds(c, m) /\ UNCHANGED runs
    BY <1>21 DEF Finalize, At, Holds, T
  <2>2. ClaimsKept
    BY <1>1, <1>3, <1>21, <2>1, KeepsClaims DEF Finalize, storeVars, T
  <2>3. Goto(c, m, "release") \/ Goto(c, m, "block_deps")
    BY <1>21 DEF Finalize, AfterFinalize
  <2> QED BY <1>7, <2>1, <2>2, <2>3, Stages DEF BeforeWork
<1>22. CASE BlockDependentMissions(c, m)
  <2>1. Holds(c, m) /\ UNCHANGED runs /\ ClaimsKept /\ Goto(c, m, "release")
    BY <1>1, <1>22, KeepsClaims DEF BlockDependentMissions, At, Holds
  <2> QED BY <1>7, <2>1, Stages DEF BeforeWork
<1>23. CASE AbortRead(c, m)
  <2>1. Holds(c, m) /\ UNCHANGED runs /\ ClaimsKept
    BY <1>3, <1>23 DEF AbortRead, At, Holds, storeVars
  <2>2. Goto(c, m, "release") \/ GotoWith(c, m, "abort_save", Read(m), Absent)
    BY <1>23 DEF AbortRead
  <2> QED BY <1>1, <1>7, <1>8, <2>1, <2>2, Stages, Statuses DEF BeforeWork
<1>24. CASE AbortSave(c, m)
  <2>1. Holds(c, m) /\ UNCHANGED runs /\ Goto(c, m, "release")
    BY <1>24 DEF AbortSave, At, Holds
  <2>2. ClaimsKept
    BY <1>1, <1>24, KeepsClaims, Statuses DEF AbortSave, Claimed, Absent, T
  <2> QED BY <1>7, <2>1, <2>2, Stages DEF BeforeWork
<1>25. CASE ContextError(c, m) \/ FinalizeError(c, m) \/ ExecuteError(c, m)
  <2>1. Holds(c, m) /\ UNCHANGED runs /\ ClaimsKept
    BY <1>3, <1>25 DEF ContextError, FinalizeError, ExecuteError, Aborting, At, Holds, storeVars
  <2>2. \/ Goto(c, m, "start") /\ T.pc \in BeforeWork
        \/ Goto(c, m, "release") \/ Goto(c, m, "abort")
    BY <1>25 DEF ContextError, FinalizeError, ExecuteError, At, BeforeWork, T
  <2> QED BY <1>7, <2>1, <2>2, Stages DEF BeforeWork
<1>26. CASE Release(c, m) \/ ReleaseError(c, m)
  <2>1. Stand("leaked") \in Task /\ Stand("leaked").pc = "leaked"
    BY StandType, Stages DEF Stand
  <2>2. Idle \in Task /\ Idle.pc = "idle"
    BY StandType, Stages DEF Stand
  <2>3. \/ task' = [task EXCEPT ![c][m] = Idle]
        \/ task' = [task EXCEPT ![c][m] = Stand("leaked")]
    BY <1>26, Moves DEF Release, ReleaseError
  <2>4. UNCHANGED <<rows, runs>>
    BY <1>26 DEF Release, ReleaseError
  <2> QED BY <1>2, <2>1, <2>2, <2>3, <2>4, AtMostOnceLeave
<1> QED BY <1>9, <1>10, <1>11, <1>12, <1>13, <1>14, <1>15, <1>16, <1>17, <1>18, <1>19, <1>20,
           <1>21, <1>22, <1>23, <1>24, <1>25, <1>26 DEF Thread, ThreadError

\* Every other step.
LEMMA AtMostOnceElsewhere ==
  ASSUME AtMostOnceInv,
         \/ Api \/ Time
         \/ \E c \in Coordinators : ClaimLoop(c) \/ Beat(c) \/ Watchdog(c) \/ Lifecycle(c)
  PROVE  AtMostOnceInv'
<1>1. StoreTypeOK /\ Typed'
  BY TypedElsewhere DEF AtMostOnceInv, Typed, TypeOK
<1>2. UNCHANGED storeVars => ClaimsKept
  BY DEF storeVars, ClaimsKept
<1>3. ASSUME NEW m \in Missions, Submit(m) \/ CancelMission(m) \/ RowAges(m)
      PROVE  AtMostOnceInv'
  BY <1>1, <1>3, KeepsClaims, AtMostOnceFrame DEF Submit, CancelMission, RowAges
<1>4. ASSUME NEW r \in Repos, LeaseAges(r)  PROVE AtMostOnceInv'
  BY <1>1, <1>2, <1>4, AtMostOnceFrame DEF LeaseAges, storeVars
<1>5. ASSUME NEW c \in Coordinators, ClaimPassBlocks(c)  PROVE AtMostOnceInv'
  BY <1>1, <1>5, ClaimKeepsClaims, AtMostOnceFrame DEF ClaimPassBlocks
<1>6. ASSUME NEW c \in Coordinators, NEW m \in Missions, ClaimAndDispatch(c, m)
      PROVE  AtMostOnceInv'
  <2> DEFINE t == Stand("acquire")
  <2>1. t \in Task /\ t.pc = "acquire"
    BY StandType, Stages DEF Stand
  <2>2. task' = [task EXCEPT ![c][m] = t] /\ UNCHANGED runs
    BY <1>6, Moves DEF ClaimAndDispatch
  <2>3. ClaimsKept /\ rows[m].status = "QUEUED" /\ Claimed(rows'[m].status)
    BY <1>1, <1>6, ClaimKeepsClaims DEF ClaimAndDispatch
  <2>4. runs[m] = 0 /\ \A d \in Coordinators : ~Holds(d, m)
    BY <2>3 DEF AtMostOnceInv, ThreadOK, Holds, Claimed
  <2> HIDE DEF t
  <2>5. \A d \in Coordinators, x \in Missions :
          task'[d][x] = IF d = c /\ x = m THEN t ELSE task[d][x]
    BY <2>2 DEF AtMostOnceInv, Typed, TypeOK
  <2>6. OneExecutor'
    BY <2>1, <2>4, <2>5 DEF AtMostOnceInv, OneExecutor, Holds
  <2>7. ASSUME NEW d \in Coordinators, NEW x \in Missions
        PROVE  ThreadOK(task'[d][x], rows'[x].status, runs'[x])
    <3>1. CASE d = c /\ x = m
      BY <2>1, <2>2, <2>3, <2>4, <2>5, <3>1 DEF ThreadOK
    <3>2. CASE ~(d = c /\ x = m)
      BY <2>2, <2>3, <2>5, <3>2 DEF AtMostOnceInv, ThreadOK, ClaimsKept
    <3> QED BY <3>1, <3>2
  <2>8. ASSUME NEW x \in Missions
        PROVE  runs'[x] <= 1 /\ (Claimed(rows'[x].status) \/ runs'[x] = 0)
    BY <2>2, <2>3 DEF AtMostOnceInv, ClaimsKept
  <2> QED BY <1>1, <2>6, <2>7, <2>8 DEF AtMostOnceInv
<1>7. ASSUME NEW c \in Coordinators, Beat(c)  PROVE AtMostOnceInv'
  <2>1. ClaimsKept /\ UNCHANGED <<task, runs>>
    BY <1>1, <1>2, <1>7, KeepsClaims DEF Beat, BeatMission, BeatLease, storeVars
  <2> QED BY <1>1, <2>1, AtMostOnceFrame
<1>8. ASSUME NEW c \in Coordinators, WatchdogScan(c) \/ Stop(c) \/ Close(c)
      PROVE  AtMostOnceInv'
  <2>1. ClaimsKept /\ UNCHANGED <<task, runs>>
    BY <1>2, <1>8 DEF WatchdogScan, Stop, Close, storeVars
  <2> QED BY <1>1, <2>1, AtMostOnceFrame
<1>9. ASSUME NEW c \in Coordinators, NEW e \in scan[c], WatchdogSkip(c, e) \/ RecoverOne(c, e)
      PROVE  AtMostOnceInv'
  <2>1. e.mission \in Missions /\ e.snap \in Snapshot
    BY <1>9 DEF AtMostOnceInv, Typed, TypeOK, Entry
  <2>2. Claimed("FAIL")
    BY DEF Claimed, Absent
  <2>3. ClaimsKept
    BY <1>1, <1>2, <1>9, <2>1, <2>2, KeepsClaims, Statuses
       DEF WatchdogSkip, RecoverOne, storeVars
  <2>4. UNCHANGED <<task, runs>>
    BY <1>9 DEF WatchdogSkip, RecoverOne
  <2> QED BY <1>1, <2>3, <2>4, AtMostOnceFrame
<1>10. ASSUME NEW c \in Coordinators, Crash(c)  PROVE AtMostOnceInv'
  <2>1. Idle.pc = "idle"
    BY StandType DEF Stand
  <2>2. \A d \in Coordinators, x \in Missions :
          task'[d][x] = IF d = c THEN Idle ELSE task[d][x]
    BY <1>10 DEF Crash, AtMostOnceInv, Typed, TypeOK
  <2>3. UNCHANGED <<rows, runs>>
    BY <1>10 DEF Crash
  <2>4. \A st, n : ThreadOK(Idle, st, n)
    BY <2>1 DEF ThreadOK, BeforeWork
  <2>5. OneExecutor'
    BY <2>1, <2>2 DEF AtMostOnceInv, OneExecutor, Holds
  <2>6. ASSUME NEW d \in Coordinators, NEW x \in Missions
        PROVE  ThreadOK(task'[d][x], rows'[x].status, runs'[x])
    BY <2>2, <2>3, <2>4 DEF AtMostOnceInv
  <2> QED BY <1>1, <2>3, <2>5, <2>6 DEF AtMostOnceInv
<1> QED BY <1>3, <1>4, <1>5, <1>6, <1>7, <1>8, <1>9, <1>10
        DEF Api, Time, ClaimLoop, Watchdog, Lifecycle

LEMMA AtMostOnceInit == Init => AtMostOnceInv
<1> SUFFICES ASSUME Init  PROVE AtMostOnceInv
  OBVIOUS
<1>1. Typed
  BY TypedInit
<1>2. Idle.pc = "idle"
  BY StandType DEF Stand
<1>3. /\ \A c \in Coordinators, m \in Missions : task[c][m] = Idle
      /\ \A m \in Missions : runs[m] = 0
  BY DEF Init
<1> QED BY <1>1, <1>2, <1>3 DEF AtMostOnceInv, OneExecutor, Holds, ThreadOK, BeforeWork

LEMMA AtMostOnceStep == AtMostOnceInv /\ [Next]_vars => AtMostOnceInv'
<1> SUFFICES ASSUME AtMostOnceInv, [Next]_vars  PROVE AtMostOnceInv'
  OBVIOUS
<1>1. CASE UNCHANGED vars
  <2>1. Typed' /\ ClaimsKept /\ UNCHANGED <<task, runs>>
    BY <1>1, TypedStep DEF vars, AtMostOnceInv, ClaimsKept
  <2> QED BY <2>1, AtMostOnceFrame
<1>2. CASE Next
  BY <1>2, AtMostOnceElsewhere, AtMostOnceThread DEF Next
<1> QED BY <1>1, <1>2

\* However heartbeats stall, drains time out and stores fail, no two coordinators
\* run threads for one mission.
THEOREM OneExecutorAlways == Spec => []OneExecutor
<1>1. AtMostOnceInv => OneExecutor
  BY DEF AtMostOnceInv
<1> QED BY <1>1, AtMostOnceInit, AtMostOnceStep, PTL DEF Spec

\* Under the same faults the worker of a mission is called at most once.
THEOREM AtMostOnce == Spec => []ExecutedAtMostOnce
<1>1. AtMostOnceInv => ExecutedAtMostOnce
  BY DEF AtMostOnceInv, ExecutedAtMostOnce
<1> QED BY <1>1, AtMostOnceInit, AtMostOnceStep, PTL DEF Spec

-----------------------------------------------------------------------------
(* One thread per repository.                                              *)

\* The inductive invariant.  Admitted threads own the lease of their repository;
\* the leases of live coordinators are fresh, so nobody steals them; only live
\* coordinators have admitted threads; one coordinator's missions are of
\* different repositories.
LeaseInv ==
  /\ Typed
  /\ \A c \in Coordinators, m \in Missions :
       /\ task[c][m].pc \in Admitted => lease[RepoOf[m]].owner = c
       /\ task[c][m].pc \notin {"idle", "leaked"} => Beats(c)
  /\ \A c \in Coordinators, m, x \in Missions :
       /\ task[c][m].pc # "idle" /\ task[c][x].pc # "idle" /\ RepoOf[m] = RepoOf[x]
       => m = x
  /\ \A c \in Coordinators, r \in Repos : lease[r].owner = c /\ Beats(c) => lease[r].fresh

Punctual == Faults \cap {"stall", "drain_timeout"} = {}

LEMMA LeaseFields ==
  ASSUME Typed, NEW c \in Coordinators, NEW m \in Missions
  PROVE  /\ RepoOf[m] \in Repos
         /\ lease \in [Repos -> Lease]
         /\ task \in [Coordinators -> [Missions -> Task]]
         /\ mode \in [Coordinators -> {"up", "draining", "closed", "crashed"}]
         /\ c # NoOwner
  BY RuntimeAssumption, StoreAssumption DEF Typed, TypeOK, LeaseTypeOK

\* Steps of a thread that stays admitted, or leaves, without touching the leases.
LEMMA LeaseMove ==
  ASSUME LeaseInv, Typed', NEW c \in Coordinators, NEW m \in Missions,
         NEW t \in Task, task' = [task EXCEPT ![c][m] = t],
         task[c][m].pc \notin {"idle", "leaked"},
         t.pc \in Admitted => task[c][m].pc \in Admitted,
         UNCHANGED <<lease, mode>>
  PROVE  LeaseInv'
<1>1. \A d \in Coordinators, x \in Missions :
        task'[d][x] = IF d = c /\ x = m THEN t ELSE task[d][x]
  BY LeaseFields DEF LeaseInv
<1> QED BY <1>1 DEF LeaseInv, Beats

\* Steps that leave threads, leases and modes alone.
LEMMA LeaseFrame ==
  ASSUME LeaseInv, Typed', UNCHANGED <<lease, mode, task>>
  PROVE  LeaseInv'
  BY DEF LeaseInv, Beats

\* Steps of a pool thread.
LEMMA LeaseThread ==
  ASSUME LeaseInv, NEW c \in Coordinators, NEW m \in Missions,
         Thread(c, m) \/ ThreadError(c, m)
  PROVE  LeaseInv'
<1> DEFINE T == task[c][m]
<1>1. Typed'
  BY TypedThread DEF LeaseInv
<1>2. /\ RepoOf[m] \in Repos /\ lease \in [Repos -> Lease] /\ c # NoOwner
      /\ task \in [Coordinators -> [Missions -> Task]]
      /\ T \in Task /\ T.snap \in Snapshot /\ T.to \in Status /\ Read(m) \in Snapshot
  BY LeaseFields, TaskFields, RowFields DEF LeaseInv, Typed, TypeOK
<1>3. ASSUME NEW pc \in Stage, Goto(c, m, pc), T.pc \notin {"idle", "leaked"},
             pc \in Admitted => T.pc \in Admitted, UNCHANGED <<lease, mode>>
      PROVE  LeaseInv'
  <2>1. Stand(pc) \in Task /\ Stand(pc).pc = pc
    BY StandType DEF Stand
  <2>2. task' = [task EXCEPT ![c][m] = Stand(pc)]
    BY <1>3, Moves
  <2> QED BY <1>1, <1>3, <2>1, <2>2, LeaseMove
<1>4. ASSUME NEW pc \in Stage, NEW snap \in Snapshot, NEW to \in Status,
             GotoWith(c, m, pc, snap, to), T.pc \notin {"idle", "leaked"},
             pc \in Admitted => T.pc \in Admitted, UNCHANGED <<lease, mode>>
      PROVE  LeaseInv'
  <2> DEFINE t == [pc |-> pc, snap |-> snap, to |-> to]
  <2>1. t \in Task
    BY StandType
  <2>2. task' = [task EXCEPT ![c][m] = t]
    BY <1>4 DEF GotoWith
  <2> QED BY <1>1, <1>4, <2>1, <2>2, LeaseMove
<1> HIDE DEF T
<1>5. CASE AcquireLease(c, m)
  <2> DEFINE r == RepoOf[m]
             t == Stand("load")
  <2>1. t \in Task /\ t.pc = "load"
    BY StandType, Stages DEF Stand
  <2>2. task' = [task EXCEPT ![c][m] = t] /\ T.pc = "acquire" /\ UNCHANGED mode
    BY <1>5, Moves DEF AcquireLease, At, T
  <2>3. /\ lease' = [lease EXCEPT ![r] = [owner |-> c, fresh |-> TRUE]]
        /\ lease[r].owner \in {NoOwner, c} \/ ~lease[r].fresh
    BY <1>5 DEF AcquireLease, Acquire, Acquirable
  <2> HIDE DEF r, t
  <2>4. \A d \in Coordinators, x \in Missions :
          task'[d][x] = IF d = c /\ x = m THEN t ELSE task[d][x]
    BY <1>2, <2>2
  <2>5. \A q \in Repos : /\ q = r => lease'[q].owner = c /\ lease'[q].fresh
                         /\ q # r => lease'[q] = lease[q]
    BY <1>2, <2>3 DEF r
  \* Nobody else is admitted to this repository: its owner would be live, so fresh.
  <2>6. \A d \in Coordinators, x \in Missions :
          d # c /\ RepoOf[x] = r => task[d][x].pc \notin Admitted
    <3>1. SUFFICES ASSUME NEW d \in Coordinators, NEW x \in Missions,
                          d # c, RepoOf[x] = r, task[d][x].pc \in Admitted
                   PROVE  FALSE
      OBVIOUS
    <3>2. lease[r].owner = d /\ Beats(d)
      BY <3>1 DEF LeaseInv, Admitted
    <3>3. r \in Repos /\ d # NoOwner
      BY <1>2, StoreAssumption DEF r
    <3>4. lease[r].fresh
      BY <3>2, <3>3 DEF LeaseInv
    <3> QED BY <2>3, <3>1, <3>2, <3>3, <3>4
  <2>7. Beats(c)
    BY <2>2 DEF LeaseInv, T
  <2>8. ASSUME NEW d \in Coordinators, NEW x \in Missions
        PROVE  /\ task'[d][x].pc \in Admitted => lease'[RepoOf[x]].owner = d
               /\ task'[d][x].pc \notin {"idle", "leaked"} => Beats(d)'
    <3>1. RepoOf[x] \in Repos
      BY RuntimeAssumption
    <3> QED BY <2>1, <2>2, <2>4, <2>5, <2>6, <2>7, <3>1 DEF LeaseInv, Beats, r
  <2>9. ASSUME NEW d \in Coordinators, NEW x \in Missions, NEW y \in Missions,
               task'[d][x].pc # "idle", task'[d][y].pc # "idle", RepoOf[x] = RepoOf[y]
        PROVE  x = y
    BY <2>2, <2>4, <2>9 DEF LeaseInv, T
  <2>10. ASSUME NEW d \in Coordinators, NEW q \in Repos, lease'[q].owner = d, Beats(d)'
         PROVE  lease'[q].fresh
    BY <2>2, <2>5, <2>10 DEF LeaseInv, Beats
  <2> QED BY <1>1, <2>8, <2>9, <2>10 DEF LeaseInv
<1>6. CASE Release(c, m)
  <2> DEFINE r == RepoOf[m]
  <2>1. /\ task' = [task EXCEPT ![c][m] = Idle] /\ T.pc = "release" /\ UNCHANGED mode
        /\ lease' \in {lease, [lease EXCEPT ![r] = Unleased]}
        /\ lease[r].owner # c => lease' = lease
    BY <1>6 DEF Release, ReleaseLease, At, T
  <2>2. Idle.pc = "idle" /\ "idle" \notin Admitted /\ Unleased.owner = NoOwner
    BY StandType DEF Stand, Unleased, Admitted
  <2>3. \A d \in Coordinators, x \in Missions :
          task'[d][x] = IF d = c /\ x = m THEN Idle ELSE task[d][x]
    BY <1>2, <2>1
  <2>4. \A q \in Repos : \/ lease'[q] = lease[q]
                         \/ q = r /\ lease[r].owner = c /\ lease'[q] = Unleased
    BY <1>2, <2>1
  <2> HIDE DEF r
  <2>5. ASSUME NEW d \in Coordinators, NEW x \in Missions
        PROVE  /\ task'[d][x].pc \in Admitted => lease'[RepoOf[x]].owner = d
               /\ task'[d][x].pc \notin {"idle", "leaked"} => Beats(d)'
    <3>1. RepoOf[x] \in Repos
      BY RuntimeAssumption
    <3>2. task'[d][x].pc \in Admitted => lease'[RepoOf[x]].owner = d
      <4>1. SUFFICES ASSUME task'[d][x].pc \in Admitted
                     PROVE  lease'[RepoOf[x]].owner = d
        OBVIOUS
      <4>2. ~(d = c /\ x = m) /\ task[d][x].pc \in Admitted
        BY <2>2, <2>3, <4>1
      <4>3. lease[RepoOf[x]].owner = d
        BY <4>2 DEF LeaseInv
      <4>4. ~(RepoOf[x] = r /\ d = c)
        BY <2>1, <4>2 DEF LeaseInv, Admitted, r, T
      <4> QED BY <2>4, <3>1, <4>3, <4>4
    <3>3. task'[d][x].pc \notin {"idle", "leaked"} => Beats(d)'
      BY <2>1, <2>2, <2>3 DEF LeaseInv, Beats
    <3> QED BY <3>2, <3>3
  <2>6. ASSUME NEW d \in Coordinators, NEW x \in Missions, NEW y \in Missions,
               task'[d][x].pc # "idle", task'[d][y].pc # "idle", RepoOf[x] = RepoOf[y]
        PROVE  x = y
    BY <2>2, <2>3, <2>6 DEF LeaseInv
  <2>7. ASSUME NEW d \in Coordinators, NEW q \in Repos, lease'[q].owner = d, Beats(d)'
        PROVE  lease'[q].fresh
    BY <2>1, <2>2, <2>4, <2>7, StoreAssumption DEF LeaseInv, Beats
  <2> QED BY <1>1, <2>5, <2>6, <2>7 DEF LeaseInv
<1>7. CASE AcquireTimeout(c, m) \/ ReleaseError(c, m)
  BY <1>3, <1>7, Stages DEF AcquireTimeout, ReleaseError, At, Admitted, T
<1>8. CASE Load(c, m)
  BY <1>2, <1>4, <1>8, Stages, Statuses DEF Load, At, Admitted, T
<1>9. CASE FinalizeCancelled(c, m) \/ BlockForNoWorker(c, m) \/ EvidenceSave(c, m)
  BY <1>3, <1>9, Stages
     DEF FinalizeCancelled, BlockForNoWorker, EvidenceSave, OwnedSave, At, Admitted, T
<1>10. CASE RecordWorker(c, m)
  <2>1. T.pc = "own_worker" /\ UNCHANGED <<lease, mode>>
    BY <1>10 DEF RecordWorker, At, T
  <2>2. \/ Goto(c, m, "ev_read") \/ Goto(c, m, "release")
        \/ GotoWith(c, m, "dry_read", NoSnapshot, "OBSERVING")
    BY <1>10 DEF RecordWorker, OwnedSave
  <2> QED BY <1>3, <1>4, <2>1, <2>2, Stages, Statuses, StandType DEF Admitted
<1>11. CASE DryRead(c, m) \/ EvidenceRead(c, m)
  BY <1>2, <1>4, <1>11, Stages, Statuses DEF DryRead, EvidenceRead, At, Admitted, T
<1>12. CASE DrySave(c, m)
  <2>1. T.pc = "dry_save" /\ UNCHANGED <<lease, mode>>
    BY <1>12 DEF DrySave, At, T
  <2>2. \/ GotoWith(c, m, "dry_read", NoSnapshot, "PLANNING")
        \/ GotoWith(c, m, "dry_read", NoSnapshot, "PASS")
        \/ Goto(c, m, "release")
    BY <1>12 DEF DrySave
  <2> QED BY <1>3, <1>4, <2>1, <2>2, Stages, Statuses, StandType DEF Admitted
<1>13. CASE StartWorker(c, m) \/ BlockDependentMissions(c, m) \/ AbortSave(c, m)
  BY <1>3, <1>13, Stages DEF StartWorker, BlockDependentMissions, AbortSave, At, Admitted, T
<1>14. CASE WorkerSucceeds(c, m) \/ WorkerCancelled(c, m) \/ WorkerFails(c, m)
  <2>1. T.pc = "work" /\ UNCHANGED <<lease, mode>>
    BY <1>14 DEF WorkerSucceeds, WorkerCancelled, WorkerFails, At, T
  <2>2. \E st \in Status : GotoWith(c, m, "finalize", NoSnapshot, st)
    BY <1>14, Statuses DEF WorkerSucceeds, WorkerCancelled, WorkerFails
  <2> QED BY <1>4, <2>1, <2>2, Stages, StandType DEF Admitted
<1>15. CASE Finalize(c, m)
  <2>1. T.pc = "finalize" /\ UNCHANGED <<lease, mode>>
    BY <1>15 DEF Finalize, At, T
  <2>2. Goto(c, m, "release") \/ Goto(c, m, "block_deps")
    BY <1>15 DEF Finalize, AfterFinalize
  <2> QED BY <1>3, <2>1, <2>2, Stages DEF Admitted
<1>16. CASE AbortRead(c, m)
  <2>1. T.pc = "abort" /\ UNCHANGED <<lease, mode>>
    BY <1>16 DEF AbortRead, At, T
  <2>2. Goto(c, m, "release") \/ GotoWith(c, m, "abort_save", Read(m), Absent)
    BY <1>16 DEF AbortRead
  <2> QED BY <1>2, <1>3, <1>4, <2>1, <2>2, Stages, Statuses DEF Admitted
<1>17. CASE ContextError(c, m) \/ FinalizeError(c, m) \/ ExecuteError(c, m)
  <2>1. T.pc \notin {"idle", "leaked"} /\ UNCHANGED <<lease, mode>>
    BY <1>17 DEF ContextError, FinalizeError, ExecuteError, Aborting, At, T
  <2>2. \/ Goto(c, m, "start") /\ T.pc \in Admitted
        \/ Goto(c, m, "release") \/ Goto(c, m, "abort")
    BY <1>17 DEF ContextError, FinalizeError, ExecuteError, At, Admitted, T
  <2> QED BY <1>3, <2>1, <2>2, Stages DEF Admitted
<1> QED BY <1>5, <1>6, <1>7, <1>8, <1>9, <1>10, <1>11, <1>12, <1>13, <1>14, <1>15, <1>16, <1>17
        DEF Thread, ThreadError

\* Every other step.
LEMMA LeaseElsewhere ==
  ASSUME LeaseInv, Punctual,
         \/ Api \/ Time
         \/ \E c \in Coordinators : ClaimLoop(c) \/ Beat(c) \/ Watchdog(c) \/ Lifecycle(c)
  PROVE  LeaseInv'
<1>1. Typed'
  BY TypedElsewhere DEF LeaseInv
<1>2. /\ lease \in [Repos -> Lease]
      /\ task \in [Coordinators -> [Missions -> Task]]
      /\ mode \in [Coordinators -> {"up", "draining", "closed", "crashed"}]
      /\ RepoOf \in [Missions -> Repos]
      /\ NoOwner \notin Coordinators
  BY RuntimeAssumption, StoreAssumption DEF LeaseInv, Typed, TypeOK, LeaseTypeOK
<1>3. ASSUME NEW m \in Missions, Submit(m) \/ CancelMission(m) \/ RowAges(m)  PROVE LeaseInv'
  BY <1>1, <1>3, LeaseFrame DEF Submit, CancelMission, RowAges
<1>4. ASSUME NEW r \in Repos, LeaseAges(r)  PROVE LeaseInv'
  <2>1. ~LeaseBeaten(r) /\ UNCHANGED <<mode, task>>
    BY <1>4 DEF LeaseAges, Punctual
  <2>2. lease' = [lease EXCEPT ![r].fresh = FALSE]
    BY <1>4 DEF LeaseAges, AgeLease
  <2>3. \A q \in Repos : lease'[q].owner = lease[q].owner /\ (q # r => lease'[q] = lease[q])
    BY <1>2, <2>2 DEF Lease
  <2>4. ASSUME NEW c \in Coordinators, NEW q \in Repos, lease'[q].owner = c, Beats(c)'
        PROVE  lease'[q].fresh
    BY <2>1, <2>3, <2>4 DEF LeaseInv, LeaseBeaten, Beats
  <2> QED BY <1>1, <1>2, <2>1, <2>3, <2>4 DEF LeaseInv, Beats
<1>5. ASSUME NEW c \in Coordinators, ClaimPassBlocks(c)  PROVE LeaseInv'
  BY <1>1, <1>5, LeaseFrame DEF ClaimPassBlocks
<1>6. ASSUME NEW c \in Coordinators, NEW m \in Missions, ClaimAndDispatch(c, m)
      PROVE  LeaseInv'
  <2> DEFINE t == Stand("acquire")
  <2>1. t \in Task /\ t.pc = "acquire"
    BY StandType, Stages DEF Stand
  <2>2. task' = [task EXCEPT ![c][m] = t] /\ UNCHANGED <<lease, mode>>
    BY <1>6, Moves DEF ClaimAndDispatch
  <2>3. Beats(c)
    BY <1>6 DEF ClaimAndDispatch, HasCapacity, Beats
  <2>4. \A x \in Missions : task[c][x].pc # "idle" => RepoOf[x] # RepoOf[m]
    BY <1>6 DEF ClaimAndDispatch, ClaimNext, Candidates, Queue, InflightRepos, Inflight
  <2> HIDE DEF t
  <2>5. \A d \in Coordinators, x \in Missions :
          task'[d][x] = IF d = c /\ x = m THEN t ELSE task[d][x]
    BY <1>2, <2>2
  <2>6. ASSUME NEW d \in Coordinators, NEW x \in Missions
        PROVE  /\ task'[d][x].pc \in Admitted => lease'[RepoOf[x]].owner = d
               /\ task'[d][x].pc \notin {"idle", "leaked"} => Beats(d)'
    BY <2>1, <2>2, <2>3, <2>5 DEF LeaseInv, Beats, Admitted
  <2>7. ASSUME NEW d \in Coordinators, NEW x \in Missions, NEW y \in Missions,
               task'[d][x].pc # "idle", task'[d][y].pc # "idle", RepoOf[x] = RepoOf[y]
        PROVE  x = y
    BY <2>4, <2>5, <2>7 DEF LeaseInv
  <2>8. ASSUME NEW d \in Coordinators, NEW q \in Repos, lease'[q].owner = d, Beats(d)'
        PROVE  lease'[q].fresh
    BY <2>2, <2>8 DEF LeaseInv, Beats
  <2> QED BY <1>1, <2>6, <2>7, <2>8 DEF LeaseInv
<1>7. ASSUME NEW c \in Coordinators, NEW m \in Missions, BeatMission(c, m)  PROVE LeaseInv'
  BY <1>1, <1>7, LeaseFrame DEF BeatMission
<1>8. ASSUME NEW c \in Coordinators, NEW r \in Repos, BeatLease(c, r)  PROVE LeaseInv'
  <2>1. lease' = [lease EXCEPT ![r].fresh = TRUE] /\ UNCHANGED <<mode, task>>
    BY <1>8 DEF BeatLease, LeaseHeartbeat
  <2>2. \A q \in Repos : /\ lease'[q].owner = lease[q].owner
                         /\ lease[q].fresh => lease'[q].fresh
    BY <1>2, <2>1 DEF Lease
  <2> QED BY <1>1, <1>2, <2>1, <2>2 DEF LeaseInv, Beats
<1>9. ASSUME NEW c \in Coordinators, WatchdogScan(c)  PROVE LeaseInv'
  BY <1>1, <1>9, LeaseFrame DEF WatchdogScan
<1>10. ASSUME NEW c \in Coordinators, NEW e \in scan[c], WatchdogSkip(c, e) \/ RecoverOne(c, e)
       PROVE  LeaseInv'
  BY <1>1, <1>10, LeaseFrame DEF WatchdogSkip, RecoverOne
<1>11. ASSUME NEW c \in Coordinators, Stop(c)  PROVE LeaseInv'
  <2>1. \A d \in Coordinators : Beats(d)' = Beats(d)
    BY <1>2, <1>11 DEF Stop, Beats
  <2>2. UNCHANGED <<lease, task>>
    BY <1>11 DEF Stop
  <2> QED BY <1>1, <2>1, <2>2 DEF LeaseInv
<1>12. ASSUME NEW c \in Coordinators, Close(c)  PROVE LeaseInv'
  \* No thread of c is left, for the drain did not time out.
  <2>1. \A m \in Missions : task[c][m].pc \in {"idle", "leaked"}
    BY <1>12 DEF Close, Punctual
  <2>2. \A d \in Coordinators : Beats(d)' <=> d # c /\ Beats(d)
    BY <1>2, <1>12 DEF Close, Beats
  <2>3. \A q \in Repos : \/ lease'[q] = lease[q]
                         \/ lease[q].owner = c /\ lease'[q].owner = NoOwner
    BY <1>2, <1>12 DEF Close, ReleaseAll, Unleased
  <2>4. UNCHANGED task
    BY <1>12 DEF Close
  <2>5. ASSUME NEW d \in Coordinators, NEW x \in Missions
        PROVE  /\ task'[d][x].pc \in Admitted => lease'[RepoOf[x]].owner = d
               /\ task'[d][x].pc \notin {"idle", "leaked"} => Beats(d)'
    BY <1>2, <2>1, <2>2, <2>3, <2>4 DEF LeaseInv, Admitted
  <2>6. ASSUME NEW d \in Coordinators, NEW q \in Repos, lease'[q].owner = d, Beats(d)'
        PROVE  lease'[q].fresh
    BY <1>2, <2>2, <2>3, <2>6 DEF LeaseInv
  <2> QED BY <1>1, <2>4, <2>5, <2>6 DEF LeaseInv
<1>13. ASSUME NEW c \in Coordinators, Crash(c)  PROVE LeaseInv'
  <2>1. Idle.pc = "idle"
    BY StandType DEF Stand
  <2>2. \A d \in Coordinators, x \in Missions :
          task'[d][x] = IF d = c THEN Idle ELSE task[d][x]
    BY <1>2, <1>13 DEF Crash
  <2>3. \A d \in Coordinators : Beats(d)' <=> d # c /\ Beats(d)
    BY <1>2, <1>13 DEF Crash, Beats
  <2>4. UNCHANGED lease
    BY <1>13 DEF Crash
  <2>5. ASSUME NEW d \in Coordinators, NEW x \in Missions
        PROVE  /\ task'[d][x].pc \in Admitted => lease'[RepoOf[x]].owner = d
               /\ task'[d][x].pc \notin {"idle", "leaked"} => Beats(d)'
    BY <2>1, <2>2, <2>3, <2>4 DEF LeaseInv, Admitted
  <2>6. ASSUME NEW d \in Coordinators, NEW x \in Missions, NEW y \in Missions,
               task'[d][x].pc # "idle", task'[d][y].pc # "idle", RepoOf[x] = RepoOf[y]
        PROVE  x = y
    BY <2>1, <2>2, <2>6 DEF LeaseInv
  <2> QED BY <1>1, <2>3, <2>4, <2>5, <2>6 DEF LeaseInv
<1> QED BY <1>3, <1>4, <1>5, <1>6, <1>7, <1>8, <1>9, <1>10, <1>11, <1>12, <1>13
        DEF Api, Time, ClaimLoop, Beat, Watchdog, Lifecycle

LEMMA LeaseStart == Init => LeaseInv
<1> SUFFICES ASSUME Init  PROVE LeaseInv
  OBVIOUS
<1>1. Idle.pc = "idle"
  BY StandType DEF Stand
<1>2. \A c \in Coordinators, m \in Missions : task[c][m].pc = "idle"
  BY <1>1 DEF Init
<1>3. \A r \in Repos : lease[r].owner = NoOwner
  BY DEF Init, LeaseInit, Unleased
<1> QED BY <1>2, <1>3, TypedInit, StoreAssumption DEF LeaseInv, Admitted

LEMMA LeaseStep == LeaseInv /\ Punctual /\ [Next]_vars => LeaseInv'
<1> SUFFICES ASSUME LeaseInv, Punctual, [Next]_vars  PROVE LeaseInv'
  OBVIOUS
<1>1. CASE UNCHANGED vars
  <2>1. Typed' /\ UNCHANGED <<lease, mode, task>>
    BY <1>1, TypedStep DEF vars, LeaseInv
  <2> QED BY <2>1, LeaseFrame
<1>2. CASE Next
  BY <1>2, LeaseElsewhere, LeaseThread DEF Next
<1> QED BY <1>1, <1>2

\* As long as heartbeats do not stall and drains do not time out, two threads are
\* never admitted to one repository, whatever crashes and whatever errors occur.
THEOREM OneThreadPerRepository ==
  ASSUME Punctual
  PROVE  Spec => []RepoExclusion
<1>1. LeaseInv => RepoExclusion
  BY RuntimeAssumption DEF LeaseInv, RepoExclusion, Admitted
<1>2. LeaseInv /\ [Next]_vars => LeaseInv'
  BY LeaseStep
<1> QED BY <1>1, <1>2, LeaseStart, PTL DEF Spec
-----------------------------------------------------------------------------
(* Cancel requests stay.                                                   *)

CancelsKept == \A x \in Missions : rows[x].cancel => rows'[x].cancel

LEMMA PutKeepsCancels ==
  ASSUME StoreTypeOK, NEW m \in Missions, NEW r,
         rows' = [rows EXCEPT ![m] = r], rows[m].cancel => r.cancel
  PROVE  CancelsKept
<1>1. \A x \in Missions : rows'[x] = IF x = m THEN r ELSE rows[x]
  BY DEF StoreTypeOK
<1> QED BY <1>1, Zenon DEF CancelsKept

\* Every write of the store keeps the column it finds set.
LEMMA WritesKeepCancels ==
  ASSUME StoreTypeOK, NEW m \in Missions
  PROVE  /\ Enqueue(m) \/ RequestCancel(m) \/ AgeRow(m) \/ BlockDependents(m) \/ Requeue(m)
              => CancelsKept
         /\ \A o \in Coordinators : Heartbeat(o, m) => CancelsKept
         /\ \A snap, st : Save(m, snap, st) => CancelsKept
         /\ \A o, snap, st : SaveOwned(o, m, snap, st) => CancelsKept
         /\ \A o, st : FinalizeMission(o, m, st) => CancelsKept
         /\ \A skip : ClaimNothing(skip) => CancelsKept
         /\ \A o, skip : ClaimNext(o, skip, m) => CancelsKept
<1>1. \A x \in Missions : rows[x] \in Row /\ Block(rows[x]).cancel = rows[x].cancel
  BY RowFields DEF Row, Block
<1>2. \A st, o, f, d :
        /\ [rows[m] EXCEPT !.status = st].cancel = rows[m].cancel
        /\ [rows[m] EXCEPT !.fresh = f].cancel = rows[m].cancel
        /\ [rows[m] EXCEPT !.fresh = f, !.payloadCancel = d].cancel = rows[m].cancel
        /\ [rows[m] EXCEPT !.status = st, !.claimedBy = o, !.fresh = f].cancel = rows[m].cancel
  BY <1>1 DEF Row
<1>3. \A st, o, f, b, d :
        /\ [rows[m] EXCEPT !.cancel = b, !.payloadCancel = d, !.status = st].cancel = b
        /\ [rows[m] EXCEPT !.status = st, !.cancel = b].cancel = b
        /\ [rows[m] EXCEPT !.status = st, !.claimedBy = o, !.fresh = f, !.cancel = b].cancel = b
        /\ [rows[m] EXCEPT !.status = st, !.claimedBy = o, !.cancel = b,
                           !.payloadCancel = d].cancel = b
  BY <1>1 DEF Row
<1>4. Enqueue(m) => CancelsKept
  BY <1>2, PutKeepsCancels DEF Enqueue
<1>5. RequestCancel(m) => CancelsKept
  <2> DEFINE st == IF rows[m].status = "QUEUED" THEN "CANCELLED" ELSE rows[m].status
             r == [rows[m] EXCEPT !.cancel = TRUE, !.payloadCancel = TRUE, !.status = st]
  <2>1. r.cancel
    BY <1>3
  <2>2. RequestCancel(m) => rows' = [rows EXCEPT ![m] = r]
    BY Zenon DEF RequestCancel
  <2> HIDE DEF r
  <2> QED BY <2>1, <2>2, PutKeepsCancels
<1>6. AgeRow(m) => CancelsKept
  BY <1>2, PutKeepsCancels DEF AgeRow
<1>7. BlockDependents(m) => CancelsKept
  BY <1>1 DEF BlockDependents, CancelsKept
<1>8. Requeue(m) => CancelsKept
  <2> DEFINE b == rows[m].cancel \/ rows[m].payloadCancel
  <2>1. rows[m].cancel => b
    OBVIOUS
  <2> HIDE DEF b
  <2> DEFINE r == [rows[m] EXCEPT !.status = "QUEUED", !.claimedBy = NoOwner,
                                  !.fresh = FALSE, !.cancel = b]
  <2>2. r.cancel = b
    BY <1>3
  <2>3. Requeue(m) => rows' = [rows EXCEPT ![m] = r] \/ rows' = rows
    BY Zenon DEF Requeue, b
  <2> HIDE DEF r
  <2>4. rows' = rows => CancelsKept
    BY DEF CancelsKept
  <2> QED BY <2>1, <2>2, <2>3, <2>4, PutKeepsCancels
<1>9. \A o \in Coordinators : Heartbeat(o, m) => CancelsKept
  <2> DEFINE d == rows[m].payloadCancel \/ rows[m].cancel
             r == [rows[m] EXCEPT !.fresh = TRUE, !.payloadCancel = d]
  <2>1. rows[m].cancel => r.cancel
    BY <1>2
  <2>2. \A o \in Coordinators : Heartbeat(o, m) => rows' = [rows EXCEPT ![m] = r]
    BY Zenon DEF Heartbeat
  <2> HIDE DEF r
  <2> QED BY <2>1, <2>2, PutKeepsCancels
<1>10. \A snap, st : Save(m, snap, st) => CancelsKept
  <2> SUFFICES ASSUME NEW snap, NEW st, Save(m, snap, st)  PROVE CancelsKept
    OBVIOUS
  <2> DEFINE b == rows[m].cancel \/ snap.payloadCancel
  <2>1. rows[m].cancel => b
    OBVIOUS
  <2> HIDE DEF b
  <2> DEFINE r == [rows[m] EXCEPT !.status = st, !.claimedBy = snap.claimedBy,
                                  !.cancel = b, !.payloadCancel = b]
  <2>2. r.cancel = b
    BY <1>3
  <2>3. rows' = [rows EXCEPT ![m] = r]
    BY Zenon DEF Save, b
  <2> HIDE DEF r
  <2> QED BY <2>1, <2>2, <2>3, PutKeepsCancels
<1>11. \A o, snap, st : SaveOwned(o, m, snap, st) => CancelsKept
  <2> SUFFICES ASSUME NEW o, NEW snap, NEW st, SaveOwned(o, m, snap, st)  PROVE CancelsKept
    OBVIOUS
  <2> DEFINE b == rows[m].cancel \/ snap.payloadCancel
  <2>1. rows[m].cancel => b
    OBVIOUS
  <2> HIDE DEF b
  <2> DEFINE r == [rows[m] EXCEPT !.status = st, !.claimedBy = snap.claimedBy,
                                  !.cancel = b, !.payloadCancel = snap.payloadCancel]
  <2>2. r.cancel = b
    BY <1>3
  <2>3. rows' = [rows EXCEPT ![m] = r]
    BY Zenon DEF SaveOwned, b
  <2> HIDE DEF r
  <2> QED BY <2>1, <2>2, <2>3, PutKeepsCancels
<1>12. \A o, st : FinalizeMission(o, m, st) => CancelsKept
  <2> SUFFICES ASSUME NEW o, NEW st, FinalizeMission(o, m, st)  PROVE CancelsKept
    OBVIOUS
  <2> DEFINE b == rows[m].cancel \/ rows[m].payloadCancel
  <2>1. rows[m].cancel => b
    OBVIOUS
  <2> HIDE DEF b
  <2> DEFINE r == [rows[m] EXCEPT !.status = st, !.cancel = b]
  <2>2. r.cancel = b
    BY <1>3
  <2>3. rows' = [rows EXCEPT ![m] = r]
    BY Zenon DEF FinalizeMission, b
  <2> HIDE DEF r
  <2> QED BY <2>1, <2>2, <2>3, PutKeepsCancels
<1>13. \A skip : ClaimNothing(skip) => CancelsKept
  BY <1>1 DEF ClaimNothing, CancelsKept
<1>14. \A o, skip : ClaimNext(o, skip, m) => CancelsKept
  <2> SUFFICES ASSUME NEW o, NEW skip, ClaimNext(o, skip, m)  PROVE CancelsKept
    OBVIOUS
  <2> DEFINE r == [rows[m] EXCEPT !.status = "RUNNING", !.claimedBy = o, !.fresh = TRUE]
  <2>1. r.cancel = rows[m].cancel
    BY <1>2
  <2>2. \A x \in Missions : rows'[x] \in (IF x = m THEN {r} ELSE {rows[x], Block(rows[x])})
    BY DEF ClaimNext
  <2> HIDE DEF r
  <2> QED BY <1>1, <2>1, <2>2 DEF CancelsKept
<1> QED BY <1>4, <1>5, <1>6, <1>7, <1>8, <1>9, <1>10, <1>11, <1>12, <1>13, <1>14

\* An acknowledged cancel request is never taken back, by any writer, whatever
\* snapshot it holds and whatever fails.
THEOREM CancelRequestsStay == Spec => CancelSticks
<1>1. ASSUME Typed, [Next]_vars
      PROVE  [\A m \in Missions : rows[m].cancel => rows'[m].cancel]_vars
  <2>1. StoreTypeOK /\ (rows' = rows => CancelsKept)
    BY <1>1 DEF Typed, TypeOK, CancelsKept
  <2>2. CASE \E c \in Coordinators, m \in Missions : Thread(c, m) \/ ThreadError(c, m)
    <3>1. PICK c \in Coordinators, m \in Missions : Thread(c, m) \/ ThreadError(c, m)
      BY <2>2
    <3>2. \/ rows' = rows \/ Requeue(m) \/ BlockDependents(m)
          \/ \E snap, st : Save(m, snap, st) \/ SaveOwned(c, m, snap, st)
          \/ \E st : FinalizeMission(c, m, st)
      BY <3>1 DEF Thread, ThreadError, AcquireLease, AcquireTimeout, Load, FinalizeCancelled,
         BlockForNoWorker, RecordWorker, OwnedSave, DryRead, DrySave, EvidenceRead, EvidenceSave,
         StartWorker, WorkerSucceeds, WorkerCancelled, WorkerFails, Finalize,
         BlockDependentMissions, Release, AbortRead, AbortSave, ContextError, FinalizeError,
         ExecuteError, ReleaseError
    <3> QED BY <2>1, <3>2, WritesKeepCancels DEF CancelsKept
  <2>3. CASE \E m \in Missions : Submit(m) \/ CancelMission(m) \/ RowAges(m)
    BY <2>1, <2>3, WritesKeepCancels DEF Submit, CancelMission, RowAges, CancelsKept
  <2>4. CASE \E c \in Coordinators : ClaimLoop(c)
    BY <2>1, <2>4, WritesKeepCancels DEF ClaimLoop, ClaimPassBlocks, ClaimAndDispatch, CancelsKept
  <2>5. CASE \E c \in Coordinators : Beat(c)
    BY <2>1, <2>5, WritesKeepCancels DEF Beat, BeatMission, BeatLease, CancelsKept
  <2>6. CASE \E c \in Coordinators : Watchdog(c)
    <3>1. PICK c \in Coordinators : Watchdog(c)
      BY <2>6
    <3>2. \/ rows' = rows
          \/ \E e \in scan[c] : Save(e.mission, e.snap, "FAIL")
      BY <3>1 DEF Watchdog, WatchdogScan, WatchdogSkip, RecoverOne
    <3>3. \A e \in scan[c] : e.mission \in Missions
      BY <1>1 DEF Typed, TypeOK, Entry
    <3> QED BY <2>1, <3>2, <3>3, WritesKeepCancels DEF CancelsKept
  <2>7. CASE \/ \E c \in Coordinators : Lifecycle(c)
             \/ \E r \in Repos : LeaseAges(r)
             \/ UNCHANGED vars
    BY <2>1, <2>7 DEF Lifecycle, Stop, Close, Crash, LeaseAges, vars, CancelsKept
  <2> QED BY <1>1, <2>2, <2>3, <2>4, <2>5, <2>6, <2>7 DEF Next, Api, Time
<1>2. Typed /\ [Next]_vars => [\A m \in Missions : rows[m].cancel => rows'[m].cancel]_vars
  BY <1>1
<1> QED BY <1>2, TypedInit, TypedStep, PTL DEF Spec, CancelSticks
=============================================================================
