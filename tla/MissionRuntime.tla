---------------------------- MODULE MissionRuntime ----------------------------
(***************************************************************************)
(* The mission runtime: coordinator processes (app/runtime/coordinator.py) *)
(* that share one mission store and one lease table.  A coordinator has a  *)
(* claim loop, a heartbeat thread that is also the watchdog, and one pool  *)
(* thread per mission it claimed.  All of them interleave at the           *)
(* transactions of the store and of the lease table; a thread that reads a *)
(* mission and writes it back later holds a snapshot in between.           *)
(*                                                                         *)
(* Simplifications.                                                        *)
(*  - Events, results and evidence are left out: no guard reads them.      *)
(*  - Time is two ageing actions.  A row or lease cannot age while its     *)
(*    owner beats it (every 15 s against a cutoff of 120 s) or drains (25  *)
(*    s); "stall" in Faults drops that assumption.                         *)
(*  - Leaving the in-flight set is one step with the release of the lease. *)
(*  - A restarted process takes a new coordinator id, as in the code.      *)
(***************************************************************************)
EXTENDS MissionStore

CONSTANTS Repos,
          MaxConcurrent,  \* pool threads of a coordinator
          DryRun,         \* missions submitted with dry_run
          PlainWorker,    \* missions whose worker takes no metadata (code-bud)
          Mortal,         \* coordinators that may be stopped or crash
          Faults          \* environment faults the run allows

ASSUME RuntimeAssumption ==
  /\ RepoOf \in [Missions -> Repos]
  /\ MaxConcurrent \in Nat \ {0}
  /\ Mortal \subseteq Coordinators
  /\ Faults \subseteq {"error", "release_error", "drain_timeout", "stall"}

VARIABLES lease,   \* the lease table
          mode,    \* coordinator -> process lifecycle
          task,    \* coordinator -> mission -> pool thread
          scan,    \* coordinator -> watchdog's pass: stale missions as read
          runs     \* mission -> times worker.execute was called (history)

INSTANCE RepoLeases WITH LeaseOwners <- Coordinators, NoLease <- NoOwner

vars == <<rows, outbox, lease, mode, task, scan, runs>>

NoSnapshot == [status |-> Absent, claimedBy |-> NoOwner, payloadCancel |-> FALSE]

\* Where a pool thread stands in _execute.  Admitted threads hold the lease.
Admitted == {"load", "cancel_save", "own_blocked", "own_worker",
             "dry_read", "dry_save", "ev_read", "ev_save",
             "start", "work", "finalize", "block_deps"}
Aborting == {"abort", "abort_save"}
Stage == Admitted \cup Aborting \cup {"idle", "acquire", "release", "leaked"}

Task == [pc : Stage, snap : Snapshot, to : Status]

Idle == [pc |-> "idle", snap |-> NoSnapshot, to |-> Absent]

At(c, m, pc) == mode[c] # "crashed" /\ task[c][m].pc = pc

\* Thread (c, m) moves on with no snapshot in hand.
Goto(c, m, pc) == task' = [task EXCEPT ![c][m] = [Idle EXCEPT !.pc = pc]]

GotoWith(c, m, pc, snap, to) ==
  task' = [task EXCEPT ![c][m] = [pc |-> pc, snap |-> snap, to |-> to]]

\* _inflight, as ids and as repositories (_inflight_repos).
Inflight(c) == {m \in Missions : task[c][m].pc # "idle"}
InflightRepos(c) == {RepoOf[m] : m \in Inflight(c)}

-----------------------------------------------------------------------------
(* The API.                                                                *)

Submit(m) == Enqueue(m) /\ UNCHANGED <<lease, mode, task, scan, runs>>

CancelMission(m) == RequestCancel(m) /\ UNCHANGED <<lease, mode, task, scan, runs>>

-----------------------------------------------------------------------------
(* The claim loop.                                                         *)

HasCapacity(c) == mode[c] = "up" /\ Cardinality(Inflight(c)) < MaxConcurrent

ClaimAndDispatch(c, m) ==
  /\ HasCapacity(c)
  /\ ClaimNext(c, InflightRepos(c), m)
  /\ Goto(c, m, "acquire")
  /\ UNCHANGED <<lease, mode, scan, runs>>

ClaimPassBlocks(c) ==
  /\ HasCapacity(c)
  /\ ClaimNothing(InflightRepos(c))
  /\ UNCHANGED <<lease, mode, task, scan, runs>>

-----------------------------------------------------------------------------
(* A pool thread: _execute.                                                *)

AcquireLease(c, m) ==
  /\ At(c, m, "acquire")
  /\ Acquire(RepoOf[m], c)
  /\ Goto(c, m, "load")
  /\ UNCHANGED <<rows, outbox, mode, scan, runs>>

\* 600 s of refused attempts, the last one too.
AcquireTimeout(c, m) ==
  /\ At(c, m, "acquire")
  /\ ~Acquirable(RepoOf[m], c)
  /\ Requeue(m)
  /\ Goto(c, m, "release")
  /\ UNCHANGED <<lease, mode, scan, runs>>

Load(c, m) ==
  /\ At(c, m, "load")
  /\ \E hasWorker \in BOOLEAN :
       GotoWith(c, m, IF rows[m].payloadCancel THEN "cancel_save"
                      ELSE IF hasWorker THEN "own_worker" ELSE "own_blocked",
                Read(m), Absent)
  /\ UNCHANGED <<rows, outbox, lease, mode, scan, runs>>

\* _finalize_cancelled: an unfenced save.
FinalizeCancelled(c, m) ==
  /\ At(c, m, "cancel_save")
  /\ Save(m, task[c][m].snap, "CANCELLED")
  /\ Goto(c, m, "block_deps")
  /\ UNCHANGED <<lease, mode, scan, runs>>

\* _owned_save of the snapshot: a lost claim ends the thread.
OwnedSave(c, m, st, next) ==
  \/ /\ SaveOwned(c, m, task[c][m].snap, st)
     /\ next
  \/ /\ rows[m].claimedBy # c
     /\ Goto(c, m, "release")
     /\ UNCHANGED <<rows, outbox>>

BlockForNoWorker(c, m) ==
  /\ At(c, m, "own_blocked")
  /\ OwnedSave(c, m, "BLOCKED", Goto(c, m, "block_deps"))
  /\ UNCHANGED <<lease, mode, scan, runs>>

\* Mutant: the dry_run flag is forgotten.
RecordWorkerOnly(c, m) ==
  /\ At(c, m, "own_worker")
  /\ OwnedSave(c, m, task[c][m].snap.status, Goto(c, m, "ev_read"))
  /\ UNCHANGED <<lease, mode, scan, runs>>

RecordWorker(c, m) ==
  /\ At(c, m, "own_worker")
  /\ OwnedSave(c, m, task[c][m].snap.status,
               IF m \in DryRun THEN GotoWith(c, m, "dry_read", NoSnapshot, "OBSERVING")
               ELSE Goto(c, m, "ev_read"))
  /\ UNCHANGED <<lease, mode, scan, runs>>

\* run_product_lifecycle(dry_run=True): three unfenced read-modify-writes.
DryRead(c, m) ==
  /\ At(c, m, "dry_read")
  /\ GotoWith(c, m, "dry_save", Read(m), task[c][m].to)
  /\ UNCHANGED <<rows, outbox, lease, mode, scan, runs>>

DrySave(c, m) ==
  /\ At(c, m, "dry_save")
  /\ Save(m, task[c][m].snap, task[c][m].to)
  /\ CASE task[c][m].to = "OBSERVING" -> GotoWith(c, m, "dry_read", NoSnapshot, "PLANNING")
       [] task[c][m].to = "PLANNING"  -> GotoWith(c, m, "dry_read", NoSnapshot, "PASS")
       [] OTHER                       -> Goto(c, m, "release")
  /\ UNCHANGED <<lease, mode, scan, runs>>

EvidenceRead(c, m) ==
  /\ At(c, m, "ev_read")
  /\ GotoWith(c, m, "ev_save", Read(m), Absent)
  /\ UNCHANGED <<rows, outbox, lease, mode, scan, runs>>

EvidenceSave(c, m) ==
  /\ At(c, m, "ev_save")
  /\ OwnedSave(c, m, task[c][m].snap.status, Goto(c, m, "start"))
  /\ UNCHANGED <<lease, mode, scan, runs>>

StartWorker(c, m) ==
  /\ At(c, m, "start")
  /\ runs' = [runs EXCEPT ![m] = @ + 1]
  /\ Goto(c, m, "work")
  /\ UNCHANGED <<rows, outbox, lease, mode, scan>>

\* The worker commits only past its last checkpoint, cancel_check("before_commit");
\* a checkpoint that cannot read the store keeps its earlier answer.
WorkerSucceeds(c, m) ==
  /\ At(c, m, "work")
  /\ m \in PlainWorker \/ ~rows[m].payloadCancel \/ "error" \in Faults
  /\ GotoWith(c, m, "finalize", NoSnapshot, "PASS")
  /\ UNCHANGED <<rows, outbox, lease, mode, scan, runs>>

WorkerCancelled(c, m) ==
  /\ At(c, m, "work")
  /\ m \notin PlainWorker /\ rows[m].payloadCancel
  /\ GotoWith(c, m, "finalize", NoSnapshot, "CANCELLED")
  /\ UNCHANGED <<rows, outbox, lease, mode, scan, runs>>

\* A task failure or exception, or a provider fault (timeouts are one).
WorkerFails(c, m) ==
  /\ At(c, m, "work")
  /\ \E st \in {"FAIL", "BLOCKED_EXTERNAL"} :
       GotoWith(c, m, "finalize", NoSnapshot, st)
  /\ UNCHANGED <<rows, outbox, lease, mode, scan, runs>>

AfterFinalize(c, m) ==
  Goto(c, m, IF task[c][m].to = "PASS" THEN "release" ELSE "block_deps")

\* _finalize_terminal: committed, an idempotent replay of the same status, or
\* rejected (StaleOwnerError, InvalidStateError).
Finalize(c, m) ==
  /\ At(c, m, "finalize")
  /\ \/ /\ FinalizeMission(c, m, task[c][m].to)
        /\ AfterFinalize(c, m)
     \/ /\ ~CanFinalize(c, m)
        /\ IF rows[m].claimedBy = c /\ rows[m].status = task[c][m].to
             THEN AfterFinalize(c, m) ELSE Goto(c, m, "release")
        /\ UNCHANGED <<rows, outbox>>
  /\ UNCHANGED <<lease, mode, scan, runs>>

BlockDependentMissions(c, m) ==
  /\ At(c, m, "block_deps")
  /\ BlockDependents(m)
  /\ Goto(c, m, "release")
  /\ UNCHANGED <<lease, mode, scan, runs>>

\* Mutant: a finished thread keeps the lease for the next mission.
ReleaseSlotOnly(c, m) ==
  /\ At(c, m, "release")
  /\ task' = [task EXCEPT ![c][m] = Idle]
  /\ UNCHANGED <<rows, outbox, lease, mode, scan, runs>>

\* The finally block.
Release(c, m) ==
  /\ At(c, m, "release")
  /\ ReleaseLease(RepoOf[m], c)
  /\ task' = [task EXCEPT ![c][m] = Idle]
  /\ UNCHANGED <<rows, outbox, mode, scan, runs>>

-----------------------------------------------------------------------------
(* Errors of the store (a locked or full database) in a pool thread.       *)

\* Caught by the handler around product context: the worker runs all the same.
ContextError(c, m) ==
  /\ "error" \in Faults
  /\ \E pc \in {"dry_read", "dry_save", "ev_read", "ev_save"} : At(c, m, pc)
  /\ Goto(c, m, "start")
  /\ UNCHANGED <<rows, outbox, lease, mode, scan, runs>>

\* Caught and logged: the thread ends, the mission stays as it is.
FinalizeError(c, m) ==
  /\ "error" \in Faults
  /\ \E pc \in {"finalize", "block_deps"} \cup Aborting : At(c, m, pc)
  /\ Goto(c, m, "release")
  /\ UNCHANGED <<rows, outbox, lease, mode, scan, runs>>

\* Caught by the outermost handler: fail the mission unless it is terminal.
ExecuteError(c, m) ==
  /\ "error" \in Faults
  /\ \E pc \in {"acquire", "load", "cancel_save", "own_blocked", "own_worker", "start"} :
       At(c, m, pc)
  /\ Goto(c, m, "abort")
  /\ UNCHANGED <<rows, outbox, lease, mode, scan, runs>>

AbortRead(c, m) ==
  /\ At(c, m, "abort")
  /\ IF rows[m].status \in Terminal THEN Goto(c, m, "release")
     ELSE GotoWith(c, m, "abort_save", Read(m), Absent)
  /\ UNCHANGED <<rows, outbox, lease, mode, scan, runs>>

AbortSave(c, m) ==
  /\ At(c, m, "abort_save")
  /\ Save(m, task[c][m].snap, "FAIL")
  /\ Goto(c, m, "release")
  /\ UNCHANGED <<lease, mode, scan, runs>>

\* The release itself raises: the discard after it never runs, and the heartbeat
\* thread goes on beating the lease and the mission.
ReleaseError(c, m) ==
  /\ "release_error" \in Faults
  /\ At(c, m, "release")
  /\ Goto(c, m, "leaked")
  /\ UNCHANGED <<rows, outbox, lease, mode, scan, runs>>

-----------------------------------------------------------------------------
(* The heartbeat thread: beats, then the watchdog's pass over stale        *)
(* missions, each entry inspected and saved later than it was read.        *)

Entry == [mission : Missions, snap : Snapshot]

BeatMission(c, m) ==
  /\ mode[c] = "up"
  /\ m \in Inflight(c)
  /\ Heartbeat(c, m)
  /\ UNCHANGED <<lease, mode, task, scan, runs>>

BeatLease(c, r) ==
  /\ mode[c] = "up"
  /\ LeaseHeartbeat(r, c)
  /\ UNCHANGED <<rows, outbox, mode, task, scan, runs>>

WatchdogScan(c) ==
  /\ mode[c] = "up"
  /\ scan[c] = {}
  /\ StaleExecuting # {}
  /\ scan' = [scan EXCEPT ![c] =
                {[mission |-> m, snap |-> Read(m)] : m \in StaleExecuting}]
  /\ UNCHANGED <<rows, outbox, lease, mode, task, runs>>

OwnInflight(c, e) == e.snap.claimedBy = c /\ e.mission \in Inflight(c)

\* The entry is our own in-flight mission, or recovering it raised.
WatchdogSkip(c, e) ==
  /\ mode[c] # "crashed"
  /\ OwnInflight(c, e) \/ "error" \in Faults
  /\ scan' = [scan EXCEPT ![c] = @ \ {e}]
  /\ UNCHANGED <<rows, outbox, lease, mode, task, runs>>

\* Mutant: a stale mission is queued again.
RecoverByRequeue(c, e) ==
  /\ mode[c] # "crashed"
  /\ ~OwnInflight(c, e)
  /\ Requeue(e.mission)
  /\ scan' = [scan EXCEPT ![c] = @ \ {e}]
  /\ UNCHANGED <<lease, mode, task, runs>>

\* _recover_one: an unfenced save of the scanned snapshot.
RecoverOne(c, e) ==
  /\ mode[c] # "crashed"
  /\ ~OwnInflight(c, e)
  /\ Save(e.mission, e.snap, "FAIL")
  /\ scan' = [scan EXCEPT ![c] = @ \ {e}]
  /\ UNCHANGED <<lease, mode, task, runs>>

-----------------------------------------------------------------------------
(* Process lifecycle.                                                      *)

\* stop(): no claims and no heartbeats from here on.
Stop(c) ==
  /\ c \in Mortal /\ mode[c] = "up"
  /\ mode' = [mode EXCEPT ![c] = "draining"]
  /\ UNCHANGED <<rows, outbox, lease, task, scan, runs>>

\* The drain ended, or timed out with threads still running; leases go either way.
Close(c) ==
  /\ mode[c] = "draining"
  /\ \/ \A m \in Missions : task[c][m].pc \in {"idle", "leaked"}
     \/ "drain_timeout" \in Faults
  /\ ReleaseAll(c)
  /\ mode' = [mode EXCEPT ![c] = "closed"]
  /\ UNCHANGED <<rows, outbox, task, scan, runs>>

Crash(c) ==
  /\ c \in Mortal /\ mode[c] # "crashed"
  /\ mode' = [mode EXCEPT ![c] = "crashed"]
  /\ task' = [task EXCEPT ![c] = [m \in Missions |-> Idle]]
  /\ scan' = [scan EXCEPT ![c] = {}]
  /\ UNCHANGED <<rows, outbox, lease, runs>>

-----------------------------------------------------------------------------
(* Time.                                                                   *)

Beats(c) == mode[c] \in {"up", "draining"}

RowBeaten(m) == \E c \in Coordinators : /\ Beats(c)
                                        /\ rows[m].claimedBy = c
                                        /\ m \in Inflight(c)

LeaseBeaten(r) == \E c \in Coordinators : Beats(c) /\ lease[r].owner = c

RowAges(m) ==
  /\ "stall" \in Faults \/ ~RowBeaten(m)
  /\ AgeRow(m)
  /\ UNCHANGED <<lease, mode, task, scan, runs>>

LeaseAges(r) ==
  /\ "stall" \in Faults \/ ~LeaseBeaten(r)
  /\ AgeLease(r)
  /\ UNCHANGED <<rows, outbox, mode, task, scan, runs>>

-----------------------------------------------------------------------------
Init ==
  /\ StoreInit
  /\ LeaseInit
  /\ mode = [c \in Coordinators |-> "up"]
  /\ task = [c \in Coordinators |-> [m \in Missions |-> Idle]]
  /\ scan = [c \in Coordinators |-> {}]
  /\ runs = [m \in Missions |-> 0]

Api == \E m \in Missions : Submit(m) \/ CancelMission(m)

ClaimLoop(c) == ClaimPassBlocks(c) \/ \E m \in Missions : ClaimAndDispatch(c, m)

Thread(c, m) ==
  \/ AcquireLease(c, m) \/ AcquireTimeout(c, m) \/ Load(c, m)
  \/ FinalizeCancelled(c, m) \/ BlockForNoWorker(c, m) \/ RecordWorker(c, m)
  \/ DryRead(c, m) \/ DrySave(c, m) \/ EvidenceRead(c, m) \/ EvidenceSave(c, m)
  \/ StartWorker(c, m)
  \/ WorkerSucceeds(c, m) \/ WorkerCancelled(c, m) \/ WorkerFails(c, m)
  \/ Finalize(c, m) \/ BlockDependentMissions(c, m) \/ Release(c, m)
  \/ AbortRead(c, m) \/ AbortSave(c, m)

ThreadError(c, m) ==
  ContextError(c, m) \/ FinalizeError(c, m) \/ ExecuteError(c, m) \/ ReleaseError(c, m)

Beat(c) == \/ \E m \in Missions : BeatMission(c, m)
           \/ \E r \in Repos : BeatLease(c, r)

Watchdog(c) == \/ WatchdogScan(c)
               \/ \E e \in scan[c] : WatchdogSkip(c, e) \/ RecoverOne(c, e)

Lifecycle(c) == Stop(c) \/ Close(c) \/ Crash(c)

Time == \/ \E m \in Missions : RowAges(m)
        \/ \E r \in Repos : LeaseAges(r)

Next ==
  \/ Api
  \/ \E c \in Coordinators :
       \/ ClaimLoop(c) \/ Beat(c) \/ Watchdog(c) \/ Lifecycle(c)
       \/ \E m \in Missions : Thread(c, m) \/ ThreadError(c, m)
  \/ Time

Spec == Init /\ [][Next]_vars

\* Threads of a live process are scheduled, workers and drains end, time passes.
\* Clients, heartbeats, faults and the process lifecycle owe nothing.
Fairness ==
  /\ \A c \in Coordinators :
       /\ WF_vars(ClaimLoop(c)) /\ WF_vars(Watchdog(c)) /\ WF_vars(Close(c))
       /\ \A m \in Missions : WF_vars(Thread(c, m))
  /\ \A m \in Missions : WF_vars(RowAges(m))
  /\ \A r \in Repos : WF_vars(LeaseAges(r))

LiveSpec == Spec /\ Fairness
-----------------------------------------------------------------------------
(* Properties.                                                             *)

\* Types of the rows, leases, threads and watchdog passes of the runtime.
TypeOK ==
  /\ StoreTypeOK
  /\ LeaseTypeOK
  /\ mode \in [Coordinators -> {"up", "draining", "closed", "crashed"}]
  /\ task \in [Coordinators -> [Missions -> Task]]
  /\ scan \in [Coordinators -> SUBSET Entry]
  /\ runs \in [Missions -> Nat]

\* The thread may still act on its mission.
Holds(c, m) == task[c][m].pc \notin {"idle", "release", "leaked"}

\* However heartbeats stall and drains time out, two coordinators never run
\* threads for one mission: claim_next hands out QUEUED rows only, and only the
\* thread of the claim itself puts a row back to QUEUED.
OneExecutor ==
  \A m \in Missions, c, d \in Coordinators : Holds(c, m) /\ Holds(d, m) => c = d

\* Recovery, requeueing and stale owners never call the worker of a mission a
\* second time ("never re-running blindly", recover_stale_missions).
ExecutedAtMostOnce == \A m \in Missions : runs[m] <= 1

\* Two threads never work in one repository at a time: the promise of
\* repo_leases.py, for the whole stretch of _execute behind the lease.
RepoExclusion ==
  \A c, d \in Coordinators, m, x \in Missions :
     /\ task[c][m].pc \in Admitted /\ task[d][x].pc \in Admitted
     /\ RepoOf[m] = RepoOf[x]
     => c = d /\ m = x

\* Work that was started rests on parents that are PASS, then and ever after:
\* the dependency gate of claim_next is not undone by a later write to a parent.
DependencyGate ==
  \A m \in Missions : \A i \in DOMAIN DepsOf[m] :
     runs[m] > 0 => rows[DepsOf[m][i]].status = "PASS"

\* A client never has more executing missions than its limit, whichever
\* coordinators claimed them (the count is taken inside the claim transaction).
QuotaRespected ==
  \A m \in Missions :
     Cardinality({x \in Missions : /\ ClientOf[x] = ClientOf[m]
                                   /\ rows[x].status \in Executing}) <= LimitOf[ClientOf[m]]

\* Two submissions of the same work are never active together: a finished
\* mission that let the second one in never becomes active again.
SingleFlight ==
  \A m, x \in Missions :
     /\ m # x /\ SameWork(m, x)
     /\ rows[m].status \in Active
     => rows[x].status \notin Active

\* What the learning outbox says of a mission is what the mission's row says.
RecordAgrees ==
  \A m \in Missions : outbox[m] # Absent => rows[m].status = outbox[m]

\* A PASS was earned: the worker ran, and the outcome reached the outbox in the
\* commit that wrote it.  Dry runs pass without a worker and without a record.
PassEarned ==
  \A m \in Missions \ DryRun :
     rows[m].status = "PASS" => runs[m] = 1 /\ outbox[m] = "PASS"

\* A dry run never calls a worker.
DryRunNeverExecutes == \A m \in DryRun : runs[m] = 0

\* The runtime implements the life of a mission that MissionLifecycle promises.
PhaseOf(st) == CASE st = Absent      -> "absent"
                 [] st = "QUEUED"    -> "queued"
                 [] st \in Executing -> "held"
                 [] OTHER            -> "done"

Lives == INSTANCE MissionLifecycle WITH
  Parents <- [m \in Missions |-> {DepsOf[m][i] : i \in DOMAIN DepsOf[m]}],
  Outcomes <- Terminal, Pass <- "PASS", None <- Absent,
  life <- [m \in Missions |->
             [phase |-> PhaseOf(rows[m].status),
              outcome |-> IF rows[m].status \in Terminal THEN rows[m].status ELSE Absent,
              worked |-> runs[m] > 0]]

ImplementsLifecycle == Lives!Spec

\* A PASS is never taken back by a watchdog that scanned the row before.
PassStable ==
  [][\A m \in Missions : rows[m].status = "PASS" => rows'[m].status = "PASS"]_vars

\* The watchdog fails only missions no live thread is executing.
WatchdogSparesLive ==
  [][\A c, d \in Coordinators : \A e \in scan[c] :
       RecoverOne(c, e) => ~Holds(d, e.mission)]_vars

\* No writer with an older snapshot takes an acknowledged cancel request back.
CancelSticks ==
  [][\A m \in Missions : rows[m].cancel => rows'[m].cancel]_vars

\* A cancel request is never un-set in the payload that readers consume.
CancelNeverUnset ==
  [][\A m \in Missions : rows[m].payloadCancel => rows'[m].payloadCancel]_vars

\* Every submitted mission is finished eventually, as long as one coordinator
\* lives: whatever crashes, its missions are recovered and its leases stolen.
EveryMissionEnds ==
  \A m \in Missions : rows[m].status # Absent ~> rows[m].status \in Terminal

\* A repository never stays locked: every lease is released or goes stale.
LeaseNeverStuck ==
  \A r \in Repos : lease[r].fresh ~> (lease[r].owner = NoOwner \/ ~lease[r].fresh)
=============================================================================
