----------------------------- MODULE MissionStore -----------------------------
(***************************************************************************)
(* The durable mission queue of app/storage/sqlite_store.py.  Every        *)
(* operation below is one BEGIN IMMEDIATE transaction (or one SQL          *)
(* statement) of the store, so one action.  The operations are shared by   *)
(* the coordinator processes (module MissionRuntime) and by the API.       *)
(*                                                                         *)
(* A row keeps what decides control flow: the status, the claim holder,    *)
(* whether the heartbeat is younger than the stale cutoff, and the cancel  *)
(* flag, which the store keeps in a column (cancel) and in the JSON        *)
(* payload every reader consumes (payloadCancel).                          *)
(***************************************************************************)
EXTENDS Naturals, Sequences, FiniteSets, MissionStatus

CONSTANTS Missions,      \* mission ids
          Coordinators,  \* coordinator ids; a restarted process is a new id
          NoOwner,       \* claimed_by / lease owner NULL
          RepoOf,        \* repo_key of a mission (repo_identity)
          GoalOf,        \* its goal
          DepsOf,        \* metadata.dependencies, in order
          ClientOf,      \* its client
          LimitOf,       \* max concurrent missions of a client
          Rank,          \* place in ORDER BY priority, created_at, rowid
          ScanLimit      \* LIMIT of the candidate query of claim_next

ASSUME StoreAssumption ==
  /\ NoOwner \notin Coordinators
  /\ DepsOf \in [Missions -> Seq(Missions)]
  /\ Rank \in [Missions -> Nat]
  /\ \A m, x \in Missions : Rank[m] = Rank[x] => m = x
  /\ ScanLimit \in Nat \ {0}

\* A quota is an integer; a negative one claims nothing, as 0 does.
ASSUME QuotaAssumption == \A m \in Missions : LimitOf[ClientOf[m]] \in Nat

VARIABLES rows,    \* mission id -> row
          outbox   \* mission id -> terminal status recorded in the learning
                   \* message keyed learning:<id>, or Absent

storeVars == <<rows, outbox>>

Row == [status : Status, claimedBy : Coordinators \cup {NoOwner},
        fresh : BOOLEAN, cancel : BOOLEAN, payloadCancel : BOOLEAN]

\* The part of a Mission object read by store.get that a later write can put
\* back: everything a reader sees comes from the payload.
Snapshot == [status : Status, claimedBy : Coordinators \cup {NoOwner},
             payloadCancel : BOOLEAN]

Read(m) == [status |-> rows[m].status, claimedBy |-> rows[m].claimedBy,
            payloadCancel |-> rows[m].payloadCancel]

StoreTypeOK == /\ rows \in [Missions -> Row]
               /\ outbox \in [Missions -> Terminal \cup {Absent}]

StoreInit ==
  /\ rows = [m \in Missions |->
               [status |-> Absent, claimedBy |-> NoOwner, fresh |-> FALSE,
                cancel |-> FALSE, payloadCancel |-> FALSE]]
  /\ outbox = [m \in Missions |-> Absent]

-----------------------------------------------------------------------------
(* Submission and cancellation, called by the API.                         *)

DependenciesKnown(m) ==
  \A i \in DOMAIN DepsOf[m] : rows[DepsOf[m][i]].status # Absent

SameWork(m, x) == RepoOf[m] = RepoOf[x] /\ GoalOf[m] = GoalOf[x]

\* Mutant: the duplicate check looks at queued missions only.
EnqueueBesideRunning(m) ==
  /\ rows[m].status = Absent
  /\ DependenciesKnown(m)
  /\ \A x \in Missions : SameWork(m, x) => rows[x].status # "QUEUED"
  /\ rows' = [rows EXCEPT ![m].status = "QUEUED"]
  /\ UNCHANGED outbox

Enqueue(m) ==
  /\ rows[m].status = Absent
  /\ DependenciesKnown(m)
  /\ \A x \in Missions : SameWork(m, x) => rows[x].status \notin Active
  /\ rows' = [rows EXCEPT ![m].status = "QUEUED"]
  /\ UNCHANGED outbox

\* Mutant: an executing mission is cancelled on the spot.
RequestCancelAtOnce(m) ==
  /\ rows[m].status \in Active
  /\ rows' = [rows EXCEPT ![m].cancel = TRUE, ![m].payloadCancel = TRUE,
                          ![m].status = "CANCELLED"]
  /\ UNCHANGED outbox

\* An executing mission is only flagged; a queued one is finished here.
RequestCancel(m) ==
  /\ rows[m].status \in Active
  /\ rows' = [rows EXCEPT ![m].cancel = TRUE, ![m].payloadCancel = TRUE,
                          ![m].status = IF @ = "QUEUED" THEN "CANCELLED" ELSE @]
  /\ UNCHANGED outbox

-----------------------------------------------------------------------------
(* Claiming: one transaction scans the candidates in order, blocks the     *)
(* dependents of failed missions it passes, and claims the first claimable *)
(* candidate.                                                              *)

\* Mutant: stale missions are offered again.
QueueWithStale(skip) ==
  {m \in Missions : /\ \/ rows[m].status = "QUEUED"
                       \/ rows[m].status \in Executing /\ ~rows[m].fresh
                    /\ RepoOf[m] \notin skip}

Queue(skip) == {m \in Missions : rows[m].status = "QUEUED" /\ RepoOf[m] \notin skip}

Candidates(skip) ==
  {m \in Queue(skip) :
     Cardinality({x \in Queue(skip) : Rank[x] < Rank[m]}) < ScanLimit}

\* Mutant: one execution too many.
AboveQuota(m) ==
  Cardinality({x \in Missions : /\ ClientOf[x] = ClientOf[m]
                                /\ rows[x].status \in Executing}) > LimitOf[ClientOf[m]]

AtQuota(m) ==
  Cardinality({x \in Missions : /\ ClientOf[x] = ClientOf[m]
                                /\ rows[x].status \in Executing}) >= LimitOf[ClientOf[m]]

\* Mutant: a dependency only has to be over.
SatisfiedWhenOver(m) ==
  \A i \in DOMAIN DepsOf[m] : rows[DepsOf[m][i]].status \in Terminal

Satisfied(m) == \A i \in DOMAIN DepsOf[m] : rows[DepsOf[m][i]].status = "PASS"

Claimable(m) == ~AtQuota(m) /\ Satisfied(m)

\* The first dependency without a PASS: the scan of the list stops there.
FirstOpen(m) ==
  DepsOf[m][CHOOSE i \in DOMAIN DepsOf[m] :
              /\ rows[DepsOf[m][i]].status # "PASS"
              /\ \A j \in 1 .. i - 1 : rows[DepsOf[m][j]].status = "PASS"]

\* Mutant: a cancelled parent leaves its dependents waiting.
DoomedUnlessCancelled(m, B) ==
  /\ ~AtQuota(m) /\ ~Satisfied(m)
  /\ \/ rows[FirstOpen(m)].status \in DependencyBlocking \ {"CANCELLED"}
     \/ FirstOpen(m) \in B /\ Rank[FirstOpen(m)] < Rank[m]

\* Passed-over candidates form the set B of those blocked by this very scan: the
\* transaction reads its own writes, so a dependent of an earlier member of B is
\* a member too.
Doomed(m, B) ==
  /\ ~AtQuota(m) /\ ~Satisfied(m)
  /\ \/ rows[FirstOpen(m)].status \in DependencyBlocking
     \/ FirstOpen(m) \in B /\ Rank[FirstOpen(m)] < Rank[m]

BlockedByScan(passed, B) == B = {x \in passed : Doomed(x, B)}

Block(row) == [row EXCEPT !.status = "BLOCKED_EXTERNAL"]

\* Mutant: a claim leaves heartbeat_at unset.
ClaimNextUnbeaten(o, skip, m) ==
  /\ m \in Candidates(skip)
  /\ Claimable(m)
  /\ rows' = [rows EXCEPT ![m].status = "RUNNING", ![m].claimedBy = o]
  /\ UNCHANGED outbox

ClaimNext(o, skip, m) ==
  LET passed == {x \in Candidates(skip) : Rank[x] < Rank[m]} IN
  /\ m \in Candidates(skip)
  /\ Claimable(m)
  /\ \A x \in passed : ~Claimable(x)
  /\ \E B \in SUBSET passed :
       /\ BlockedByScan(passed, B)
       /\ rows' = [x \in Missions |->
                     IF x = m THEN [rows[m] EXCEPT !.status = "RUNNING",
                                                   !.claimedBy = o, !.fresh = TRUE]
                     ELSE IF x \in B THEN Block(rows[x]) ELSE rows[x]]
  /\ UNCHANGED outbox

\* Nothing claimable: the scan may still have blocked dependents.
ClaimNothing(skip) ==
  /\ \A x \in Candidates(skip) : ~Claimable(x)
  /\ \E B \in SUBSET Candidates(skip) :
       /\ B # {}
       /\ BlockedByScan(Candidates(skip), B)
       /\ rows' = [x \in Missions |-> IF x \in B THEN Block(rows[x]) ELSE rows[x]]
  /\ UNCHANGED outbox

-----------------------------------------------------------------------------
(* Writes of the claim holder.                                             *)

Heartbeat(o, m) ==
  /\ rows[m].claimedBy = o
  /\ rows[m].status \in Executing
  /\ rows' = [rows EXCEPT ![m].fresh = TRUE,
                          ![m].payloadCancel = @ \/ rows[m].cancel]
  /\ UNCHANGED outbox

\* save: the whole payload is replaced whoever holds the claim; a cancel request
\* in the column survives in both copies.
Save(m, snap, st) ==
  /\ rows' = [rows EXCEPT ![m] =
                [rows[m] EXCEPT !.status = st, !.claimedBy = snap.claimedBy,
                                !.cancel = rows[m].cancel \/ snap.payloadCancel,
                                !.payloadCancel = rows[m].cancel \/ snap.payloadCancel]]
  /\ UNCHANGED outbox

\* Mutant: cancel_requested is written like any other column.
SaveOwnedPlainly(o, m, snap, st) ==
  /\ rows[m].claimedBy = o
  /\ rows' = [rows EXCEPT ![m] =
                [rows[m] EXCEPT !.status = st, !.claimedBy = snap.claimedBy,
                                !.cancel = snap.payloadCancel,
                                !.payloadCancel = snap.payloadCancel]]
  /\ UNCHANGED outbox

\* save_owned: fenced by the claim holder, not by the status; the payload's cancel
\* flag is the snapshot's.
SaveOwned(o, m, snap, st) ==
  /\ rows[m].claimedBy = o
  /\ rows' = [rows EXCEPT ![m] =
                [rows[m] EXCEPT !.status = st, !.claimedBy = snap.claimedBy,
                                !.cancel = rows[m].cancel \/ snap.payloadCancel,
                                !.payloadCancel = snap.payloadCancel]]
  /\ UNCHANGED outbox

\* transact_mission with _requeue_inner: by status only, whoever holds the claim.
Requeue(m) ==
  /\ rows' = IF rows[m].status \in Executing
             THEN [rows EXCEPT ![m].status = "QUEUED", ![m].claimedBy = NoOwner,
                               ![m].fresh = FALSE,
                               ![m].cancel = @ \/ rows[m].payloadCancel]
             ELSE rows
  /\ UNCHANGED outbox

CanFinalize(o, m) == rows[m].claimedBy = o /\ rows[m].status \in Executing

\* Mutant: the learning message is left to a later transaction.
FinalizeMissionAlone(o, m, st) ==
  /\ CanFinalize(o, m)
  /\ rows' = [rows EXCEPT ![m].status = st,
                          ![m].cancel = @ \/ rows[m].payloadCancel]
  /\ UNCHANGED outbox

\* Mutant: the learning message is built from the row before its update.
FinalizeMissionOldStatus(o, m, st) ==
  /\ CanFinalize(o, m)
  /\ rows' = [rows EXCEPT ![m].status = st,
                          ![m].cancel = @ \/ rows[m].payloadCancel]
  /\ outbox' = [outbox EXCEPT ![m] = IF @ = Absent THEN rows[m].status ELSE @]

\* The mission row, its terminal event and its learning message in one commit.
FinalizeMission(o, m, st) ==
  /\ CanFinalize(o, m)
  /\ rows' = [rows EXCEPT ![m].status = st,
                          ![m].cancel = @ \/ rows[m].payloadCancel]
  /\ outbox' = [outbox EXCEPT ![m] = IF @ = Absent THEN st ELSE @]

-----------------------------------------------------------------------------
(* Writes that concern other missions than the caller's.                   *)

DependsOn(m, p) == \E i \in DOMAIN DepsOf[m] : DepsOf[m][i] = p

BlockDependents(p) ==
  /\ rows' = [m \in Missions |->
                IF DependsOn(m, p) /\ rows[m].status \in DependentBlockable
                THEN Block(rows[m]) ELSE rows[m]]
  /\ UNCHANGED outbox

\* Mutant: any row without a recent heartbeat is stale.
StaleWhatever == {m \in Missions : rows[m].status # Absent /\ ~rows[m].fresh}

StaleExecuting == {m \in Missions : rows[m].status \in Executing /\ ~rows[m].fresh}

\* Time: the stale cutoff passes the row's last heartbeat.
AgeRow(m) ==
  /\ rows[m].fresh
  /\ rows' = [rows EXCEPT ![m].fresh = FALSE]
  /\ UNCHANGED outbox
=============================================================================
