-------------------------- MODULE MissionRecordProofs --------------------------
(***************************************************************************)
(* What the rows and the outbox of MissionRuntime say of a mission, proved *)
(* for every set of missions, coordinators and repositories and every      *)
(* dependency graph, as long as heartbeats do not stall and drains do not  *)
(* time out (Punctual): outcomes are recorded as they are, passes are      *)
(* earned, work rests on parents that passed, quotas hold, and every step  *)
(* is a step of MissionLifecycle.                                          *)
(***************************************************************************)
EXTENDS MissionRuntimeProofs, FiniteSetTheorems

-----------------------------------------------------------------------------
(* What the operations of the store do to a row.                           *)

OthersSame(m) == \A x \in Missions : x # m => rows'[x] = rows[x]

LEMMA PutRow ==
  ASSUME StoreTypeOK, NEW m \in Missions, NEW r, rows' = [rows EXCEPT ![m] = r]
  PROVE  rows'[m] = r /\ OthersSame(m)
  BY DEF StoreTypeOK, OthersSame

\* The fields of an updated row.
LEMMA UpdatedFields ==
  ASSUME NEW r \in Row, NEW st, NEW o, NEW f, NEW b, NEW d
  PROVE  /\ [r EXCEPT !.status = st].status = st
         /\ [r EXCEPT !.fresh = f].status = r.status
         /\ [r EXCEPT !.fresh = f].claimedBy = r.claimedBy
         /\ [r EXCEPT !.fresh = f].fresh = f
         /\ [r EXCEPT !.fresh = f, !.payloadCancel = d].status = r.status
         /\ [r EXCEPT !.fresh = f, !.payloadCancel = d].claimedBy = r.claimedBy
         /\ [r EXCEPT !.fresh = f, !.payloadCancel = d].fresh = f
         /\ [r EXCEPT !.cancel = b, !.payloadCancel = d, !.status = st].status = st
         /\ [r EXCEPT !.cancel = b, !.payloadCancel = d, !.status = st].claimedBy = r.claimedBy
         /\ [r EXCEPT !.cancel = b, !.payloadCancel = d, !.status = st].fresh = r.fresh
         /\ [r EXCEPT !.status = st, !.cancel = b].status = st
         /\ [r EXCEPT !.status = st, !.cancel = b].claimedBy = r.claimedBy
         /\ [r EXCEPT !.status = st, !.cancel = b].fresh = r.fresh
         /\ [r EXCEPT !.status = st, !.claimedBy = o, !.fresh = f].status = st
         /\ [r EXCEPT !.status = st, !.claimedBy = o, !.fresh = f].claimedBy = o
         /\ [r EXCEPT !.status = st, !.claimedBy = o, !.fresh = f].fresh = f
         /\ [r EXCEPT !.status = st, !.claimedBy = o, !.fresh = f, !.cancel = b].status = st
         /\ [r EXCEPT !.status = st, !.claimedBy = o, !.cancel = b,
                      !.payloadCancel = d].status = st
         /\ [r EXCEPT !.status = st, !.claimedBy = o, !.cancel = b,
                      !.payloadCancel = d].claimedBy = o
         /\ [r EXCEPT !.status = st, !.claimedBy = o, !.cancel = b,
                      !.payloadCancel = d].fresh = r.fresh
  BY DEF Row

\* Status, holder and heartbeat after a write.
Becomes(m, st, o, f) == /\ rows'[m].status = st /\ rows'[m].claimedBy = o /\ rows'[m].fresh = f
                        /\ OthersSame(m)

LEMMA EnqueueRow ==
  ASSUME StoreTypeOK, NEW m \in Missions, Enqueue(m)
  PROVE  rows'[m].status = "QUEUED" /\ OthersSame(m)
<1> DEFINE r == [rows[m] EXCEPT !.status = "QUEUED"]
<1>1. rows' = [rows EXCEPT ![m] = r]
  BY Zenon DEF Enqueue
<1>2. r.status = "QUEUED"
  BY RowFields, UpdatedFields
<1> HIDE DEF r
<1> QED BY <1>1, <1>2, PutRow

LEMMA RequestCancelRow ==
  ASSUME StoreTypeOK, NEW m \in Missions, RequestCancel(m)
  PROVE  Becomes(m, IF rows[m].status = "QUEUED" THEN "CANCELLED" ELSE rows[m].status,
                 rows[m].claimedBy, rows[m].fresh)
<1> DEFINE st == IF rows[m].status = "QUEUED" THEN "CANCELLED" ELSE rows[m].status
           r == [rows[m] EXCEPT !.cancel = TRUE, !.payloadCancel = TRUE, !.status = st]
<1>1. rows[m] \in Row
  BY RowFields
<1>2. rows' = [rows EXCEPT ![m] = r]
  BY Zenon DEF RequestCancel
<1> HIDE DEF st
<1>3. r.status = st /\ r.claimedBy = rows[m].claimedBy /\ r.fresh = rows[m].fresh
  BY <1>1, UpdatedFields
<1> HIDE DEF r
<1> QED BY <1>2, <1>3, PutRow DEF Becomes, st

LEMMA HeartbeatRow ==
  ASSUME StoreTypeOK, NEW m \in Missions, NEW o \in Coordinators, Heartbeat(o, m)
  PROVE  Becomes(m, rows[m].status, rows[m].claimedBy, TRUE)
<1> DEFINE d == rows[m].payloadCancel \/ rows[m].cancel
           r == [rows[m] EXCEPT !.fresh = TRUE, !.payloadCancel = d]
<1>1. rows[m] \in Row
  BY RowFields
<1>2. rows' = [rows EXCEPT ![m] = r]
  BY Zenon DEF Heartbeat
<1> HIDE DEF d
<1>3. r.status = rows[m].status /\ r.claimedBy = rows[m].claimedBy /\ r.fresh = TRUE
  BY <1>1, UpdatedFields
<1> HIDE DEF r
<1> QED BY <1>2, <1>3, PutRow DEF Becomes

LEMMA AgeRowRow ==
  ASSUME StoreTypeOK, NEW m \in Missions, AgeRow(m)
  PROVE  Becomes(m, rows[m].status, rows[m].claimedBy, FALSE)
<1> DEFINE r == [rows[m] EXCEPT !.fresh = FALSE]
<1>1. rows[m] \in Row
  BY RowFields
<1>2. rows' = [rows EXCEPT ![m] = r]
  BY Zenon DEF AgeRow
<1>3. r.status = rows[m].status /\ r.claimedBy = rows[m].claimedBy /\ r.fresh = FALSE
  BY <1>1, UpdatedFields
<1> HIDE DEF r
<1> QED BY <1>2, <1>3, PutRow DEF Becomes

LEMMA SaveRow ==
  ASSUME StoreTypeOK, NEW m \in Missions, NEW snap, NEW st, NEW o,
         Save(m, snap, st) \/ SaveOwned(o, m, snap, st)
  PROVE  Becomes(m, st, snap.claimedBy, rows[m].fresh) /\ UNCHANGED outbox
<1> DEFINE b == rows[m].cancel \/ snap.payloadCancel
<1>1. PICK d \in {b, snap.payloadCancel} :
        rows' = [rows EXCEPT ![m] = [rows[m] EXCEPT !.status = st, !.claimedBy = snap.claimedBy,
                                                    !.cancel = b, !.payloadCancel = d]]
  <2>1. \/ rows' = [rows EXCEPT ![m] = [rows[m] EXCEPT !.status = st,
                      !.claimedBy = snap.claimedBy, !.cancel = b, !.payloadCancel = b]]
        \/ rows' = [rows EXCEPT ![m] = [rows[m] EXCEPT !.status = st,
                      !.claimedBy = snap.claimedBy, !.cancel = b,
                      !.payloadCancel = snap.payloadCancel]]
    BY Zenon DEF Save, SaveOwned
  <2> QED BY <2>1
<1> HIDE DEF b
<1> DEFINE r == [rows[m] EXCEPT !.status = st, !.claimedBy = snap.claimedBy,
                                !.cancel = b, !.payloadCancel = d]
<1>2. rows[m] \in Row
  BY RowFields
<1>3. r.status = st /\ r.claimedBy = snap.claimedBy /\ r.fresh = rows[m].fresh
  BY <1>2, UpdatedFields
<1>4. rows' = [rows EXCEPT ![m] = r]
  BY <1>1
<1> HIDE DEF r
<1>5. UNCHANGED outbox
  BY DEF Save, SaveOwned
<1> QED BY <1>3, <1>4, <1>5, PutRow DEF Becomes

LEMMA RequeueRow ==
  ASSUME StoreTypeOK, NEW m \in Missions, Requeue(m), rows[m].status \in Executing
  PROVE  rows'[m].status = "QUEUED" /\ OthersSame(m)
<1> DEFINE b == rows[m].cancel \/ rows[m].payloadCancel
           r == [rows[m] EXCEPT !.status = "QUEUED", !.claimedBy = NoOwner,
                                !.fresh = FALSE, !.cancel = b]
<1>1. rows' = [rows EXCEPT ![m] = r]
  BY Zenon DEF Requeue
<1> HIDE DEF b
<1>2. r.status = "QUEUED"
  BY RowFields, UpdatedFields
<1> HIDE DEF r
<1> QED BY <1>1, <1>2, PutRow

LEMMA FinalizeRow ==
  ASSUME StoreTypeOK, NEW m \in Missions, NEW o, NEW st, FinalizeMission(o, m, st)
  PROVE  /\ Becomes(m, st, rows[m].claimedBy, rows[m].fresh)
         /\ outbox'[m] = IF outbox[m] = Absent THEN st ELSE outbox[m]
         /\ \A x \in Missions : x # m => outbox'[x] = outbox[x]
<1> DEFINE b == rows[m].cancel \/ rows[m].payloadCancel
           r == [rows[m] EXCEPT !.status = st, !.cancel = b]
<1>1. rows' = [rows EXCEPT ![m] = r]
  BY Zenon DEF FinalizeMission
<1> HIDE DEF b
<1>2. r.status = st /\ r.claimedBy = rows[m].claimedBy /\ r.fresh = rows[m].fresh
  BY RowFields, UpdatedFields
<1> HIDE DEF r
<1>3. Becomes(m, st, rows[m].claimedBy, rows[m].fresh)
  BY <1>1, <1>2, PutRow DEF Becomes
<1>4. outbox' = [outbox EXCEPT ![m] = IF outbox[m] = Absent THEN st ELSE outbox[m]]
  BY Zenon DEF FinalizeMission
<1>5. outbox \in [Missions -> Terminal \cup {Absent}]
  BY DEF StoreTypeOK
<1> QED BY <1>3, <1>4, <1>5

\* What a claim does: m is claimed, and rows it passed over may be blocked.
LEMMA ClaimRow ==
  ASSUME StoreTypeOK, NEW m \in Missions, NEW o \in Coordinators, NEW skip,
         ClaimNext(o, skip, m)
  PROVE  /\ rows[m].status = "QUEUED" /\ ~AtQuota(m) /\ Satisfied(m) /\ UNCHANGED outbox
         /\ rows'[m].status = "RUNNING" /\ rows'[m].claimedBy = o /\ rows'[m].fresh = TRUE
         /\ \A x \in Missions : x # m =>
              \/ rows'[x] = rows[x]
              \/ rows[x].status = "QUEUED" /\ rows'[x].status = "BLOCKED_EXTERNAL"
<1> DEFINE r == [rows[m] EXCEPT !.status = "RUNNING", !.claimedBy = o, !.fresh = TRUE]
<1>1. \A x \in Missions : Block(rows[x]).status = "BLOCKED_EXTERNAL"
  BY RowFields, UpdatedFields DEF Block
<1>2. r.status = "RUNNING" /\ r.claimedBy = o /\ r.fresh = TRUE
  BY RowFields, UpdatedFields
<1>3. PICK B \in SUBSET {x \in Candidates(skip) : Rank[x] < Rank[m]} :
        rows' = [x \in Missions |-> IF x = m THEN r
                                    ELSE IF x \in B THEN Block(rows[x]) ELSE rows[x]]
  BY DEF ClaimNext
<1>4. \A x \in B : rows[x].status = "QUEUED"
  BY DEF Candidates, Queue
<1> HIDE DEF r
<1>5. /\ rows[m].status = "QUEUED" /\ ~AtQuota(m) /\ Satisfied(m) /\ UNCHANGED outbox
  BY DEF ClaimNext, Candidates, Queue, Claimable
<1> QED BY <1>1, <1>2, <1>3, <1>4, <1>5

LEMMA ClaimNothingRow ==
  ASSUME StoreTypeOK, NEW skip, ClaimNothing(skip)
  PROVE  /\ UNCHANGED outbox
         /\ \A x \in Missions :
              \/ rows'[x] = rows[x]
              \/ rows[x].status = "QUEUED" /\ rows'[x].status = "BLOCKED_EXTERNAL"
<1>1. \A x \in Missions : Block(rows[x]).status = "BLOCKED_EXTERNAL"
  BY RowFields, UpdatedFields DEF Block
<1>2. PICK B \in SUBSET Candidates(skip) :
        rows' = [x \in Missions |-> IF x \in B THEN Block(rows[x]) ELSE rows[x]]
  BY DEF ClaimNothing
<1>3. \A x \in B : rows[x].status = "QUEUED"
  BY DEF Candidates, Queue
<1> QED BY <1>1, <1>2, <1>3 DEF ClaimNothing

LEMMA BlockDependentsRow ==
  ASSUME StoreTypeOK, NEW m \in Missions, BlockDependents(m)
  PROVE  /\ UNCHANGED outbox
         /\ \A x \in Missions :
              \/ rows'[x] = rows[x]
              \/ /\ DependsOn(x, m) /\ rows[x].status \in DependentBlockable
                 /\ rows'[x].status = "BLOCKED_EXTERNAL"
<1>1. \A x \in Missions : Block(rows[x]).status = "BLOCKED_EXTERNAL"
  BY RowFields, UpdatedFields DEF Block
<1> QED BY <1>1 DEF BlockDependents

-----------------------------------------------------------------------------
(* The life of a mission, step by step.                                    *)

Keeps(x) ==
  /\ runs'[x] = runs[x] /\ outbox'[x] = outbox[x]
  /\ rows'[x].status = rows[x].status \/ {rows[x].status, rows'[x].status} \subseteq Executing

IsSubmitted(x) ==
  /\ rows[x].status = Absent /\ rows'[x].status = "QUEUED"
  /\ DependenciesKnown(x)
  /\ \A y \in Missions : SameWork(x, y) => rows[y].status \notin Active
  /\ OthersSame(x)
  /\ runs'[x] = runs[x] /\ outbox'[x] = outbox[x]

IsClaimed(x) ==
  /\ rows[x].status = "QUEUED" /\ rows'[x].status \in Executing
  /\ Satisfied(x) /\ ~AtQuota(x)
  /\ \A y \in Missions : y # x /\ rows'[y].status \in Executing => rows[y].status \in Executing
  /\ runs'[x] = runs[x] /\ outbox'[x] = outbox[x]

IsGivenBack(x) ==
  /\ rows[x].status \in Executing /\ rows'[x].status = "QUEUED"
  /\ runs[x] = 0 /\ runs'[x] = 0 /\ outbox'[x] = outbox[x]

IsWorkedOn(x) ==
  /\ rows[x].status \in Executing /\ rows'[x].status = rows[x].status
  /\ runs[x] = 0 /\ runs'[x] = 1 /\ outbox'[x] = outbox[x]

IsFinished(x) ==
  /\ rows[x].status \in Active /\ rows'[x].status \in Terminal
  /\ runs'[x] = runs[x] /\ outbox'[x] \in {outbox[x], rows'[x].status}
  /\ rows'[x].status = "PASS" =>
       /\ rows[x].status \in Executing
       /\ x \in DryRun \/ (runs[x] = 1 /\ outbox'[x] = "PASS")

LifeStep(x) == \/ Keeps(x) \/ IsSubmitted(x) \/ IsClaimed(x)
               \/ IsGivenBack(x) \/ IsWorkedOn(x) \/ IsFinished(x)

\* Whatever executes, or was ever worked on, has parents that passed.
WorkRestsOnPasses ==
  \A m \in Missions : rows[m].status \in Executing \/ runs[m] > 0 => Satisfied(m)

ExecutingFor(m) == {x \in Missions : ClientOf[x] = ClientOf[m] /\ rows[x].status \in Executing}

WithinLimit ==
  \A m \in Missions : /\ IsFiniteSet(ExecutingFor(m))
                      /\ Cardinality(ExecutingFor(m)) <= LimitOf[ClientOf[m]]

\* What follows from the shape of the steps alone.
RecordInv == /\ RecordAgrees
             /\ PassEarned
             /\ WorkRestsOnPasses
             /\ SingleFlight
             /\ WithinLimit

LEMMA Families ==
  /\ Executing \cap Terminal = {} /\ "QUEUED" \notin Executing \cup Terminal
  /\ Absent \notin Executing \cup Terminal \cup {"QUEUED"}
  /\ Active = Executing \cup {"QUEUED"}
  /\ Status = Executing \cup Terminal \cup {"QUEUED", Absent}
  /\ {"RUNNING", "OBSERVING", "PLANNING"} \subseteq Executing
  /\ DependencyBlocking = Terminal \ {"PASS"}
  /\ DependentBlockable \subseteq Active
  BY DEF Executing, Terminal, Active, Status, Absent, DependencyBlocking, DependentBlockable

\* Outcomes are final, and a mission has no outcome recorded while it is active.
LEMMA LifeKeepsRecords ==
  ASSUME StoreTypeOK, StoreTypeOK', runs \in [Missions -> Nat], RecordAgrees, PassEarned,
         NEW x \in Missions, LifeStep(x)
  PROVE  /\ outbox'[x] # Absent => rows'[x].status = outbox'[x]
         /\ x \notin DryRun /\ rows'[x].status = "PASS" => runs'[x] = 1 /\ outbox'[x] = "PASS"
         /\ rows[x].status \in Terminal => rows'[x].status = rows[x].status
<1>1. /\ outbox[x] \in Terminal \cup {Absent} /\ outbox'[x] \in Terminal \cup {Absent}
      /\ rows[x].status \in Status /\ rows'[x].status \in Status
  BY RowFields DEF StoreTypeOK, Row
<1>2. /\ outbox[x] # Absent => rows[x].status = outbox[x]
      /\ x \notin DryRun /\ rows[x].status = "PASS" => runs[x] = 1 /\ outbox[x] = "PASS"
  BY DEF RecordAgrees, PassEarned
<1>3. "PASS" \in Terminal
  BY Statuses
<1> QED BY <1>1, <1>2, <1>3, Families
        DEF LifeStep, Keeps, IsSubmitted, IsClaimed, IsGivenBack, IsWorkedOn, IsFinished

LEMMA LifeKeepsQuota ==
  ASSUME WithinLimit, QuotaAssumption, \A x \in Missions : LifeStep(x), NEW m \in Missions
  PROVE  /\ IsFiniteSet(ExecutingFor(m)')
         /\ Cardinality(ExecutingFor(m)') <= LimitOf[ClientOf[m]]
<1>1. /\ IsFiniteSet(ExecutingFor(m)) /\ Cardinality(ExecutingFor(m)) <= LimitOf[ClientOf[m]]
      /\ LimitOf[ClientOf[m]] \in Nat /\ Cardinality(ExecutingFor(m)) \in Nat
  BY FS_CardinalityType DEF WithinLimit, QuotaAssumption
<1>2. CASE \E x \in Missions : IsClaimed(x) /\ ClientOf[x] = ClientOf[m]
  <2>1. PICK x \in Missions : IsClaimed(x) /\ ClientOf[x] = ClientOf[m]
    BY <1>2
  <2>2. ExecutingFor(m)' \subseteq ExecutingFor(m) \cup {x}
    BY <2>1 DEF ExecutingFor, IsClaimed
  <2>3. Cardinality(ExecutingFor(m)) < LimitOf[ClientOf[m]]
    BY <1>1, <2>1 DEF IsClaimed, AtQuota, ExecutingFor
  <2>4. /\ IsFiniteSet(ExecutingFor(m) \cup {x})
        /\ Cardinality(ExecutingFor(m) \cup {x}) <= Cardinality(ExecutingFor(m)) + 1
    <3> DEFINE S == ExecutingFor(m)
    <3>1. IsFiniteSet(S) /\ Cardinality(S) \in Nat
      BY <1>1
    <3> HIDE DEF S
    <3>2. /\ IsFiniteSet(S \cup {x})
          /\ Cardinality(S \cup {x}) = IF x \in S THEN Cardinality(S) ELSE Cardinality(S) + 1
      BY <3>1, FS_AddElement
    <3>3. Cardinality(S \cup {x}) <= Cardinality(S) + 1
      BY <3>1, <3>2
    <3> QED BY <3>2, <3>3 DEF S
  <2>5. /\ IsFiniteSet(ExecutingFor(m)')
        /\ Cardinality(ExecutingFor(m)') <= Cardinality(ExecutingFor(m) \cup {x})
    BY <2>2, <2>4, FS_Subset
  <2>6. /\ Cardinality(ExecutingFor(m)') \in Nat
        /\ Cardinality(ExecutingFor(m) \cup {x}) \in Nat
    BY <2>4, <2>5, FS_CardinalityType
  <2> QED BY <1>1, <2>3, <2>4, <2>5, <2>6
<1>3. CASE ~ \E x \in Missions : IsClaimed(x) /\ ClientOf[x] = ClientOf[m]
  <2>1. \A y \in Missions : ClientOf[y] = ClientOf[m] /\ rows'[y].status \in Executing
                              => rows[y].status \in Executing
    BY <1>3, Families DEF LifeStep, Keeps, IsSubmitted, IsGivenBack, IsWorkedOn, IsFinished
  <2>2. ExecutingFor(m)' \subseteq ExecutingFor(m)
    BY <2>1 DEF ExecutingFor
  <2>3. /\ IsFiniteSet(ExecutingFor(m)')
        /\ Cardinality(ExecutingFor(m)') <= Cardinality(ExecutingFor(m))
    BY <1>1, <2>2, FS_Subset
  <2>4. Cardinality(ExecutingFor(m)') \in Nat
    BY <2>3, FS_CardinalityType
  <2> QED BY <1>1, <2>3, <2>4
<1> QED BY <1>2, <1>3

LEMMA LifeKeepsInv ==
  ASSUME StoreTypeOK, StoreTypeOK', runs \in [Missions -> Nat], QuotaAssumption,
         RecordInv, \A x \in Missions : LifeStep(x)
  PROVE  RecordInv'
<1>1. RecordAgrees' /\ PassEarned'
  BY LifeKeepsRecords DEF RecordInv, RecordAgrees, PassEarned
<1>2. \A x \in Missions : rows[x].status \in Terminal => rows'[x].status = rows[x].status
  BY LifeKeepsRecords DEF RecordInv
<1>3. ASSUME NEW m \in Missions, (rows[m].status \in Executing \/ runs[m] > 0)'
      PROVE  Satisfied(m)'
  <2>1. DepsOf[m] \in Seq(Missions)
    BY StoreAssumption
  <2>2. Satisfied(m) => Satisfied(m)'
    <3>1. \A i \in DOMAIN DepsOf[m] : DepsOf[m][i] \in Missions
      BY <2>1
    <3> QED BY <1>2, <3>1, Statuses DEF Satisfied
  <2>3. Satisfied(m)
    BY <1>3, Families DEF RecordInv, WorkRestsOnPasses, LifeStep, Keeps, IsSubmitted,
       IsClaimed, IsGivenBack, IsWorkedOn, IsFinished
  <2> QED BY <2>2, <2>3
<1>4. ASSUME NEW m \in Missions, NEW x \in Missions, m # x, SameWork(m, x),
             rows'[m].status \in Active, rows'[x].status \in Active
      PROVE  FALSE
  <2>1. \A y \in Missions : rows'[y].status \in Active => rows[y].status \in Active \/ IsSubmitted(y)
    BY Families DEF LifeStep, Keeps, IsClaimed, IsGivenBack, IsWorkedOn, IsFinished
  <2>2. SameWork(x, m)
    BY <1>4 DEF SameWork
  <2> QED BY <1>4, <2>1, <2>2, Families DEF RecordInv, SingleFlight, IsSubmitted, OthersSame
<1>5. WithinLimit'
  BY LifeKeepsQuota DEF RecordInv, WithinLimit
<1> QED BY <1>1, <1>3, <1>4, <1>5 DEF RecordInv, WorkRestsOnPasses, SingleFlight

-----------------------------------------------------------------------------
(* Threads and watchdogs.  A thread has its mission in hand as long as it  *)
(* may still write the row: nobody else changes the row's status, holder   *)
(* or heartbeat underneath it.                                             *)

Working == {"acquire", "load", "cancel_save", "own_blocked", "own_worker", "dry_read",
            "dry_save", "ev_read", "ev_save", "start", "work", "finalize", "abort", "abort_save"}

WithSnapshot == {"cancel_save", "own_blocked", "own_worker", "dry_save", "ev_save", "abort_save"}

InHand(t, c, m) ==
  /\ t.pc \in Working =>
       rows[m].status \in Executing /\ rows[m].claimedBy = c /\ rows[m].fresh = TRUE
  /\ t.pc \in WithSnapshot => t.snap.status \in Executing /\ t.snap.claimedBy = c
  /\ t.pc = "block_deps" => rows[m].status \in DependencyBlocking
  /\ t.pc \in {"dry_read", "dry_save"} =>
       m \in DryRun /\ t.to \in {"OBSERVING", "PLANNING", "PASS"}
  /\ t.pc \in {"work", "finalize"} => runs[m] = 1

AllInHand == \A c \in Coordinators, m \in Missions : InHand(task[c][m], c, m)

\* What a watchdog is about to fail: a row no thread holds, or one that another
\* watchdog has failed already.
EntriesUnheld ==
  \A c \in Coordinators : \A e \in scan[c] :
     /\ rows[e.mission].status \in Executing \cup {"FAIL"}
     /\ \A d \in Coordinators : ~Holds(d, e.mission)

\* The inductive invariant of the punctual runtime.
PunctualInv == LeaseInv /\ AtMostOnceInv /\ AllInHand /\ EntriesUnheld /\ RecordInv

\* What may happen to a row behind the back of its holder.
Undisturbed(x) ==
  /\ rows[x].status \in Terminal => rows'[x].status = rows[x].status
  /\ rows[x].status \in Executing =>
       /\ rows'[x].status \in Executing \cup {"FAIL"}
       /\ (\E c \in Coordinators : Holds(c, x)) =>
            /\ rows'[x].status \in Executing
            /\ rows'[x].claimedBy = rows[x].claimedBy
            /\ rows[x].fresh = TRUE => rows'[x].fresh = TRUE

LEMMA RowStays ==
  ASSUME NEW x \in Missions, rows'[x] = rows[x], runs'[x] = runs[x], outbox'[x] = outbox[x]
  PROVE  LifeStep(x) /\ Undisturbed(x)
  BY DEF LifeStep, Keeps, Undisturbed

LEMMA HoldingStages ==
  /\ Working \cup {"block_deps"} = Stage \ {"idle", "release", "leaked"}
  /\ WithSnapshot \cup {"dry_read", "work", "finalize"} \subseteq Working
  /\ "block_deps" \notin Working
  BY DEF Working, WithSnapshot, Stage, Admitted, Aborting

LEMMA NotHeld ==
  ASSUME NEW t, NEW c, NEW m, t.pc \in {"idle", "release", "leaked"}
  PROVE  InHand(t, c, m) /\ InHand(t, c, m)'
  BY DEF InHand, Working, WithSnapshot

\* Steps that leave the threads alone, or end them.
LEMMA HandsOff ==
  ASSUME Typed, AllInHand, EntriesUnheld, \A x \in Missions : Undisturbed(x), UNCHANGED runs,
         \A d \in Coordinators : scan'[d] \subseteq scan[d],
         \A d \in Coordinators, x \in Missions :
           task'[d][x] = task[d][x] \/ task'[d][x].pc \in {"idle", "release", "leaked"}
  PROVE  AllInHand' /\ EntriesUnheld'
<1>1. ASSUME NEW d \in Coordinators, NEW x \in Missions
      PROVE  InHand(task[d][x], d, x)'
  <2>1. CASE task'[d][x].pc \in {"idle", "release", "leaked"}
    BY <2>1 DEF InHand, Working, WithSnapshot
  <2>2. CASE task'[d][x] = task[d][x] /\ task[d][x].pc \notin {"idle", "release", "leaked"}
    <3>1. Holds(d, x)
      BY <2>2 DEF Holds
    <3>2. Undisturbed(x) /\ InHand(task[d][x], d, x)
      BY DEF AllInHand
    <3> QED BY <2>2, <3>1, <3>2, Families, HoldingStages DEF InHand, Undisturbed
  <2> QED BY <2>1, <2>2
<1>2. ASSUME NEW d \in Coordinators, NEW e \in scan'[d]
      PROVE  /\ rows'[e.mission].status \in Executing \cup {"FAIL"}
             /\ \A h \in Coordinators : ~Holds(h, e.mission)'
  <2>1. e \in scan[d] /\ e.mission \in Missions
    BY DEF Typed, TypeOK, Entry
  <2> QED BY <2>1, Statuses DEF EntriesUnheld, Undisturbed, Holds
<1> QED BY <1>1, <1>2 DEF AllInHand, EntriesUnheld

\* Steps of the thread that has mission m in hand, or takes it.
LEMMA HandMoves ==
  ASSUME Typed, AllInHand, EntriesUnheld, NEW c \in Coordinators, NEW m \in Missions,
         \A d \in Coordinators : d # c => ~Holds(d, m),
         \A d \in Coordinators : \A e \in scan[d] : e.mission # m,
         NEW t, task' = [task EXCEPT ![c][m] = t], UNCHANGED scan,
         InHand(t, c, m)',
         \A x \in Missions : x # m => Undisturbed(x) /\ runs'[x] = runs[x]
  PROVE  AllInHand' /\ EntriesUnheld'
<1>1. \A d \in Coordinators, x \in Missions :
        task'[d][x] = IF d = c /\ x = m THEN t ELSE task[d][x]
  BY DEF Typed, TypeOK
<1>2. ASSUME NEW d \in Coordinators, NEW x \in Missions
      PROVE  InHand(task[d][x], d, x)'
  <2>1. CASE d = c /\ x = m
    BY <1>1, <2>1
  <2>2. CASE d # c /\ x = m
    <3>1. task'[d][x] = task[d][x] /\ task[d][x].pc \in {"idle", "release", "leaked"}
      BY <1>1, <2>2 DEF Holds
    <3> QED BY <3>1, NotHeld DEF InHand, Working, WithSnapshot
  <2>3. CASE x # m /\ Holds(d, x)
    <3>1. Undisturbed(x) /\ InHand(task[d][x], d, x) /\ task'[d][x] = task[d][x]
      BY <1>1, <2>3 DEF AllInHand
    <3>2. task[d][x].pc \in Working \/ task[d][x].pc = "block_deps"
      BY <2>3, TaskFields, HoldingStages DEF Holds, Typed
    <3> QED BY <2>3, <3>1, <3>2, Families, HoldingStages DEF InHand, Undisturbed
  <2>4. CASE x # m /\ ~Holds(d, x)
    BY <1>1, <2>4 DEF Holds, InHand, Working, WithSnapshot
  <2> QED BY <2>1, <2>2, <2>3, <2>4
<1>3. ASSUME NEW d \in Coordinators, NEW e \in scan'[d]
      PROVE  /\ rows'[e.mission].status \in Executing \cup {"FAIL"}
             /\ \A h \in Coordinators : ~Holds(h, e.mission)'
  <2>1. e \in scan[d] /\ e.mission \in Missions /\ e.mission # m
    BY DEF Typed, TypeOK, Entry
  <2> QED BY <1>1, <2>1, Statuses DEF EntriesUnheld, Undisturbed, Holds
<1> QED BY <1>2, <1>3 DEF AllInHand, EntriesUnheld

LEMMA MovesTo ==
  ASSUME NEW c, NEW m, NEW pc, Goto(c, m, pc)
  PROVE  \E t : t.pc = pc /\ task' = [task EXCEPT ![c][m] = t]
<1>1. Stand(pc).pc = pc /\ task' = [task EXCEPT ![c][m] = Stand(pc)]
  BY Moves DEF Stand
<1> QED BY <1>1

LEMMA MovesWith ==
  ASSUME NEW c, NEW m, NEW pc, NEW snap, NEW to, GotoWith(c, m, pc, snap, to)
  PROVE  \E t : /\ t.pc = pc /\ t.snap = snap /\ t.to = to
                /\ task' = [task EXCEPT ![c][m] = t]
<1> DEFINE r == [pc |-> pc, snap |-> snap, to |-> to]
<1>1. r.pc = pc /\ r.snap = snap /\ r.to = to
  OBVIOUS
<1>2. task' = [task EXCEPT ![c][m] = r]
  BY DEF GotoWith
<1> HIDE DEF r
<1> QED BY <1>1, <1>2

\* Steps of a pool thread.
LEMMA ThreadLives ==
  ASSUME PunctualInv, NEW c \in Coordinators, NEW m \in Missions,
         Thread(c, m) \/ ThreadError(c, m)
  PROVE  AllInHand' /\ EntriesUnheld' /\ \A x \in Missions : LifeStep(x)
<1> DEFINE T == task[c][m]
           Goal == AllInHand' /\ EntriesUnheld' /\ \A x \in Missions : LifeStep(x)
           Same(x) == runs'[x] = runs[x] /\ outbox'[x] = outbox[x]
<1>1. /\ Typed /\ StoreTypeOK /\ AllInHand /\ EntriesUnheld
      /\ T \in Task /\ T.pc \in Stage /\ InHand(T, c, m)
      /\ Read(m).status = rows[m].status /\ Read(m).claimedBy = rows[m].claimedBy
      /\ T.pc = "finalize" => T.to \in Terminal
      /\ T.pc \in BeforeWork => runs[m] = 0
      /\ runs \in [Missions -> Nat]
  BY TaskFields DEF PunctualInv, AtMostOnceInv, Typed, TypeOK, AllInHand, Verdicts,
     ThreadOK, Read
<1>2. ASSUME Holds(c, m)
      PROVE  /\ \A d \in Coordinators : d # c => ~Holds(d, m)
             /\ \A d \in Coordinators : \A e \in scan[d] : e.mission # m
  BY <1>2 DEF PunctualInv, AtMostOnceInv, OneExecutor, EntriesUnheld
<1>3. T.pc \in Working \cup {"block_deps"} => Holds(c, m)
  BY <1>1, HoldingStages DEF Holds
<1> HIDE DEF T
\* The step of a thread on its own row.
<1>4. ASSUME Holds(c, m), NEW t, task' = [task EXCEPT ![c][m] = t], UNCHANGED scan,
             OthersSame(m), \A x \in Missions : x # m => Same(x),
             InHand(t, c, m)', LifeStep(m)
      PROVE  Goal
  <2>1. \A x \in Missions : x # m => LifeStep(x) /\ Undisturbed(x) /\ runs'[x] = runs[x]
    BY <1>4, RowStays DEF OthersSame
  <2>2. AllInHand' /\ EntriesUnheld'
    BY <1>1, <1>2, <1>4, <2>1, HandMoves
  <2> QED BY <1>4, <2>1, <2>2
\* It moves on, the row as it is.
<1>5. ASSUME T.pc \in Working, NEW t, task' = [task EXCEPT ![c][m] = t],
             UNCHANGED <<rows, outbox, runs, scan>>, t.pc # "block_deps",
             t.pc \in WithSnapshot => t.snap.status \in Executing /\ t.snap.claimedBy = c,
             t.pc \in {"dry_read", "dry_save"} =>
               m \in DryRun /\ t.to \in {"OBSERVING", "PLANNING", "PASS"},
             t.pc \in {"work", "finalize"} => runs[m] = 1
      PROVE  Goal
  <2>1. InHand(t, c, m)'
    BY <1>1, <1>5 DEF InHand
  <2>2. OthersSame(m) /\ \A x \in Missions : Same(x)
    BY <1>5 DEF OthersSame
  <2>3. LifeStep(m)
    BY <1>5, RowStays
  <2> QED BY <1>3, <1>4, <1>5, <2>1, <2>2, <2>3
<1>6. ASSUME T.pc \in Working, NEW pc, Goto(c, m, pc), UNCHANGED <<rows, outbox, runs, scan>>,
             pc \notin WithSnapshot \cup {"block_deps", "dry_read", "dry_save", "finalize", "work"}
      PROVE  Goal
  <2>1. Stand(pc).pc = pc /\ task' = [task EXCEPT ![c][m] = Stand(pc)]
    BY <1>6, Moves DEF Stand
  <2> QED BY <1>5, <1>6, <2>1
<1>7. ASSUME T.pc \in Working, NEW pc, NEW snap, NEW to, GotoWith(c, m, pc, snap, to),
             UNCHANGED <<rows, outbox, runs, scan>>, pc # "block_deps",
             pc \in WithSnapshot => snap.status \in Executing /\ snap.claimedBy = c,
             pc \in {"dry_read", "dry_save"} =>
               m \in DryRun /\ to \in {"OBSERVING", "PLANNING", "PASS"},
             pc \in {"work", "finalize"} => runs[m] = 1
      PROVE  Goal
  <2>1. PICK t : /\ t.pc = pc /\ t.snap = snap /\ t.to = to
                 /\ task' = [task EXCEPT ![c][m] = t]
    BY <1>7, MovesWith
  <2>2. /\ t.pc # "block_deps"
        /\ t.pc \in WithSnapshot => t.snap.status \in Executing /\ t.snap.claimedBy = c
        /\ t.pc \in {"dry_read", "dry_save"} =>
             m \in DryRun /\ t.to \in {"OBSERVING", "PLANNING", "PASS"}
        /\ t.pc \in {"work", "finalize"} => runs[m] = 1
    BY <1>7, <2>1
  <2>3. T.pc \in Working /\ UNCHANGED <<rows, outbox, runs, scan>>
    BY <1>7
  <2> QED BY <1>5, <2>1, <2>2, <2>3
\* It writes its row and goes on.
<1>8. ASSUME T.pc \in Working, NEW st \in Executing, Becomes(m, st, c, rows[m].fresh),
             UNCHANGED <<outbox, runs, scan>>,
             NEW t, task' = [task EXCEPT ![c][m] = t],
             t.pc \notin WithSnapshot \cup {"block_deps", "dry_save", "finalize", "work"},
             t.pc = "dry_read" => m \in DryRun /\ t.to \in {"OBSERVING", "PLANNING", "PASS"}
      PROVE  Goal
  <2>1. rows[m].status \in Executing /\ rows[m].fresh = TRUE
    BY <1>1, <1>8 DEF InHand
  <2>2. InHand(t, c, m)'
    BY <1>8, <2>1 DEF InHand, Becomes
  <2>3. OthersSame(m) /\ \A x \in Missions : Same(x)
    BY <1>8 DEF Becomes
  <2>4. LifeStep(m)
    BY <1>8, <2>1 DEF LifeStep, Keeps, Becomes
  <2> QED BY <1>3, <1>4, <1>8, <2>2, <2>3, <2>4
\* It writes an outcome.
<1>9. ASSUME T.pc \in Working, NEW st \in Terminal, NEW o, NEW f, Becomes(m, st, o, f),
             UNCHANGED <<runs, scan>>,
             \A x \in Missions : x # m => outbox'[x] = outbox[x], outbox'[m] \in {outbox[m], st},
             st = "PASS" => m \in DryRun \/ (runs[m] = 1 /\ outbox'[m] = "PASS"),
             NEW pc \in {"release", "block_deps"}, Goto(c, m, pc),
             pc = "block_deps" => st # "PASS"
      PROVE  Goal
  <2>1. rows[m].status \in Executing
    BY <1>1, <1>9 DEF InHand
  <2>2. Stand(pc).pc = pc /\ task' = [task EXCEPT ![c][m] = Stand(pc)]
    BY <1>9, Moves DEF Stand
  <2>3. rows'[m].status = st /\ OthersSame(m)
    BY <1>9 DEF Becomes
  <2>4. InHand(Stand(pc), c, m)'
    BY <1>9, <2>2, <2>3, Families, HoldingStages DEF InHand, Stand
  <2>5. LifeStep(m)
    BY <1>9, <2>1, <2>3, Families DEF LifeStep, IsFinished
  <2> QED BY <1>3, <1>4, <1>9, <2>2, <2>3, <2>4, <2>5
\* It lets its mission go, the row as it is.
<1>10. ASSUME NEW t, task' = [task EXCEPT ![c][m] = t], t.pc \in {"idle", "release", "leaked"},
              UNCHANGED <<rows, outbox, runs, scan>>
       PROVE  Goal
  <2>1. \A d \in Coordinators, x \in Missions :
          task'[d][x] = IF d = c /\ x = m THEN t ELSE task[d][x]
    BY <1>1, <1>10 DEF Typed, TypeOK
  <2>2. \A x \in Missions : LifeStep(x) /\ Undisturbed(x)
    BY <1>10, RowStays
  <2> QED BY <1>1, <1>10, <2>1, <2>2, HandsOff
<1>11. ASSUME NEW pc \in {"idle", "release", "leaked"}, Goto(c, m, pc),
              UNCHANGED <<rows, outbox, runs, scan>>
       PROVE  Goal
  <2>1. Stand(pc).pc = pc /\ task' = [task EXCEPT ![c][m] = Stand(pc)]
    BY <1>11, Moves DEF Stand
  <2> QED BY <1>10, <1>11, <2>1
<1>12. ASSUME T.pc \in Working
       PROVE  rows[m].status \in Executing /\ rows[m].claimedBy = c /\ rows[m].fresh = TRUE
  BY <1>1, <1>12 DEF InHand
<1>13. ASSUME T.pc \in WithSnapshot  PROVE T.snap.status \in Executing /\ T.snap.claimedBy = c
  BY <1>1, <1>13 DEF InHand
<1>14. CASE AcquireLease(c, m)
  BY <1>6, <1>14 DEF AcquireLease, At, Working, WithSnapshot, T
<1>15. CASE AcquireTimeout(c, m)
  <2>1. /\ T.pc = "acquire" /\ Requeue(m) /\ UNCHANGED <<runs, scan, outbox>>
        /\ Goto(c, m, "release")
    BY <1>15 DEF AcquireTimeout, At, Requeue, T
  <2>2. rows[m].status \in Executing /\ runs[m] = 0
    BY <1>1, <1>12, <2>1 DEF Working, BeforeWork
  <2>3. rows'[m].status = "QUEUED" /\ OthersSame(m)
    BY <1>1, <2>1, <2>2, RequeueRow
  <2>4. LifeStep(m)
    BY <2>1, <2>2, <2>3 DEF LifeStep, IsGivenBack
  <2>5. Stand("release").pc = "release" /\ task' = [task EXCEPT ![c][m] = Stand("release")]
    BY <2>1, Moves DEF Stand
  <2>6. InHand(Stand("release"), c, m)'
    BY <2>5 DEF InHand, Working, WithSnapshot, Stand
  <2>7. \A x \in Missions : Same(x)
    BY <2>1
  <2>8. Holds(c, m)
    BY <1>3, <2>1 DEF Working
  <2> QED BY <1>4, <2>1, <2>3, <2>4, <2>5, <2>6, <2>7, <2>8
<1>16. CASE Load(c, m)
  BY <1>1, <1>7, <1>12, <1>16 DEF Load, At, Working, WithSnapshot, T
<1>17. CASE FinalizeCancelled(c, m)
  <2>1. T.pc = "cancel_save" /\ Save(m, T.snap, "CANCELLED") /\ Goto(c, m, "block_deps")
        /\ UNCHANGED <<runs, scan>>
    BY <1>17 DEF FinalizeCancelled, At, T
  <2>2. Becomes(m, "CANCELLED", T.snap.claimedBy, rows[m].fresh) /\ UNCHANGED outbox
    BY <1>1, <2>1, SaveRow
  <2> QED BY <1>9, <2>1, <2>2, Statuses DEF Working
<1>18. CASE BlockForNoWorker(c, m)
  <2>1. T.pc = "own_blocked" /\ SaveOwned(c, m, T.snap, "BLOCKED") /\ Goto(c, m, "block_deps")
        /\ UNCHANGED <<runs, scan>>
    BY <1>12, <1>18 DEF BlockForNoWorker, OwnedSave, At, T, Working
  <2>2. Becomes(m, "BLOCKED", T.snap.claimedBy, rows[m].fresh) /\ UNCHANGED outbox
    BY <1>1, <2>1, SaveRow
  <2> QED BY <1>9, <2>1, <2>2, Statuses DEF Working
<1>19. CASE RecordWorker(c, m)
  <2>1. /\ T.pc = "own_worker" /\ SaveOwned(c, m, T.snap, T.snap.status)
        /\ UNCHANGED <<runs, scan>>
        /\ \/ m \in DryRun /\ GotoWith(c, m, "dry_read", NoSnapshot, "OBSERVING")
           \/ Goto(c, m, "ev_read")
    BY <1>12, <1>19 DEF RecordWorker, OwnedSave, At, T, Working
  <2>2. Becomes(m, T.snap.status, c, rows[m].fresh) /\ UNCHANGED outbox
        /\ T.snap.status \in Executing
    BY <1>1, <1>13, <2>1, SaveRow DEF WithSnapshot
  <2>3. \E t : /\ task' = [task EXCEPT ![c][m] = t]
               /\ t.pc \in {"dry_read", "ev_read"}
               /\ t.pc = "dry_read" => m \in DryRun /\ t.to = "OBSERVING"
    <3>1. CASE Goto(c, m, "ev_read")
      <4>1. PICK t : t.pc = "ev_read" /\ task' = [task EXCEPT ![c][m] = t]
        BY <3>1, MovesTo
      <4> QED BY <4>1
    <3>2. CASE m \in DryRun /\ GotoWith(c, m, "dry_read", NoSnapshot, "OBSERVING")
      <4>1. PICK t : /\ t.pc = "dry_read" /\ t.to = "OBSERVING"
                     /\ task' = [task EXCEPT ![c][m] = t]
        BY <3>2, MovesWith
      <4> QED BY <3>2, <4>1
    <3> QED BY <2>1, <3>1, <3>2
  <2> QED BY <1>8, <2>1, <2>2, <2>3 DEF Working, WithSnapshot
<1>20. CASE DryRead(c, m)
  BY <1>1, <1>7, <1>12, <1>20 DEF DryRead, At, Working, InHand, T
<1>21. CASE DrySave(c, m)
  <2>1. /\ T.pc = "dry_save" /\ Save(m, T.snap, T.to) /\ UNCHANGED <<runs, scan>>
        /\ m \in DryRun /\ T.to \in {"OBSERVING", "PLANNING", "PASS"}
    BY <1>1, <1>21 DEF DrySave, At, InHand, T
  <2>2. Becomes(m, T.to, c, rows[m].fresh) /\ UNCHANGED outbox
    BY <1>1, <1>13, <2>1, SaveRow DEF WithSnapshot
  <2>3. CASE T.to = "PASS"
    <3>1. Goto(c, m, "release")
      BY <1>21, <2>3 DEF DrySave, T
    <3>2. T.pc \in Working /\ T.to \in Terminal
      BY <2>1, <2>3, Statuses DEF Working
    <3>3. /\ \A x \in Missions : x # m => outbox'[x] = outbox[x]
          /\ outbox'[m] \in {outbox[m], T.to}
      BY <2>2
    <3>4. UNCHANGED <<runs, scan>> /\ m \in DryRun
      BY <2>1
    <3>5. Becomes(m, T.to, c, rows[m].fresh)
      BY <2>2
    <3>6. "release" \in {"release", "block_deps"} /\ "release" # "block_deps"
      OBVIOUS
    <3> QED BY <1>9, <3>1, <3>2, <3>3, <3>4, <3>5, <3>6
  <2>4. CASE T.to # "PASS"
    <3>1. \E to \in {"PLANNING", "PASS"} : GotoWith(c, m, "dry_read", NoSnapshot, to)
      BY <1>21, <2>1, <2>4 DEF DrySave, T
    <3>2. \E t : /\ task' = [task EXCEPT ![c][m] = t]
                 /\ t.pc = "dry_read" /\ t.to \in {"PLANNING", "PASS"}
      BY <3>1, MovesWith
    <3> QED BY <1>8, <2>1, <2>2, <2>4, <3>2, Families DEF Working, WithSnapshot
  <2> QED BY <2>3, <2>4
<1>22. CASE EvidenceRead(c, m)
  BY <1>1, <1>7, <1>12, <1>22 DEF EvidenceRead, At, Working, T
<1>23. CASE EvidenceSave(c, m)
  <2>1. /\ T.pc = "ev_save" /\ SaveOwned(c, m, T.snap, T.snap.status)
        /\ UNCHANGED <<runs, scan>> /\ Goto(c, m, "start")
    BY <1>12, <1>23 DEF EvidenceSave, OwnedSave, At, T, Working
  <2>2. Becomes(m, T.snap.status, c, rows[m].fresh) /\ UNCHANGED outbox
        /\ T.snap.status \in Executing
    BY <1>1, <1>13, <2>1, SaveRow DEF WithSnapshot
  <2>3. Stand("start").pc = "start" /\ task' = [task EXCEPT ![c][m] = Stand("start")]
    BY <2>1, Moves DEF Stand
  <2> QED BY <1>8, <2>1, <2>2, <2>3 DEF Working, WithSnapshot
<1>24. CASE StartWorker(c, m)
  <2>1. T.pc = "start" /\ UNCHANGED <<rows, outbox, scan>>
    BY <1>24 DEF StartWorker, At, T
  <2>2. runs[m] = 0 /\ runs'[m] = 1 /\ \A x \in Missions : x # m => runs'[x] = runs[x]
    BY <1>1, <1>24, <2>1 DEF StartWorker, BeforeWork
  <2>3. rows[m].status \in Executing
    BY <1>12, <2>1 DEF Working
  <2>4. LifeStep(m)
    BY <2>1, <2>2, <2>3 DEF LifeStep, IsWorkedOn
  <2>5. Stand("work").pc = "work" /\ task' = [task EXCEPT ![c][m] = Stand("work")]
    BY <1>24, Moves DEF StartWorker, Stand
  <2>6. InHand(Stand("work"), c, m)'
    BY <1>12, <2>1, <2>2, <2>5 DEF InHand, Working, WithSnapshot, Stand
  <2>7. Holds(c, m) /\ OthersSame(m) /\ \A x \in Missions : x # m => Same(x)
    BY <1>3, <2>1, <2>2 DEF Working, OthersSame
  <2> QED BY <1>4, <2>1, <2>4, <2>5, <2>6, <2>7
<1>25. CASE WorkerSucceeds(c, m) \/ WorkerCancelled(c, m) \/ WorkerFails(c, m)
  BY <1>1, <1>7, <1>25 DEF WorkerSucceeds, WorkerCancelled, WorkerFails, At, Working,
     WithSnapshot, InHand, T
<1>26. CASE Finalize(c, m)
  <2>1. T.pc = "finalize" /\ UNCHANGED <<runs, scan>> /\ T.to \in Terminal /\ runs[m] = 1
    BY <1>1, <1>26 DEF Finalize, At, InHand, T
  <2>2. FinalizeMission(c, m, T.to) /\ AfterFinalize(c, m)
    BY <1>12, <1>26, <2>1 DEF Finalize, CanFinalize, Working, T
  <2>3. /\ Becomes(m, T.to, rows[m].claimedBy, rows[m].fresh)
        /\ outbox'[m] = IF outbox[m] = Absent THEN T.to ELSE outbox[m]
        /\ \A x \in Missions : x # m => outbox'[x] = outbox[x]
    BY <1>1, <2>2, FinalizeRow
  <2>4. outbox[m] = Absent
    <3>1. outbox[m] \in Terminal \cup {Absent} /\ (outbox[m] # Absent => rows[m].status = outbox[m])
      BY <1>1 DEF StoreTypeOK, PunctualInv, RecordInv, RecordAgrees
    <3> QED BY <1>12, <2>1, <3>1, Families DEF Working
  <2>5. \E pc \in {"release", "block_deps"} : /\ Goto(c, m, pc)
                                              /\ pc = "block_deps" => T.to # "PASS"
    BY <2>2 DEF AfterFinalize, T
  <2> QED BY <1>9, <2>1, <2>3, <2>4, <2>5 DEF Working
<1>27. CASE BlockDependentMissions(c, m)
  <2>1. /\ T.pc = "block_deps" /\ BlockDependents(m) /\ Goto(c, m, "release")
        /\ UNCHANGED <<runs, scan>>
    BY <1>27 DEF BlockDependentMissions, At, T
  <2>2. rows[m].status # "PASS"
    BY <1>1, <2>1, Families DEF InHand
  <2>3. ASSUME NEW x \in Missions, DependsOn(x, m)  PROVE rows[x].status \notin Executing
    BY <2>2, <2>3 DEF DependsOn, Satisfied, PunctualInv, RecordInv, WorkRestsOnPasses
  <2>4. ASSUME NEW x \in Missions  PROVE LifeStep(x) /\ Undisturbed(x)
    <3>1. UNCHANGED outbox /\ \/ rows'[x] = rows[x]
                              \/ /\ DependsOn(x, m) /\ rows[x].status \in DependentBlockable
                                 /\ rows'[x].status = "BLOCKED_EXTERNAL"
      BY <1>1, <2>1, BlockDependentsRow
    <3>2. CASE rows'[x] = rows[x]
      BY <2>1, <3>1, <3>2, RowStays
    <3>3. CASE rows'[x] # rows[x]
      <4>1. /\ rows[x].status = "QUEUED" /\ rows'[x].status = "BLOCKED_EXTERNAL"
            /\ outbox'[x] = outbox[x] /\ runs'[x] = runs[x]
        BY <2>1, <2>3, <3>1, <3>3, Families
      <4> QED BY <4>1, Families, Statuses DEF LifeStep, IsFinished, Undisturbed
    <3> QED BY <3>2, <3>3
  <2>5. Stand("release").pc = "release" /\ task' = [task EXCEPT ![c][m] = Stand("release")]
    BY <2>1, Moves DEF Stand
  <2>6. \A d \in Coordinators, x \in Missions :
          task'[d][x] = IF d = c /\ x = m THEN Stand("release") ELSE task[d][x]
    BY <1>1, <2>5 DEF Typed, TypeOK
  <2> QED BY <1>1, <2>1, <2>4, <2>5, <2>6, HandsOff
<1>28. CASE Release(c, m)
  BY <1>10, <1>28, StandType DEF Release, Stand
<1>29. CASE AbortRead(c, m)
  <2>1. T.pc = "abort" /\ UNCHANGED <<rows, outbox, runs, scan>>
    BY <1>29 DEF AbortRead, At, T
  <2>2. CASE Goto(c, m, "release")
    BY <1>11, <2>1, <2>2
  <2>3. CASE GotoWith(c, m, "abort_save", Read(m), Absent)
    BY <1>1, <1>7, <1>12, <2>1, <2>3 DEF Working
  <2> QED BY <1>29, <2>2, <2>3 DEF AbortRead
<1>30. CASE AbortSave(c, m)
  <2>1. /\ T.pc = "abort_save" /\ Save(m, T.snap, "FAIL") /\ Goto(c, m, "release")
        /\ UNCHANGED <<runs, scan>>
    BY <1>30 DEF AbortSave, At, T
  <2>2. Becomes(m, "FAIL", T.snap.claimedBy, rows[m].fresh) /\ UNCHANGED outbox
    BY <1>1, <2>1, SaveRow
  <2> QED BY <1>9, <2>1, <2>2, Statuses DEF Working
<1>31. CASE ContextError(c, m) \/ ExecuteError(c, m)
  BY <1>6, <1>31 DEF ContextError, ExecuteError, At, Working, WithSnapshot, T
<1>32. CASE FinalizeError(c, m) \/ ReleaseError(c, m)
  BY <1>11, <1>32 DEF FinalizeError, ReleaseError
<1> QED BY <1>14, <1>15, <1>16, <1>17, <1>18, <1>19, <1>20, <1>21, <1>22, <1>23, <1>24, <1>25,
           <1>26, <1>27, <1>28, <1>29, <1>30, <1>31, <1>32 DEF Thread, ThreadError

\* A row that is beaten by the thread that holds it does not age.
LEMMA HeldRowsStayFresh ==
  ASSUME PunctualInv, Punctual, NEW m \in Missions, RowAges(m)
  PROVE  rows[m].status \in Executing => \A c \in Coordinators : ~Holds(c, m)
<1> SUFFICES ASSUME rows[m].status \in Executing, NEW c \in Coordinators, Holds(c, m)
             PROVE  FALSE
  OBVIOUS
<1>1. Typed /\ InHand(task[c][m], c, m) /\ task[c][m].pc \in Stage
  BY TaskFields DEF PunctualInv, LeaseInv, AllInHand, Typed
<1>2. task[c][m].pc \in Working
  BY <1>1, HoldingStages, Families DEF Holds, InHand
<1>3. rows[m].claimedBy = c
  BY <1>1, <1>2 DEF InHand
<1>4. task[c][m].pc \notin {"idle", "leaked"} /\ m \in Inflight(c)
  BY DEF Holds, Inflight
<1>5. Beats(c)
  BY <1>4 DEF PunctualInv, LeaseInv
<1> QED BY <1>3, <1>4, <1>5 DEF RowAges, RowBeaten, Punctual

\* Steps of the API, of claim loops, of heartbeat threads, of processes and of time.
LEMMA ElsewhereLives ==
  ASSUME PunctualInv, Punctual,
         \/ Api \/ Time
         \/ \E c \in Coordinators : ClaimLoop(c) \/ Beat(c) \/ Watchdog(c) \/ Lifecycle(c)
  PROVE  AllInHand' /\ EntriesUnheld' /\ \A x \in Missions : LifeStep(x)
<1> DEFINE Goal == AllInHand' /\ EntriesUnheld' /\ \A x \in Missions : LifeStep(x)
<1>1. /\ Typed /\ StoreTypeOK /\ AllInHand /\ EntriesUnheld
      /\ task \in [Coordinators -> [Missions -> Task]]
      /\ scan \in [Coordinators -> SUBSET Entry]
  BY DEF PunctualInv, LeaseInv, Typed, TypeOK
\* A step that leaves the threads and the watchdogs alone.
<1>2. ASSUME \A x \in Missions : LifeStep(x) /\ Undisturbed(x), UNCHANGED <<task, scan, runs>>
      PROVE  Goal
  BY <1>1, <1>2, HandsOff
<1>3. ASSUME UNCHANGED <<rows, outbox, runs>>
      PROVE  \A x \in Missions : LifeStep(x) /\ Undisturbed(x)
  BY <1>3, RowStays
\* One row changes.
<1>4. ASSUME NEW m \in Missions, LifeStep(m) /\ Undisturbed(m), OthersSame(m),
             UNCHANGED <<outbox, runs>>
      PROVE  \A x \in Missions : LifeStep(x) /\ Undisturbed(x)
  BY <1>4, RowStays DEF OthersSame
<1>5. ASSUME NEW m \in Missions, Submit(m)  PROVE Goal
  <2>1. /\ Enqueue(m) /\ UNCHANGED <<task, scan, runs, outbox>>
        /\ rows'[m].status = "QUEUED" /\ OthersSame(m)
    BY <1>1, <1>5, EnqueueRow DEF Submit, Enqueue
  <2>2. LifeStep(m)
    BY <2>1 DEF Enqueue, LifeStep, IsSubmitted
  <2>3. Undisturbed(m)
    BY <2>1, Families DEF Enqueue, Undisturbed
  <2> QED BY <1>2, <1>4, <2>1, <2>2, <2>3
<1>6. ASSUME NEW m \in Missions, CancelMission(m)  PROVE Goal
  <2>1. /\ RequestCancel(m) /\ UNCHANGED <<task, scan, runs, outbox>>
        /\ Becomes(m, IF rows[m].status = "QUEUED" THEN "CANCELLED" ELSE rows[m].status,
                   rows[m].claimedBy, rows[m].fresh)
    BY <1>1, <1>6, RequestCancelRow DEF CancelMission, RequestCancel
  <2>2. LifeStep(m) /\ Undisturbed(m)
    <3>1. CASE rows[m].status = "QUEUED"
      <4>1. rows'[m].status = "CANCELLED"
        BY <2>1, <3>1 DEF Becomes
      <4> QED BY <2>1, <3>1, <4>1, Families, Statuses
              DEF LifeStep, IsFinished, Undisturbed
    <3>2. CASE rows[m].status # "QUEUED"
      BY <2>1, <3>2 DEF LifeStep, Keeps, Undisturbed, Becomes
    <3> QED BY <3>1, <3>2
  <2> QED BY <1>2, <1>4, <2>1, <2>2 DEF Becomes
<1>7. ASSUME NEW m \in Missions, RowAges(m)  PROVE Goal
  <2>1. /\ UNCHANGED <<task, scan, runs, outbox>>
        /\ Becomes(m, rows[m].status, rows[m].claimedBy, FALSE)
    BY <1>1, <1>7, AgeRowRow DEF RowAges, AgeRow
  <2>2. rows[m].status \in Executing => \A c \in Coordinators : ~Holds(c, m)
    BY <1>7, HeldRowsStayFresh
  <2>3. LifeStep(m) /\ Undisturbed(m)
    BY <2>1, <2>2 DEF LifeStep, Keeps, Undisturbed, Becomes
  <2> QED BY <1>2, <1>4, <2>1, <2>3 DEF Becomes
<1>8. ASSUME NEW r \in Repos, LeaseAges(r)  PROVE Goal
  BY <1>2, <1>3, <1>8 DEF LeaseAges
<1>9. ASSUME NEW c \in Coordinators, ClaimPassBlocks(c)  PROVE Goal
  <2>1. /\ UNCHANGED <<task, scan, runs, outbox>>
        /\ \A x \in Missions :
             \/ rows'[x] = rows[x]
             \/ rows[x].status = "QUEUED" /\ rows'[x].status = "BLOCKED_EXTERNAL"
    BY <1>1, <1>9, ClaimNothingRow DEF ClaimPassBlocks
  <2>2. \A x \in Missions : LifeStep(x) /\ Undisturbed(x)
    BY <2>1, RowStays, Families, Statuses DEF LifeStep, IsFinished, Undisturbed
  <2> QED BY <1>2, <2>1, <2>2
<1>10. ASSUME NEW c \in Coordinators, NEW m \in Missions, ClaimAndDispatch(c, m)  PROVE Goal
  <2>1. /\ ClaimNext(c, InflightRepos(c), m) /\ UNCHANGED <<scan, runs>>
        /\ Goto(c, m, "acquire")
    BY <1>10 DEF ClaimAndDispatch
  <2>2. /\ rows[m].status = "QUEUED" /\ ~AtQuota(m) /\ Satisfied(m) /\ UNCHANGED outbox
        /\ rows'[m].status = "RUNNING" /\ rows'[m].claimedBy = c /\ rows'[m].fresh = TRUE
        /\ \A x \in Missions : x # m =>
             \/ rows'[x] = rows[x]
             \/ rows[x].status = "QUEUED" /\ rows'[x].status = "BLOCKED_EXTERNAL"
    BY <1>1, <2>1, ClaimRow
  <2>3. \A x \in Missions : x # m => LifeStep(x) /\ Undisturbed(x)
    BY <2>1, <2>2, RowStays, Families, Statuses DEF LifeStep, IsFinished, Undisturbed
  <2>4. LifeStep(m)
    <3>1. \A y \in Missions : y # m /\ rows'[y].status \in Executing
                                => rows[y].status \in Executing
      BY <2>2, Families, Statuses
    <3> QED BY <2>1, <2>2, <3>1, Families DEF LifeStep, IsClaimed
  <2>5. \A d \in Coordinators : ~Holds(d, m)
    <3>1. ASSUME NEW d \in Coordinators, Holds(d, m)  PROVE FALSE
      <4>1. task[d][m].pc \in Working \cup {"block_deps"} /\ InHand(task[d][m], d, m)
        BY <1>1, <3>1, TaskFields, HoldingStages DEF Holds, AllInHand, Typed
      <4> QED BY <2>2, <4>1, Families DEF InHand
    <3> QED BY <3>1
  <2>6. \A d \in Coordinators : \A e \in scan[d] : e.mission # m
    BY <2>2, Families, Statuses DEF PunctualInv, EntriesUnheld
  <2>7. PICK t : t.pc = "acquire" /\ task' = [task EXCEPT ![c][m] = t]
    BY <2>1, MovesTo
  <2>8. InHand(t, c, m)'
    BY <2>2, <2>7, Families DEF InHand, Working, WithSnapshot
  <2>9. AllInHand' /\ EntriesUnheld'
    BY <1>1, <2>1, <2>3, <2>5, <2>6, <2>7, <2>8, HandMoves
  <2> QED BY <2>3, <2>4, <2>9
<1>11. ASSUME NEW c \in Coordinators, NEW m \in Missions, BeatMission(c, m)  PROVE Goal
  <2>1. /\ UNCHANGED <<task, scan, runs, outbox>>
        /\ Becomes(m, rows[m].status, rows[m].claimedBy, TRUE)
    BY <1>1, <1>11, HeartbeatRow DEF BeatMission, Heartbeat
  <2>2. LifeStep(m) /\ Undisturbed(m)
    BY <2>1 DEF LifeStep, Keeps, Undisturbed, Becomes
  <2> QED BY <1>2, <1>4, <2>1, <2>2 DEF Becomes
<1>12. ASSUME NEW c \in Coordinators, NEW r \in Repos, BeatLease(c, r)  PROVE Goal
  BY <1>2, <1>3, <1>12 DEF BeatLease
<1>13. ASSUME NEW c \in Coordinators, WatchdogScan(c)  PROVE Goal
  <2>1. UNCHANGED <<rows, outbox, task, runs>>
    BY <1>13 DEF WatchdogScan
  <2>2. \A x \in Missions : LifeStep(x)
    BY <1>3, <2>1
  <2>3. AllInHand'
    BY <1>1, <2>1 DEF AllInHand, InHand
  <2>4. ASSUME NEW d \in Coordinators, NEW e \in scan'[d]
        PROVE  /\ rows'[e.mission].status \in Executing \cup {"FAIL"}
               /\ \A h \in Coordinators : ~Holds(h, e.mission)'
    <3>1. CASE d # c
      <4>1. e \in scan[d]
        BY <1>1, <1>13, <3>1 DEF WatchdogScan
      <4> QED BY <1>1, <2>1, <4>1 DEF EntriesUnheld, Holds
    <3>2. CASE d = c
      <4>1. PICK m \in StaleExecuting : e = [mission |-> m, snap |-> Read(m)]
        BY <1>1, <1>13, <3>2 DEF WatchdogScan
      <4>2. e.mission = m /\ m \in Missions /\ rows[m].status \in Executing /\ ~rows[m].fresh
        BY <4>1 DEF StaleExecuting
      <4>3. ASSUME NEW h \in Coordinators, Holds(h, m)  PROVE FALSE
        <5>1. task[h][m].pc \in Working \cup {"block_deps"} /\ InHand(task[h][m], h, m)
          BY <1>1, <4>2, <4>3, TaskFields, HoldingStages DEF Holds, AllInHand, Typed
        <5> QED BY <4>2, <5>1, Families DEF InHand
      <4> QED BY <2>1, <4>2, <4>3 DEF Holds
    <3> QED BY <3>1, <3>2
  <2> QED BY <2>2, <2>3, <2>4 DEF EntriesUnheld
<1>14. ASSUME NEW c \in Coordinators, NEW e \in scan[c], WatchdogSkip(c, e)  PROVE Goal
  <2>1. UNCHANGED <<rows, outbox, task, runs>>
    BY <1>14 DEF WatchdogSkip
  <2>2. \A d \in Coordinators : scan'[d] \subseteq scan[d]
    BY <1>1, <1>14 DEF WatchdogSkip
  <2> QED BY <1>1, <1>3, <2>1, <2>2, HandsOff
<1>15. ASSUME NEW c \in Coordinators, NEW e \in scan[c], RecoverOne(c, e)  PROVE Goal
  <2> DEFINE m == e.mission
  <2>1. /\ m \in Missions /\ rows[m].status \in Executing \cup {"FAIL"}
        /\ \A d \in Coordinators : ~Holds(d, m)
    BY <1>1 DEF Entry, EntriesUnheld
  <2>2. /\ Save(m, e.snap, "FAIL") /\ UNCHANGED <<task, runs>>
        /\ scan' = [scan EXCEPT ![c] = @ \ {e}]
    BY <1>15 DEF RecoverOne
  <2> HIDE DEF m
  <2>3. Becomes(m, "FAIL", e.snap.claimedBy, rows[m].fresh) /\ UNCHANGED outbox
    BY <1>1, <2>1, <2>2, SaveRow
  <2>4. LifeStep(m) /\ Undisturbed(m)
    <3>1. rows'[m].status = "FAIL" /\ outbox'[m] = outbox[m] /\ runs'[m] = runs[m]
      BY <2>2, <2>3 DEF Becomes
    <3>2. CASE rows[m].status = "FAIL"
      BY <3>1, <3>2, Families, Statuses DEF LifeStep, Keeps, Undisturbed
    <3>3. CASE rows[m].status \in Executing
      BY <2>1, <3>1, <3>3, Families, Statuses DEF LifeStep, IsFinished, Undisturbed
    <3> QED BY <2>1, <3>2, <3>3
  <2>5. \A x \in Missions : LifeStep(x) /\ Undisturbed(x)
    BY <1>4, <2>1, <2>2, <2>3, <2>4 DEF Becomes
  <2>6. \A d \in Coordinators : scan'[d] \subseteq scan[d]
    BY <1>1, <2>2
  <2> QED BY <1>1, <2>2, <2>5, <2>6, HandsOff
<1>16. ASSUME NEW c \in Coordinators, Stop(c) \/ Close(c)  PROVE Goal
  BY <1>2, <1>3, <1>16 DEF Stop, Close
<1>17. ASSUME NEW c \in Coordinators, Crash(c)  PROVE Goal
  <2>1. UNCHANGED <<rows, outbox, runs>> /\ Idle.pc = "idle"
    BY <1>17 DEF Crash, Idle
  <2>2. \A d \in Coordinators : scan'[d] \subseteq scan[d]
    BY <1>1, <1>17 DEF Crash
  <2>3. \A d \in Coordinators, x \in Missions :
          task'[d][x] = task[d][x] \/ task'[d][x] = Idle
    BY <1>1, <1>17 DEF Crash
  <2> QED BY <1>1, <1>3, <2>1, <2>2, <2>3, HandsOff
<1> QED BY <1>5, <1>6, <1>7, <1>8, <1>9, <1>10, <1>11, <1>12, <1>13, <1>14, <1>15, <1>16, <1>17
        DEF Api, Time, ClaimLoop, Beat, Watchdog, Lifecycle

-----------------------------------------------------------------------------
(* The theorems.                                                           *)

LEMMA PunctualInit == Init => PunctualInv
<1> SUFFICES ASSUME Init  PROVE PunctualInv
  OBVIOUS
<1>1. /\ \A m \in Missions : rows[m].status = Absent /\ outbox[m] = Absent /\ runs[m] = 0
      /\ \A c \in Coordinators : scan[c] = {}
      /\ \A c \in Coordinators, m \in Missions : task[c][m].pc = "idle"
  BY DEF Init, StoreInit, Idle
<1>2. AllInHand /\ EntriesUnheld
  BY <1>1 DEF AllInHand, EntriesUnheld, InHand, Working, WithSnapshot
<1>3. WithinLimit
  <2>1. \A m \in Missions : ExecutingFor(m) = {}
    BY <1>1, Families DEF ExecutingFor
  <2>2. IsFiniteSet({}) /\ Cardinality({}) = 0
    BY FS_EmptySet
  <2> QED BY <2>1, <2>2, QuotaAssumption DEF WithinLimit, QuotaAssumption
<1>4. RecordAgrees /\ PassEarned /\ WorkRestsOnPasses /\ SingleFlight
  BY <1>1, Families, Statuses DEF RecordAgrees, PassEarned, WorkRestsOnPasses, SingleFlight
<1> QED BY <1>2, <1>3, <1>4, LeaseStart, AtMostOnceInit DEF PunctualInv, RecordInv

\* Every step keeps the invariant, and is a step in the life of each mission.
LEMMA PunctualStep ==
  ASSUME PunctualInv, Punctual, [Next]_vars
  PROVE  PunctualInv' /\ \A x \in Missions : LifeStep(x)
<1>1. LeaseInv' /\ AtMostOnceInv'
  BY LeaseStep, AtMostOnceStep DEF PunctualInv
<1>2. AllInHand' /\ EntriesUnheld' /\ \A x \in Missions : LifeStep(x)
  <2>1. CASE UNCHANGED vars
    <3>1. UNCHANGED <<rows, outbox, runs, scan, task>>
      BY <2>1 DEF vars
    <3>2. \A x \in Missions : LifeStep(x)
      BY <3>1, RowStays
    <3>3. AllInHand'
      BY <3>1 DEF PunctualInv, AllInHand, InHand
    <3>4. EntriesUnheld'
      BY <3>1 DEF PunctualInv, EntriesUnheld, Holds
    <3> QED BY <3>2, <3>3, <3>4
  <2>2. CASE Next
    BY <2>2, ThreadLives, ElsewhereLives DEF Next
  <2> QED BY <2>1, <2>2
<1>3. StoreTypeOK /\ StoreTypeOK' /\ runs \in [Missions -> Nat]
  BY <1>1 DEF PunctualInv, LeaseInv, Typed, TypeOK
<1>4. RecordInv'
  BY <1>2, <1>3, QuotaAssumption, LifeKeepsInv DEF PunctualInv
<1> QED BY <1>1, <1>2, <1>4 DEF PunctualInv

LEMMA PunctualAlways ==
  ASSUME Punctual
  PROVE  Spec => []PunctualInv
<1>1. PunctualInv /\ [Next]_vars => PunctualInv'
  BY PunctualStep
<1> QED BY <1>1, PunctualInit, PTL DEF Spec

\* The learning outbox and the row of a mission never disagree on its outcome,
\* although thread, watchdog and API write the row from snapshots of their own.
THEOREM OutcomesAgree ==
  ASSUME Punctual
  PROVE  Spec => []RecordAgrees
<1>1. PunctualInv => RecordAgrees
  BY DEF PunctualInv, RecordInv
<1> QED BY <1>1, PunctualAlways, PTL

\* No mission but a dry run passes without its worker and its record.
THEOREM PassesAreEarned ==
  ASSUME Punctual
  PROVE  Spec => []PassEarned
<1>1. PunctualInv => PassEarned
  BY DEF PunctualInv, RecordInv
<1> QED BY <1>1, PunctualAlways, PTL

\* Started work rests on parents that are PASS, for every dependency graph.
THEOREM WorkWaitsForParents ==
  ASSUME Punctual
  PROVE  Spec => []DependencyGate
<1>1. PunctualInv => DependencyGate
  BY DEF PunctualInv, RecordInv, WorkRestsOnPasses, Satisfied, DependencyGate
<1> QED BY <1>1, PunctualAlways, PTL

\* No client ever has more executing missions than its limit, however many
\* coordinators claim for it.
THEOREM QuotasHold ==
  ASSUME Punctual
  PROVE  Spec => []QuotaRespected
<1>1. PunctualInv => QuotaRespected
  BY DEF PunctualInv, RecordInv, WithinLimit, ExecutingFor, QuotaRespected
<1> QED BY <1>1, PunctualAlways, PTL

\* Two submissions of the same work are never active together.
THEOREM WorkIsInFlightOnce ==
  ASSUME Punctual
  PROVE  Spec => []SingleFlight
<1>1. PunctualInv => SingleFlight
  BY DEF PunctualInv, RecordInv
<1> QED BY <1>1, PunctualAlways, PTL

\* No watchdog fails a mission that a thread may still act on, although it saves
\* what it scanned some steps before.
THEOREM WatchdogSparesThreads ==
  ASSUME Punctual
  PROVE  Spec => WatchdogSparesLive
<1> DEFINE Spared == \A c, d \in Coordinators : \A e \in scan[c] :
                       RecoverOne(c, e) => ~Holds(d, e.mission)
<1>1. PunctualInv => Spared
  BY DEF PunctualInv, EntriesUnheld
<1>2. PunctualInv /\ [Next]_vars => [Spared]_vars
  BY <1>1
<1> HIDE DEF Spared
<1>3. Spec => [][Spared]_vars
  BY <1>2, PunctualAlways, PTL DEF Spec
<1> QED BY <1>3 DEF WatchdogSparesLive, Spared

-----------------------------------------------------------------------------
(* The runtime implements MissionLifecycle.                                *)

OutcomeOf(st) == IF st \in Terminal THEN st ELSE Absent

LifeOf(m) == [phase |-> PhaseOf(rows[m].status), outcome |-> OutcomeOf(rows[m].status),
              worked |-> runs[m] > 0]

LivesNow == [m \in Missions |-> LifeOf(m)]

ParentsOf == [m \in Missions |-> {DepsOf[m][i] : i \in DOMAIN DepsOf[m]}]

LEMMA Phases ==
  ASSUME NEW st \in Status
  PROVE  /\ st = Absent => PhaseOf(st) = "absent" /\ OutcomeOf(st) = Absent
         /\ st = "QUEUED" => PhaseOf(st) = "queued" /\ OutcomeOf(st) = Absent
         /\ st \in Executing => PhaseOf(st) = "held" /\ OutcomeOf(st) = Absent
         /\ st \in Terminal => PhaseOf(st) = "done" /\ OutcomeOf(st) = st
         /\ PhaseOf(st) = "absent" => st = Absent
         /\ OutcomeOf(st) = "PASS" <=> st = "PASS"
<1>1. st \in Executing \cup Terminal \cup {"QUEUED", Absent}
  BY Families
<1>2. "PASS" \in Terminal /\ Absent # "PASS"
  BY Statuses, Families
<1>3. st = Absent => PhaseOf(st) = "absent" /\ OutcomeOf(st) = Absent
  BY Families DEF PhaseOf, OutcomeOf
<1>4. st = "QUEUED" => PhaseOf(st) = "queued" /\ OutcomeOf(st) = Absent
  BY Families DEF PhaseOf, OutcomeOf, Absent
<1>5. st \in Executing => PhaseOf(st) = "held" /\ OutcomeOf(st) = Absent
  BY Families DEF PhaseOf, OutcomeOf
<1>6. st \in Terminal => PhaseOf(st) = "done" /\ OutcomeOf(st) = st
  BY Families DEF PhaseOf, OutcomeOf
<1> QED BY <1>1, <1>2, <1>3, <1>4, <1>5, <1>6, Families

Life(phase, outcome, worked) == [phase |-> phase, outcome |-> outcome, worked |-> worked]

\* What the updates of MissionLifecycle make of a record.
LEMMA NewPhase ==
  ASSUME NEW r, NEW p, NEW o, NEW w, NEW q, r = Life(p, o, w)
  PROVE  [r EXCEPT !.phase = q] = Life(q, o, w)
  BY DEF Life

LEMMA NewOutcome ==
  ASSUME NEW r, NEW p, NEW o, NEW w, NEW e, r = Life(p, o, w)
  PROVE  [r EXCEPT !.outcome = e] = Life(p, e, w)
  BY DEF Life

LEMMA NewWorked ==
  ASSUME NEW r, NEW p, NEW o, NEW w, NEW v, r = Life(p, o, w)
  PROVE  [r EXCEPT !.worked = v] = Life(p, o, v)
<1> DEFINE Fields == {"phase", "outcome", "worked"}
           u == [r EXCEPT !.worked = v]
           n == Life(p, o, v)
<1>1. DOMAIN r = Fields /\ DOMAIN n = Fields
  BY DEF Life
<1>2. n = [x \in DOMAIN n |-> n[x]]
  BY DEF Life
<1>3. \A x \in Fields : n[x] = u[x]
  BY DEF Life
<1>4. u = [x \in DOMAIN r |-> u[x]]
  BY DEF Life
<1>5. u = [x \in Fields |-> u[x]]
  BY <1>1, <1>4
<1>6. n = [x \in Fields |-> n[x]]
  BY <1>1, <1>2
<1> HIDE DEF Fields, u, n
<1>7. n = u
  BY <1>3, <1>5, <1>6
<1> QED BY <1>7 DEF u, n

\* One mission's part of a step, as a part of a step of MissionLifecycle.
LEMMA LifeStepRefines ==
  ASSUME StoreTypeOK, StoreTypeOK', runs \in [Missions -> Nat], NEW m \in Missions, LifeStep(m)
  PROVE  \/ LivesNow'[m] = LivesNow[m]
         \/ Lives!Submit(m) \/ Lives!Claim(m) \/ Lives!GiveBack(m)
         \/ Lives!Work(m) \/ Lives!Finish(m)
<1> DEFINE old == rows[m].status
           new == rows'[m].status
           ran == runs[m] > 0
           runsNow == runs'[m] > 0
<1>1. /\ old \in Status /\ new \in Status /\ runs[m] \in Nat
      /\ \A x \in Missions : rows[x].status \in Status
  BY RowFields DEF StoreTypeOK, Row
<1>2. /\ LivesNow[m] = Life(PhaseOf(old), OutcomeOf(old), ran)
      /\ LivesNow'[m] = Life(PhaseOf(new), OutcomeOf(new), runsNow)
  BY DEF LivesNow, LifeOf, Life
<1>3. ASSUME NEW p \in ParentsOf[m]
      PROVE  /\ p \in Missions
             /\ LivesNow[p].phase = PhaseOf(rows[p].status)
             /\ LivesNow[p].outcome = OutcomeOf(rows[p].status)
             /\ \E i \in DOMAIN DepsOf[m] : p = DepsOf[m][i]
  <2>1. PICK i \in DOMAIN DepsOf[m] : p = DepsOf[m][i]
    BY DEF ParentsOf
  <2>2. DepsOf[m] \in Seq(Missions)
    BY StoreAssumption
  <2>3. p \in Missions
    BY <2>1, <2>2
  <2> QED BY <2>1, <2>3 DEF LivesNow, LifeOf
<1>4. /\ runs'[m] = runs[m] => runsNow = ran
      /\ runs[m] = 0 => ~ran
      /\ runs'[m] = 1 => runsNow = TRUE
      /\ runs[m] > 0 => ran
  BY <1>1
<1> HIDE DEF old, new, ran, runsNow
<1>5. /\ (OutcomeOf(new) = OutcomeOf(old) /\ runsNow = ran)
           => LivesNow'[m] = [LivesNow[m] EXCEPT !.phase = PhaseOf(new)]
      /\ (PhaseOf(new) = PhaseOf(old) /\ OutcomeOf(new) = OutcomeOf(old))
           => LivesNow'[m] = [LivesNow[m] EXCEPT !.worked = runsNow]
      /\ runsNow = ran
           => LivesNow'[m] = [[LivesNow[m] EXCEPT !.phase = PhaseOf(new)]
                              EXCEPT !.outcome = OutcomeOf(new)]
      /\ LivesNow[m].phase = PhaseOf(old) /\ LivesNow[m].worked = ran
  <2> DEFINE p == PhaseOf(old)
             o == OutcomeOf(old)
             q == PhaseOf(new)
             e == OutcomeOf(new)
             r == LivesNow[m]
             n == LivesNow'[m]
  <2>1. r = Life(p, o, ran) /\ n = Life(q, e, runsNow)
    BY <1>2
  <2> HIDE DEF p, o, q, e, r, n
  <2>2. e = o /\ runsNow = ran => n = [r EXCEPT !.phase = q]
    BY <2>1, NewPhase
  <2>3. q = p /\ e = o => n = [r EXCEPT !.worked = runsNow]
    BY <2>1, NewWorked
  <2>4. runsNow = ran => n = [[r EXCEPT !.phase = q] EXCEPT !.outcome = e]
    <3>1. [r EXCEPT !.phase = q] = Life(q, o, ran)
      BY <2>1, NewPhase
    <3>2. [Life(q, o, ran) EXCEPT !.outcome = e] = Life(q, e, ran)
      BY NewOutcome
    <3> QED BY <2>1, <3>1, <3>2
  <2>5. r.phase = p /\ r.worked = ran
    BY <2>1 DEF Life
  <2> QED BY <2>2, <2>3, <2>4, <2>5 DEF p, o, q, e, r, n
<1>6. CASE Keeps(m)
  <2>1. PhaseOf(new) = PhaseOf(old) /\ OutcomeOf(new) = OutcomeOf(old)
    BY <1>1, <1>6, Phases DEF Keeps, old, new
  <2> QED BY <1>2, <1>6, <1>4, <2>1 DEF Keeps
<1>7. CASE IsSubmitted(m)
  <2>1. \A p \in ParentsOf[m] : LivesNow[p].phase # "absent"
    BY <1>1, <1>3, <1>7, Phases DEF IsSubmitted, DependenciesKnown
  <2>2. /\ PhaseOf(old) = "absent" /\ PhaseOf(new) = "queued"
        /\ OutcomeOf(new) = OutcomeOf(old) /\ runsNow = ran
    BY <1>1, <1>4, <1>7, Phases DEF IsSubmitted, old, new
  <2>3. /\ LivesNow'[m] = [LivesNow[m] EXCEPT !.phase = "queued"]
        /\ LivesNow[m].phase = "absent"
    BY <1>5, <2>2
  <2>4. Lives!Submit(m)
    BY <2>1, <2>3 DEF Lives!Submit, LivesNow, LifeOf, ParentsOf, OutcomeOf
  <2> QED BY <2>4
<1>8. CASE IsClaimed(m)
  <2>1. \A p \in ParentsOf[m] : LivesNow[p].outcome = "PASS"
    BY <1>1, <1>3, <1>8, Phases DEF IsClaimed, Satisfied
  <2>2. /\ PhaseOf(old) = "queued" /\ PhaseOf(new) = "held"
        /\ OutcomeOf(new) = OutcomeOf(old) /\ runsNow = ran
    BY <1>1, <1>4, <1>8, Phases DEF IsClaimed, old, new
  <2>3. /\ LivesNow'[m] = [LivesNow[m] EXCEPT !.phase = "held"]
        /\ LivesNow[m].phase = "queued"
    BY <1>5, <2>2
  <2>4. Lives!Claim(m)
    BY <2>1, <2>3 DEF Lives!Claim, LivesNow, LifeOf, ParentsOf, OutcomeOf
  <2> QED BY <2>4
<1>9. CASE IsGivenBack(m)
  <2>1. /\ PhaseOf(old) = "held" /\ PhaseOf(new) = "queued"
        /\ OutcomeOf(new) = OutcomeOf(old) /\ runsNow = ran /\ ~ran
    BY <1>1, <1>4, <1>9, Phases DEF IsGivenBack, old, new
  <2>2. /\ LivesNow'[m] = [LivesNow[m] EXCEPT !.phase = "queued"]
        /\ LivesNow[m].phase = "held"
    BY <1>5, <2>1
  <2>3. ~LivesNow[m].worked
    BY <1>5, <2>1
  <2>4. Lives!GiveBack(m)
    BY <2>2, <2>3 DEF Lives!GiveBack, LivesNow, LifeOf, OutcomeOf
  <2> QED BY <2>4
<1>10. CASE IsWorkedOn(m)
  <2>1. PhaseOf(old) = "held" /\ new = old /\ runs'[m] = 1 /\ runs[m] = 0
    BY <1>1, <1>10, Phases DEF IsWorkedOn, old, new
  <2>2. runsNow = TRUE /\ ~ran
    BY <1>4, <2>1
  <2>3. /\ LivesNow'[m] = [LivesNow[m] EXCEPT !.worked = TRUE]
        /\ LivesNow[m].phase = "held"
    BY <1>5, <2>1, <2>2
  <2>4. ~LivesNow[m].worked
    BY <1>5, <2>2
  <2>5. Lives!Work(m)
    BY <2>3, <2>4 DEF Lives!Work, LivesNow, LifeOf, OutcomeOf
  <2> QED BY <2>5
<1>11. CASE IsFinished(m)
  <2>1. /\ PhaseOf(old) \in {"queued", "held"} /\ PhaseOf(new) = "done"
        /\ OutcomeOf(new) = new /\ new \in Terminal /\ runsNow = ran
        /\ new = "PASS" => (PhaseOf(old) = "held" /\ (ran \/ m \in DryRun))
    BY <1>1, <1>4, <1>11, Phases, Families DEF IsFinished, old, new
  <2>2. LivesNow'[m] = [[LivesNow[m] EXCEPT !.phase = "done"] EXCEPT !.outcome = new]
    BY <1>5, <2>1
  <2>3. /\ LivesNow'[m] = [LivesNow[m] EXCEPT !.phase = "done", !.outcome = new]
        /\ LivesNow[m].phase \in {"queued", "held"}
    BY <1>5, <2>1, <2>2
  <2>4. new = "PASS" => (LivesNow[m].phase = "held" /\ (LivesNow[m].worked \/ m \in DryRun))
    BY <1>5, <2>1
  <2>5. Lives!Finish(m)
    BY <2>1, <2>3, <2>4 DEF Lives!Finish, LivesNow, LifeOf, OutcomeOf
  <2> QED BY <2>5
<1> QED BY <1>6, <1>7, <1>8, <1>9, <1>10, <1>11 DEF LifeStep

\* Whatever coordinators, threads and watchdogs do, a mission lives as promised:
\* claimed after its parents passed, given back only before its worker ran, worked
\* on at most once, finished once and for good.
THEOREM RuntimeKeepsLifecycle ==
  ASSUME Punctual
  PROVE  Spec => ImplementsLifecycle
<1>1. Init => Lives!Init
  <2> SUFFICES ASSUME Init  PROVE Lives!Init
    OBVIOUS
  <2>1. \A m \in Missions : rows[m].status = Absent /\ runs[m] = 0
    BY DEF Init, StoreInit
  <2>2. Absent \in Status
    BY Statuses
  <2>3. \A m \in Missions : LifeOf(m) = [phase |-> "absent", outcome |-> Absent, worked |-> FALSE]
    <3>1. PhaseOf(Absent) = "absent" /\ OutcomeOf(Absent) = Absent
      BY <2>2, Phases
    <3>2. (0 > 0) = FALSE
      OBVIOUS
    <3> QED BY <2>1, <3>1, <3>2 DEF LifeOf
  <2> QED BY <2>3 DEF Lives!Init, LifeOf, OutcomeOf
<1>2. PunctualInv /\ [Next]_vars => [Lives!Next]_LivesNow
  <2> SUFFICES ASSUME PunctualInv, [Next]_vars  PROVE [Lives!Next]_LivesNow
    OBVIOUS
  <2>1. \A m \in Missions : LifeStep(m)
    BY PunctualStep
  <2>2. StoreTypeOK /\ StoreTypeOK' /\ runs \in [Missions -> Nat]
    BY PunctualStep DEF PunctualInv, LeaseInv, Typed, TypeOK
  <2>3. \A m \in Missions : \/ LivesNow'[m] = LivesNow[m]
                            \/ Lives!Submit(m) \/ Lives!Claim(m) \/ Lives!GiveBack(m)
                            \/ Lives!Work(m) \/ Lives!Finish(m)
    BY <2>1, <2>2, LifeStepRefines
  <2> QED BY <2>3 DEF Lives!Next, LivesNow, LifeOf, OutcomeOf
<1> QED BY <1>1, <1>2, PunctualAlways, PTL
        DEF Spec, ImplementsLifecycle, Lives!Spec, LivesNow, LifeOf, OutcomeOf

-----------------------------------------------------------------------------
(* Dry runs.                                                               *)

\* The stages of a thread that leads up to the worker.
TowardsWorker == {"ev_read", "ev_save", "start", "work", "finalize"}

DryInv == /\ Typed
          /\ \A c \in Coordinators : \A m \in DryRun \cap Missions :
               task[c][m].pc \notin TowardsWorker
          /\ \A m \in DryRun \cap Missions : runs[m] = 0

\* A dry run never calls a worker, whatever stalls, drains and releases do, unless
\* the store raises: the handler around the dry run goes on to the worker.
THEOREM DryRunsStayDry ==
  ASSUME "error" \notin Faults, DryRun \subseteq Missions
  PROVE  Spec => []DryRunNeverExecutes
<1>1. Init => DryInv
  <2> SUFFICES ASSUME Init  PROVE DryInv
    OBVIOUS
  <2> QED BY TypedInit DEF Init, Idle, DryInv, TowardsWorker
<1>2. DryInv /\ [Next]_vars => DryInv'
  <2> SUFFICES ASSUME DryInv, [Next]_vars  PROVE DryInv'
    OBVIOUS
  <2>1. Typed /\ Typed' /\ task \in [Coordinators -> [Missions -> Task]]
    BY TypedStep DEF DryInv, Typed, TypeOK
  <2>2. ASSUME NEW c \in Coordinators, NEW m \in Missions, NEW t,
               task' = [task EXCEPT ![c][m] = t], m \in DryRun => t.pc \notin TowardsWorker,
               \A x \in DryRun \cap Missions : runs'[x] = runs[x]
        PROVE  DryInv'
    <3>1. \A d \in Coordinators, x \in Missions :
            task'[d][x] = IF d = c /\ x = m THEN t ELSE task[d][x]
      BY <2>1, <2>2
    <3> QED BY <2>1, <2>2, <3>1 DEF DryInv
  <2>3. CASE UNCHANGED <<task, runs>>
    BY <2>1, <2>3 DEF DryInv
  <2>4. ASSUME NEW c \in Coordinators, NEW m \in Missions, Thread(c, m) \/ ThreadError(c, m)
        PROVE  DryInv'
    <3>1. m \in DryRun => task[c][m].pc \notin TowardsWorker
      BY DEF DryInv
    <3>2. \A x \in DryRun \cap Missions : runs'[x] = runs[x]
      <4>1. CASE StartWorker(c, m)
        BY <2>1, <3>1, <4>1 DEF StartWorker, At, TowardsWorker, Typed, TypeOK
      <4>2. CASE UNCHANGED runs
        BY <4>2
      <4> QED BY <2>4, <4>1, <4>2
           DEF Thread, ThreadError, AcquireLease, AcquireTimeout, Load, FinalizeCancelled,
           BlockForNoWorker, RecordWorker, DryRead, DrySave, EvidenceRead, EvidenceSave,
           WorkerSucceeds, WorkerCancelled, WorkerFails, Finalize,
           BlockDependentMissions, Release, AbortRead, AbortSave, ContextError, FinalizeError,
           ExecuteError, ReleaseError
    <3>3. ASSUME NEW pc, Goto(c, m, pc), m \in DryRun => pc \notin TowardsWorker
          PROVE  DryInv'
      <4>1. PICK t : t.pc = pc /\ task' = [task EXCEPT ![c][m] = t]
        BY <3>3, MovesTo
      <4> QED BY <2>2, <3>2, <3>3, <4>1
    <3>4. ASSUME NEW pc, NEW snap, NEW to, GotoWith(c, m, pc, snap, to),
                 m \in DryRun => pc \notin TowardsWorker
          PROVE  DryInv'
      <4>1. PICK t : t.pc = pc /\ task' = [task EXCEPT ![c][m] = t]
        BY <3>4, MovesWith
      <4> QED BY <2>2, <3>2, <3>4, <4>1
    <3>5. CASE \/ AcquireLease(c, m) \/ AcquireTimeout(c, m) \/ FinalizeCancelled(c, m)
               \/ BlockDependentMissions(c, m) \/ AbortSave(c, m)
      BY <3>3, <3>5 DEF AcquireLease, AcquireTimeout, FinalizeCancelled,
         BlockDependentMissions, AbortSave, TowardsWorker
    <3>6. CASE Load(c, m) \/ AbortRead(c, m)
      BY <3>3, <3>4, <3>6 DEF Load, AbortRead, TowardsWorker
    <3>7. CASE BlockForNoWorker(c, m)
      BY <3>3, <3>7 DEF BlockForNoWorker, OwnedSave, TowardsWorker
    <3>8. CASE RecordWorker(c, m)
      <4>1. \/ GotoWith(c, m, "dry_read", NoSnapshot, "OBSERVING")
            \/ Goto(c, m, "release") \/ (m \notin DryRun /\ Goto(c, m, "ev_read"))
        <5>1. CASE m \in DryRun
          BY <3>8, <5>1 DEF RecordWorker, OwnedSave
        <5>2. CASE m \notin DryRun
          BY <3>8, <5>2 DEF RecordWorker, OwnedSave
        <5> QED BY <5>1, <5>2
      <4> QED BY <3>3, <3>4, <4>1 DEF TowardsWorker
    <3>9. CASE DryRead(c, m) \/ DrySave(c, m)
      <4>1. \/ \E pc \in {"dry_read", "dry_save"} : \E snap, to : GotoWith(c, m, pc, snap, to)
            \/ Goto(c, m, "release")
        BY <3>9 DEF DryRead, DrySave
      <4> QED BY <3>3, <3>4, <4>1 DEF TowardsWorker
    <3>10. CASE \/ EvidenceRead(c, m) \/ EvidenceSave(c, m) \/ StartWorker(c, m)
                \/ WorkerSucceeds(c, m) \/ WorkerCancelled(c, m) \/ WorkerFails(c, m)
                \/ Finalize(c, m)
      <4>1. m \notin DryRun
        BY <3>1, <3>10 DEF EvidenceRead, EvidenceSave, StartWorker, WorkerSucceeds,
           WorkerCancelled, WorkerFails, Finalize, At, TowardsWorker
      <4>2. \/ \E pc : Goto(c, m, pc)
            \/ \E pc, snap, to : GotoWith(c, m, pc, snap, to)
        BY <3>10 DEF EvidenceRead, EvidenceSave, OwnedSave, StartWorker, WorkerSucceeds,
           WorkerCancelled, WorkerFails, Finalize, AfterFinalize
      <4> QED BY <3>3, <3>4, <4>1, <4>2
    <3>11. CASE Release(c, m)
      BY <2>2, <3>2, <3>11 DEF Release, Idle, TowardsWorker
    <3>12. CASE ThreadError(c, m)
      <4>1. Goto(c, m, "leaked")
        BY <3>12 DEF ThreadError, ContextError, FinalizeError, ExecuteError, ReleaseError
      <4> QED BY <3>3, <4>1 DEF TowardsWorker
    <3> QED BY <2>4, <3>5, <3>6, <3>7, <3>8, <3>9, <3>10, <3>11, <3>12 DEF Thread
  <2>5. ASSUME NEW c \in Coordinators, ClaimLoop(c) \/ Crash(c)  PROVE DryInv'
    <3>1. CASE ClaimPassBlocks(c)
      BY <2>3, <3>1 DEF ClaimPassBlocks
    <3>2. CASE \E m \in Missions : ClaimAndDispatch(c, m)
      <4>1. PICK m \in Missions : Goto(c, m, "acquire") /\ UNCHANGED runs
        BY <3>2 DEF ClaimAndDispatch
      <4>2. PICK t : t.pc = "acquire" /\ task' = [task EXCEPT ![c][m] = t]
        BY <4>1, MovesTo
      <4> QED BY <2>2, <4>1, <4>2 DEF TowardsWorker
    <3>3. CASE Crash(c)
      <4>1. Idle.pc \notin TowardsWorker /\ UNCHANGED runs
        BY <3>3 DEF Crash, Idle, TowardsWorker
      <4>2. \A d \in Coordinators, x \in Missions :
              task'[d][x] = task[d][x] \/ task'[d][x] = Idle
        BY <2>1, <3>3 DEF Crash
      <4> QED BY <2>1, <4>1, <4>2 DEF DryInv
    <3> QED BY <2>5, <3>1, <3>2, <3>3 DEF ClaimLoop
  <2>6. CASE \/ Api \/ Time \/ UNCHANGED vars
             \/ \E c \in Coordinators : Beat(c) \/ Watchdog(c) \/ Stop(c) \/ Close(c)
    <3>1. UNCHANGED <<task, runs>>
      BY <2>6 DEF Api, Submit, CancelMission, Time, RowAges, LeaseAges, Beat, BeatMission,
         BeatLease, Watchdog, WatchdogScan, WatchdogSkip, RecoverOne, Stop, Close, vars
    <3> QED BY <2>3, <3>1
  <2> QED BY <2>4, <2>5, <2>6 DEF Next, Lifecycle
<1>3. DryInv => DryRunNeverExecutes
  BY DEF DryInv, DryRunNeverExecutes
<1> QED BY <1>1, <1>2, <1>3, PTL DEF Spec
=============================================================================
