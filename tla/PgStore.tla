-------------------------------- MODULE PgStore --------------------------------
(***************************************************************************)
(* The mission store on Postgres, app/storage/pg_store.py, by statements   *)
(* under READ COMMITTED: a statement sees what is committed when it        *)
(* starts, SELECT ... FOR UPDATE locks the rows it returns until the end   *)
(* of the transaction, and SKIP LOCKED passes over rows that others hold.  *)
(* A row that is not there cannot be locked.                               *)
(*                                                                         *)
(* A mission is named by the call that submits it.  Missions are claimed   *)
(* in the order in which they were submitted.  A request to cancel is in a *)
(* column and in the payload; readers look at the payload.  Not modelled:  *)
(* the unfenced save, leases, the token bucket, and the outbox, whose      *)
(* ON CONFLICT (idempotency_key) names a partial index without its         *)
(* predicate, which Postgres refuses.                                      *)
(***************************************************************************)
EXTENDS Naturals, Sequences, FiniteSets, Selection

CONSTANTS PgMissions, PgClient, Coordinators,
          QuotaLimit,    \* the client_limits entry of every client
          ScanRows       \* LIMIT of the scan (25)

ASSUME PgAssumption == /\ QuotaLimit \in Nat \ {0} /\ ScanRows \in Nat \ {0}
                       /\ PgClient \in [PgMissions -> STRING]

VARIABLES pgRow,    \* mission -> its committed row; told: the payload says cancel_requested
          order,    \* missions in the order of created_at
          inserting,\* missions whose submission is between its check and its insert
          txn       \* coordinator -> its claim transaction

pgVars == <<pgRow, order, inserting, txn>>

Executing == {"RUNNING", "VERIFYING", "REPAIRING", "RECOVERING"}
Final     == {"PASS", "FAIL", "CANCELLED"}

NoTxn == [pc |-> "none", rows |-> <<>>, at |-> 1]

NewRow == [status |-> "absent", owner |-> "nobody", cancel |-> FALSE, told |-> FALSE, attempt |-> 0]

PgInit == /\ pgRow = [m \in PgMissions |-> NewRow]
          /\ order = <<>> /\ inserting = {}
          /\ txn = [c \in Coordinators |-> NoTxn]

Locked(m) == \E c \in Coordinators : \E i \in DOMAIN txn[c].rows : txn[c].rows[i] = m

-----------------------------------------------------------------------------
(* enqueue, submit_idempotent_mission                                      *)

\* The search for an active duplicate finds none, or ends the call.
CheckDuplicate(m) ==
  /\ pgRow[m].status = "absent" /\ m \notin inserting
  /\ inserting' = inserting \cup {m}
  /\ UNCHANGED <<pgRow, order, txn>>

InsertMission(m) ==
  /\ m \in inserting
  /\ pgRow' = [pgRow EXCEPT ![m].status = "QUEUED"]
  /\ order' = Append(order, m)
  /\ inserting' = inserting \ {m}
  /\ UNCHANGED txn

-----------------------------------------------------------------------------
(* claim_next                                                              *)

\* What SELECT ... ORDER BY ... FOR UPDATE SKIP LOCKED finds.
Free(skip) ==
  SelectAt(order, {i \in DOMAIN order : /\ pgRow[order[i]].status = "QUEUED"
                                         /\ ~Locked(order[i]) /\ order[i] \notin skip})

\* Mutant: the scan does not skip what others have locked.
ScanQueueLocked(c, skip) ==
  LET Queued == SelectAt(order, {i \in DOMAIN order : /\ pgRow[order[i]].status = "QUEUED"
                                                       /\ order[i] \notin skip}) IN
  /\ txn[c].pc = "none" /\ Queued # <<>>
  /\ txn' = [txn EXCEPT ![c] = [pc |-> "judge", at |-> 1,
       rows |-> SubSeq(Queued, 1, IF Len(Queued) < ScanRows THEN Len(Queued) ELSE ScanRows)]]
  /\ UNCHANGED <<pgRow, order, inserting>>

\* The scan locks its rows.  skip stands for the repositories the coordinator is busy
\* with.
ScanQueue(c, skip) ==
  /\ txn[c].pc = "none" /\ Free(skip) # <<>>
  /\ txn' = [txn EXCEPT ![c] = [pc |-> "judge", at |-> 1,
       rows |-> SubSeq(Free(skip), 1, IF Len(Free(skip)) < ScanRows THEN Len(Free(skip)) ELSE ScanRows)]]
  /\ UNCHANGED <<pgRow, order, inserting>>

ExecutingFor(client) == Cardinality({m \in PgMissions : PgClient[m] = client
                                                          /\ pgRow[m].status \in Executing})

\* The COUNT is a statement of its own: it sees what is committed now.
JudgeClaim(c) ==
  /\ txn[c].pc = "judge"
  /\ LET m == txn[c].rows[txn[c].at] IN
     txn' = IF ExecutingFor(PgClient[m]) < QuotaLimit THEN [txn EXCEPT ![c].pc = "commit"]
            ELSE IF txn[c].at < Len(txn[c].rows) THEN [txn EXCEPT ![c].at = @ + 1]
            ELSE [txn EXCEPT ![c] = NoTxn]
  /\ UNCHANGED <<pgRow, order, inserting>>

\* The UPDATE ... WHERE status='QUEUED' and the commit; the mission is returned even
\* if no row was updated.
CommitClaim(c) ==
  /\ txn[c].pc = "commit"
  /\ LET m == txn[c].rows[txn[c].at] IN
     pgRow' = IF pgRow[m].status = "QUEUED"
              THEN [pgRow EXCEPT ![m] = [@ EXCEPT !.status = "RUNNING", !.owner = c,
                                                  !.attempt = pgRow[m].attempt + 1]]
              ELSE pgRow
  /\ txn' = [txn EXCEPT ![c] = [NoTxn EXCEPT !.rows = <<>>]]
  /\ UNCHANGED <<order, inserting>>

\* The connection is lost: the locks go with the transaction.
LoseConnection(c) ==
  /\ txn[c].pc # "none"
  /\ txn' = [txn EXCEPT ![c] = NoTxn]
  /\ UNCHANGED <<pgRow, order, inserting>>

-----------------------------------------------------------------------------
(* request_cancel, finalize_mission: one row, locked for the whole call.    *)

\* Mutant: the status is read without FOR UPDATE, so the call does not wait.
RequestCancelUnlocked(m) ==
  /\ pgRow[m].status \in {"QUEUED"} \cup Executing
  /\ pgRow' = [pgRow EXCEPT ![m] = [@ EXCEPT !.cancel = TRUE, !.told = TRUE,
                 !.status = IF pgRow[m].status = "QUEUED" THEN "CANCELLED"
                            ELSE pgRow[m].status]]
  /\ UNCHANGED <<order, inserting, txn>>

RequestCancel(m) ==
  /\ ~Locked(m) /\ pgRow[m].status \in {"QUEUED"} \cup Executing
  /\ pgRow' = [pgRow EXCEPT ![m] = [@ EXCEPT !.cancel = TRUE, !.told = TRUE,
                 !.status = IF pgRow[m].status = "QUEUED" THEN "CANCELLED"
                            ELSE pgRow[m].status]]
  /\ UNCHANGED <<order, inserting, txn>>

\* With an owner and require_executing, as the coordinator calls it.
Finalize(c, m, status) ==
  /\ pgRow[m].owner = c /\ pgRow[m].status \in Executing
  /\ pgRow' = [pgRow EXCEPT ![m].status = status]
  /\ UNCHANGED <<order, inserting, txn>>

-----------------------------------------------------------------------------
(* heartbeat, save_owned: the same, fenced by the owner.                    *)

\* Not in RECOVERING.  The payload is told again what the column says.
Heartbeat(c, m) ==
  /\ ~Locked(m) /\ pgRow[m].owner = c /\ pgRow[m].status \in Executing \ {"RECOVERING"}
  /\ pgRow' = [pgRow EXCEPT ![m].told = @ \/ pgRow[m].cancel]
  /\ UNCHANGED <<order, inserting, txn>>

\* The status of the row is not looked at.  REPAIRING is saved as VERIFYING is, and
\* RUNNING is what a claim saves.  The payload is a copy of some earlier time,
\* which may not know of the request to cancel; the column keeps it.
SaveOwned(c, m, status, knew) ==
  /\ ~Locked(m) /\ pgRow[m].owner = c /\ (knew => pgRow[m].cancel)
  /\ pgRow' = [pgRow EXCEPT ![m].status = status, ![m].told = knew]
  /\ UNCHANGED <<order, inserting, txn>>

-----------------------------------------------------------------------------
PgNext ==
  \/ \E m \in PgMissions : CheckDuplicate(m) \/ InsertMission(m) \/ RequestCancel(m)
  \/ \E c \in Coordinators :
       \/ \E skip \in SUBSET PgMissions : ScanQueue(c, skip)
       \/ JudgeClaim(c) \/ CommitClaim(c) \/ LoseConnection(c)
       \/ \E m \in PgMissions :
            \/ Heartbeat(c, m)
            \/ \E status \in {"VERIFYING", "RECOVERING"}, knew \in BOOLEAN : SaveOwned(c, m, status, knew)
            \/ \E status \in {"PASS", "FAIL"} : Finalize(c, m, status)

PgSpec == PgInit /\ [][PgNext]_pgVars

-----------------------------------------------------------------------------
(* Properties.                                                             *)

\* A row that runs has an owner, a claim under way holds rows, no row is held by two
\* claims (FOR UPDATE SKIP LOCKED), and a payload never tells of a cancellation that
\* nobody requested.
PgTypeOK ==
  /\ \A m \in PgMissions :
       /\ pgRow[m].status \in {"absent", "QUEUED"} \cup Executing \cup Final
       /\ pgRow[m].status \in Executing => pgRow[m].owner \in Coordinators
       /\ pgRow[m].told => pgRow[m].cancel
  /\ \A c \in Coordinators : txn[c].pc # "none" => txn[c].at \in DOMAIN txn[c].rows
  /\ \A c, d \in Coordinators : c # d =>
       \A i \in DOMAIN txn[c].rows, j \in DOMAIN txn[d].rows : txn[c].rows[i] # txn[d].rows[j]

\* A claim that is about to be answered with a mission gets the mission: nobody else
\* claims or cancels it between the scan and the commit ("exactly-once claim",
\* claim_next); and a mission once claimed stays its claimer's, whatever is saved late.
ClaimsAreExact ==
  /\ [](\A c \in Coordinators :
          txn[c].pc # "none" => pgRow[txn[c].rows[txn[c].at]].status = "QUEUED")
  /\ [][\A m \in PgMissions : pgRow[m].owner # "nobody" => pgRow'[m].owner = pgRow[m].owner]_pgVars

=============================================================================
