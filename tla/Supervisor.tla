------------------------------ MODULE Supervisor ------------------------------
(***************************************************************************)
(* Durable jobs: app/supervisor/supervisor.py over the tables of           *)
(* app/supervisor/repository.py.                                           *)
(*                                                                         *)
(* claim, claim_next and heartbeat are transactions.  Every other call     *)
(* reads the row, decides, and writes the whole row back later, without    *)
(* looking at it again; a call is therefore its pending writes.            *)
(*                                                                         *)
(* A Supervisor, named by its worker_id, works on jobs, and pauses,        *)
(* resumes, cancels and recovers any of them.  A lease in a written        *)
(* snapshot may be older than it says; RowLeaseExpires may follow at once. *)
(***************************************************************************)
EXTENDS Naturals, FiniteSets

CONSTANTS Jobs,            \* rowids of supervisor_jobs
          JobWorkers,      \* worker ids
          JobMortals,      \* workers that may die
          JobOperators,    \* workers on which an operator's calls are made
          ActionKeys,      \* action keys of complete_step
          JobRetries       \* max_retries

ASSUME SupervisorAssumption ==
  /\ Jobs \subseteq Nat
  /\ "nobody" \notin JobWorkers /\ JobOperators \subseteq JobWorkers
  /\ "nothing" \notin ActionKeys
  /\ JobRetries \in Nat

VARIABLES job,       \* rowid -> row of supervisor_jobs
          latest,    \* rowid -> action committed by the last checkpoint
          call,      \* worker -> the call it is in
          mode       \* worker -> "open", "closed" (after shutdown) or "dead"

supVars == <<job, latest, call, mode>>

TERMINAL_STATES == {"FAILED", "CANCELLED", "PASS"}

JobState == {"ABSENT", "QUEUED", "CLAIMED", "RUNNING", "PAUSED", "RECOVERING",
             "BLOCKED_EXTERNAL"} \cup TERMINAL_STATES

JobRow == [state : JobState, owner : JobWorkers \cup {"nobody"},
           lease : {"none", "live", "expired"}, pause : BOOLEAN,
           retryAt : {"none", "later", "due"}, retries : 0..JobRetries]

\* pc: "idle"; "require" and "insert" are places in complete_step; "save" has
\* the rows still to be written.
JobCall == [pc : {"idle", "require", "insert", "save"},
            key : ActionKeys \cup {"nothing"}, jobs : SUBSET Jobs, rows : [Jobs -> JobRow]]

NewJob == [state |-> "ABSENT", owner |-> "nobody", lease |-> "none", pause |-> FALSE,
           retryAt |-> "none", retries |-> 0]

NoCall == [pc |-> "idle", key |-> "nothing", jobs |-> {}, rows |-> [j \in Jobs |-> NewJob]]

SupInit == /\ job = [j \in Jobs |-> NewJob]
           /\ latest = [j \in Jobs |-> "nothing"]
           /\ call = [w \in JobWorkers |-> NoCall]
           /\ mode = [w \in JobWorkers |-> "open"]

Active(j) == job[j].state \notin TERMINAL_STATES \cup {"ABSENT"}

Free(w) == call[w].pc = "idle" /\ mode[w] # "dead"

Accepting(w) == Free(w) /\ mode[w] = "open"

Unleased(r, state) == [r EXCEPT !.state = state, !.owner = "nobody", !.lease = "none"]

-----------------------------------------------------------------------------
(* Transactions.                                                           *)

\* create_job.
CreateJob(j) ==
  /\ job[j].state = "ABSENT" /\ \A i \in Jobs : i < j => job[i].state # "ABSENT"
  /\ job' = [job EXCEPT ![j].state = "QUEUED"]
  /\ UNCHANGED <<latest, call, mode>>

HeldByOther(j, w) == /\ job[j].owner \notin {"nobody", w} /\ job[j].lease = "live"
                     /\ job[j].state \in {"CLAIMED", "RUNNING"}

Waiting == {"QUEUED", "RECOVERING", "BLOCKED_EXTERNAL"}

\* claim, also on behalf of unblock_provider.  A paused job whose cancellation
\* is requested could be claimed, but cancel never leaves a job paused.
Claim(w, j) ==
  /\ Accepting(w) /\ Active(j) /\ job[j].state # "PAUSED" /\ ~HeldByOther(j, w)
  /\ job' = [job EXCEPT ![j] = [@ EXCEPT
       !.state = IF job[j].state \in Waiting \/ job[j].lease = "expired" THEN "CLAIMED"
                 ELSE job[j].state,
       !.owner = w, !.lease = "live"]]
  /\ UNCHANGED <<latest, call, mode>>

\* Mutant: the leases of claimed and running jobs are not looked at.
CandidatesWaiting == {j \in Jobs : /\ Active(j) /\ job[j].state # "PAUSED"
                                   /\ \/ job[j].state \in {"QUEUED", "RECOVERING"}
                                      \/ job[j].retryAt = "due"}

\* The rows claim_next selects.  A queued job is selected before its retry is due.
Candidates == {j \in Jobs : /\ Active(j) /\ job[j].state # "PAUSED"
                            /\ \/ job[j].state \in {"QUEUED", "RECOVERING"}
                               \/ job[j].retryAt = "due"
                               \/ /\ job[j].lease = "expired"
                                  /\ job[j].state \in {"CLAIMED", "RUNNING"}}

ClaimNext(w) ==
  LET Eligible == {j \in Candidates : ~HeldByOther(j, w)} IN
  /\ Accepting(w)
  /\ \E j \in Eligible :
       /\ \A i \in Eligible : j <= i
       /\ job' = [job EXCEPT ![j] = [@ EXCEPT
            !.state = IF job[j].state \in Waiting \/ job[j].retryAt = "due" THEN "CLAIMED"
                      ELSE job[j].state,
            !.owner = w, !.lease = "live", !.retryAt = "none"]]
  /\ UNCHANGED <<latest, call, mode>>

\* heartbeat: the expiry of the lease is not looked at.
Heartbeat(w, j) ==
  /\ Free(w) /\ Active(j) /\ job[j].owner = w
  /\ job' = [job EXCEPT ![j].lease = "live"]
  /\ UNCHANGED <<latest, call, mode>>

-----------------------------------------------------------------------------
(* Calls that read, then write.                                            *)

HasLease(w, j) == Active(j) /\ job[j].owner = w /\ job[j].lease # "expired"

WriteLater(w, S, rows) ==
  /\ Free(w)
  /\ call' = [call EXCEPT ![w] = [NoCall EXCEPT !.pc = "save", !.jobs = S, !.rows = rows]]
  /\ UNCHANGED <<job, latest, mode>>

WriteOneLater(w, j, row) == WriteLater(w, {j}, [NoCall.rows EXCEPT ![j] = row])

MarkRunning(w, j) ==
  /\ HasLease(w, j) /\ ~job[j].pause /\ job[j].state # "PAUSED"
  /\ WriteOneLater(w, j, [job[j] EXCEPT !.state = "RUNNING"])

PassJob(w, j) == HasLease(w, j) /\ WriteOneLater(w, j, Unleased(job[j], "PASS"))

RetryJob(w, j) ==
  /\ HasLease(w, j) /\ job[j].retries < JobRetries
  /\ WriteOneLater(w, j, [Unleased(job[j], "QUEUED") EXCEPT
                            !.retries = @ + 1, !.retryAt = "later"])

FailJob(w, j) == HasLease(w, j) /\ WriteOneLater(w, j, Unleased(job[j], "FAILED"))

BlockOnProvider(w, j) ==
  HasLease(w, j) /\ WriteOneLater(w, j, [job[j] EXCEPT !.state = "BLOCKED_EXTERNAL"])

Pause(w, j) ==
  /\ Active(j)
  /\ WriteOneLater(w, j, [job[j] EXCEPT !.pause = TRUE,
       !.state = IF @ \in {"QUEUED", "CLAIMED", "RUNNING"} THEN "PAUSED" ELSE @])

\* Mutant: a finished job is resumed.
ResumeAny(w, j) ==
  /\ job[j].state # "ABSENT"
  /\ WriteOneLater(w, j, [job[j] EXCEPT !.pause = FALSE, !.state = "RECOVERING",
                                        !.retryAt = "none"])

\* Also of a job that runs: its lease stays in the row.
Resume(w, j) ==
  /\ Active(j)
  /\ WriteOneLater(w, j, [job[j] EXCEPT !.pause = FALSE, !.state = "RECOVERING",
                                        !.retryAt = "none"])

Cancel(w, j) == Active(j) /\ WriteOneLater(w, j, Unleased(job[j], "CANCELLED"))

\* recover: decided for all jobs on one listing.
Recover(w) ==
  LET Stale == {j \in Jobs : /\ Active(j)
                             /\ ~ (/\ job[j].owner # "nobody" /\ job[j].lease = "live"
                                   /\ job[j].state \in {"CLAIMED", "RUNNING"})
                             /\ ~ (job[j].state = "PAUSED" /\ job[j].pause)
                             /\ job[j].state # "BLOCKED_EXTERNAL"
                             /\ job[j].retryAt # "later"}
  IN /\ Stale # {}
     /\ WriteLater(w, Stale, [j \in Jobs |-> IF j \in Stale THEN Unleased(job[j], "RECOVERING")
                                                           ELSE NewJob])

\* Mutant: the save of a row leaves out the owner.
SaveOwnerless(w, j) ==
  /\ call[w].pc = "save" /\ j \in call[w].jobs /\ \A i \in call[w].jobs : j <= i
  /\ job' = [job EXCEPT ![j] = [call[w].rows[j] EXCEPT !.owner = "nobody"]]
  /\ call' = [call EXCEPT ![w] = IF @.jobs = {j} THEN NoCall
                                 ELSE [@ EXCEPT !.jobs = call[w].jobs \ {j}, !.rows[j] = NewJob]]
  /\ UNCHANGED <<latest, mode>>

\* repository.save: the whole row, whatever it is by now.
Save(w, j) ==
  /\ call[w].pc = "save" /\ j \in call[w].jobs /\ \A i \in call[w].jobs : j <= i
  /\ job' = [job EXCEPT ![j] = call[w].rows[j]]
  /\ call' = [call EXCEPT ![w] = IF @.jobs = {j} THEN NoCall
                                 ELSE [@ EXCEPT !.jobs = call[w].jobs \ {j}, !.rows[j] = NewJob]]
  /\ UNCHANGED <<latest, mode>>

-----------------------------------------------------------------------------
(* complete_step(key); with the key "nothing", a plain checkpoint.          *)

\* already_committed looks at the last checkpoint only.
CompleteStep(w, j, key) ==
  /\ Free(w) /\ job[j].state # "ABSENT" /\ (key # "nothing" => latest[j] # key)
  /\ call' = [call EXCEPT ![w] = [NoCall EXCEPT !.pc = "require", !.key = key, !.jobs = {j}]]
  /\ UNCHANGED <<job, latest, mode>>

RequireLease(w, j) ==
  /\ call[w].pc = "require" /\ j \in call[w].jobs
  /\ call' = [call EXCEPT ![w] = IF HasLease(w, j)
                                 THEN [@ EXCEPT !.pc = "insert", !.rows[j] = job[j]]
                                 ELSE NoCall]
  /\ UNCHANGED <<job, latest, mode>>

SaveCheckpoint(w, j) ==
  /\ call[w].pc = "insert" /\ j \in call[w].jobs
  /\ latest' = [latest EXCEPT ![j] = call[w].key]
  /\ call' = [call EXCEPT ![w].pc = "save", ![w].key = "nothing"]
  /\ UNCHANGED <<job, mode>>

-----------------------------------------------------------------------------
(* Time, shutdown, death.                                                  *)

RowLeaseExpires(j) ==
  /\ job[j].lease = "live"
  /\ job' = [job EXCEPT ![j].lease = "expired"]
  /\ UNCHANGED <<latest, call, mode>>

RetryComesDue(j) ==
  /\ job[j].retryAt = "later" /\ Active(j)
  /\ job' = [job EXCEPT ![j].retryAt = "due"]
  /\ UNCHANGED <<latest, call, mode>>

Shutdown(w) ==
  /\ mode[w] = "open" /\ w \in JobMortals
  /\ mode' = [mode EXCEPT ![w] = "closed"]
  /\ UNCHANGED <<job, latest, call>>

Die(w) ==
  /\ mode[w] # "dead" /\ w \in JobMortals
  /\ mode' = [mode EXCEPT ![w] = "dead"]
  /\ call' = [call EXCEPT ![w] = NoCall]
  /\ UNCHANGED <<job, latest>>

-----------------------------------------------------------------------------
Proceed(w) == \E j \in Jobs : Save(w, j) \/ RequireLease(w, j) \/ SaveCheckpoint(w, j)

Work(w) == \E j \in Jobs : \/ MarkRunning(w, j) \/ PassJob(w, j) \/ RetryJob(w, j)
                           \/ FailJob(w, j) \/ BlockOnProvider(w, j)
                           \/ \E key \in ActionKeys \cup {"nothing"} : CompleteStep(w, j, key)

Control(w) == \/ \E j \in Jobs : Pause(w, j) \/ Resume(w, j) \/ Cancel(w, j)
              \/ Recover(w)

SupNext == \/ \E j \in Jobs : CreateJob(j) \/ RowLeaseExpires(j) \/ RetryComesDue(j)
           \/ \E w \in JobOperators : Control(w)
           \/ \E w \in JobWorkers : \/ ClaimNext(w) \/ Work(w) \/ Proceed(w)
                                    \/ Shutdown(w) \/ Die(w)
                                    \/ \E j \in Jobs : Claim(w, j) \/ Heartbeat(w, j)

SupSpec == SupInit /\ [][SupNext]_supVars

\* Workers that do not die poll claim_next and finish the calls they begin, and
\* leases that nobody extends run out.
SupFairness == /\ \A w \in JobWorkers \ JobMortals : SF_supVars(ClaimNext(w)) /\ WF_supVars(Proceed(w))
               /\ \A j \in Jobs : WF_supVars(job[j].owner \in JobMortals /\ RowLeaseExpires(j))

-----------------------------------------------------------------------------
\* Shapes of rows and calls; a call has jobs exactly while it is in progress.
SupTypeOK == /\ job \in [Jobs -> JobRow]
             /\ latest \in [Jobs -> ActionKeys \cup {"nothing"}]
             /\ call \in [JobWorkers -> JobCall]
             /\ mode \in [JobWorkers -> {"open", "closed", "dead"}]
             /\ \A w \in JobWorkers : call[w].jobs = {} <=> call[w].pc = "idle"

\* However old the snapshots are that workers, clients and recoveries write back,
\* a job that counts as claimed or running always has an owner and a lease: only
\* then can an expired lease hand it on (claim_next, recover).
NeverOrphaned == \A j \in Jobs : job[j].state \in {"CLAIMED", "RUNNING"} =>
                   job[j].owner # "nobody" /\ job[j].lease # "none"

\* The end of a job is final once the calls that had read it before have ended:
\* no claim, heartbeat, resume or recovery touches it again.
Settled(j) == job[j].state \in TERMINAL_STATES /\ \A w \in JobWorkers :
                j \in call[w].jobs => call[w].pc = "require"
EndIsFinal == [][\A j \in Jobs : Settled(j) => Settled(j)']_supVars

\* A job whose worker died is handed on, ends, or is paused: stale writes of
\* clients may put the dead owner back, but not for ever.
AbandonedIsHandedOn ==
  \A j \in Jobs, w \in JobMortals :
    (mode[w] = "dead" /\ job[j].owner = w /\ job[j].state \in {"CLAIMED", "RUNNING"})
      ~> ~(job[j].owner = w /\ job[j].state \in {"CLAIMED", "RUNNING"})
=============================================================================
