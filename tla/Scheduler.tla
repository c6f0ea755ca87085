------------------------------- MODULE Scheduler -------------------------------
(***************************************************************************)
(* The multi-agent scheduler: app/scheduler/scheduler.py over the tables   *)
(* of app/scheduler/store.py.                                              *)
(*                                                                         *)
(* claim_task, heartbeat_task and transact_task are transactions; start,   *)
(* complete, fail, block, preempt, cancel and unblock read a row and write *)
(* it back whole.  Nearly every call ends with refresh_readiness, which    *)
(* looks at one task after the other: the verdict over its dependencies is *)
(* read first and applied in a transaction that looks at the state only.   *)
(*                                                                         *)
(* The order of the ready queue (priority, ageing) is left open: any       *)
(* eligible task may be claimed first.                                     *)
(***************************************************************************)
EXTENDS Naturals, FiniteSets

CONSTANTS Tasks,          \* task ids, in the order of created_seq
          TaskDeps,       \* task -> its dependencies
          Plans,          \* the sets of tasks that callers submit
          TaskWorkers,    \* worker ids, each with a thread of its own
          WorkerLimit,    \* concurrency_limit
          GlobalLimit,
          Preemptible,    \* tasks that may be preempted
          TaskRetries,    \* max_retries
          TaskOperators   \* threads that preempt, cancel, unblock and recover

ASSUME SchedulerAssumption ==
  /\ Tasks \subseteq Nat /\ Tasks # {}
  /\ Plans \subseteq SUBSET Tasks
  /\ TaskDeps \in [Tasks -> SUBSET Tasks]
  /\ "nobody" \notin TaskWorkers
  /\ TaskRetries \in Nat

VARIABLES task,      \* task -> row of scheduler_tasks
          step,      \* thread -> the call it is in
          finished   \* history: tasks that have been COMPLETED

schedVars == <<task, step, finished>>

SchedThreads == TaskWorkers \cup TaskOperators

TERMINAL_TASK_STATES == {"COMPLETED", "FAILED", "CANCELLED"}
CLAIMABLE_STATES == {"READY", "RECOVERING"}
Executing == {"ASSIGNED", "RUNNING"}

TaskState == {"ABSENT", "QUEUED", "BLOCKED", "RETRY_WAIT", "BLOCKED_EXTERNAL"}
             \cup TERMINAL_TASK_STATES \cup CLAIMABLE_STATES \cup Executing

TaskRow == [state : TaskState, owner : TaskWorkers \cup {"nobody"},
            lease : {"none", "live", "expired"}, retries : 0..TaskRetries, due : BOOLEAN]

Verdicts == {"none", "ready", "blocked", "failed", "retry"}

\* todo: the tasks refresh_readiness has still to look at.
TaskStep == [pc : {"idle", "save", "refresh", "apply"}, task : Tasks, row : TaskRow,
             todo : SUBSET Tasks, verdict : Verdicts]

NewTask == [state |-> "ABSENT", owner |-> "nobody", lease |-> "none",
            retries |-> 0, due |-> TRUE]

NoStep == [pc |-> "idle", task |-> CHOOSE i \in Tasks : TRUE, row |-> NewTask,
           todo |-> {}, verdict |-> "none"]

SchedInit == /\ task = [i \in Tasks |-> NewTask]
             /\ step = [t \in SchedThreads |-> NoStep]
             /\ finished = {}

Known == {i \in Tasks : task[i].state # "ABSENT"}

Ended(i) == task[i].state \in TERMINAL_TASK_STATES

Released(r, state) == [r EXCEPT !.state = state, !.owner = "nobody", !.lease = "none"]

\* A thread that begins refresh_readiness.
Refreshing == [NoStep EXCEPT !.pc = "refresh", !.todo = Known]

-----------------------------------------------------------------------------
(* Intake and readiness.                                                   *)

\* A plan is cyclic when some tasks of it wait for each other.
Cyclic(P) == \E C \in SUBSET P : C # {} /\ \A i \in C : TaskDeps[i] \cap C # {}

\* submit: duplicates, unknown dependencies and cycles are refused.
Submit(t, P) ==
  /\ step[t].pc = "idle" /\ P \cap Known = {}
  /\ \A i \in P : TaskDeps[i] \subseteq Known \cup P
  /\ ~Cyclic(P)
  /\ task' = [i \in Tasks |-> IF i \in P THEN [task[i] EXCEPT !.state = "QUEUED"] ELSE task[i]]
  /\ step' = [step EXCEPT ![t] = [Refreshing EXCEPT !.todo = Known \cup P]]
  /\ UNCHANGED finished

Unrefreshed == Executing \cup TERMINAL_TASK_STATES \cup {"BLOCKED_EXTERNAL"}

\* Mutant: a dependency that has ended counts as done, however it ended.
VerdictOnEnds(i) ==
  IF task[i].state \in Unrefreshed THEN "none"
  ELSE IF task[i].state = "RETRY_WAIT" THEN IF task[i].due THEN "retry" ELSE "none"
  ELSE IF \A d \in TaskDeps[i] : Ended(d) THEN "ready"
  ELSE "blocked"

\* What refresh_readiness makes of one task.
Verdict(i) ==
  LET State(d) == task[d].state IN
  IF task[i].state \in Unrefreshed THEN "none"
  ELSE IF task[i].state = "RETRY_WAIT" THEN IF task[i].due THEN "retry" ELSE "none"
  ELSE IF \E d \in TaskDeps[i] : State(d) \in {"FAILED", "CANCELLED"} THEN "failed"
  ELSE IF \A d \in TaskDeps[i] : State(d) = "COMPLETED" THEN "ready"
  ELSE "blocked"

ReadVerdict(t, i) ==
  /\ step[t].pc = "refresh" /\ i \in step[t].todo /\ \A k \in step[t].todo : i <= k
  /\ step' = [step EXCEPT ![t] =
       IF Verdict(i) # "none" THEN [@ EXCEPT !.pc = "apply", !.task = i, !.verdict = Verdict(i)]
       ELSE IF @.todo = {i} THEN NoStep ELSE [@ EXCEPT !.todo = step[t].todo \ {i}]]
  /\ UNCHANGED <<task, finished>>

\* Mutant: the transaction does not look at the state again.
AppliedBlindly(r, verdict) ==
  CASE verdict = "retry"   -> [r EXCEPT !.state = "RECOVERING"]
    [] verdict = "failed"  -> Released(r, "FAILED")
    [] verdict = "ready"   -> [r EXCEPT !.state = "READY"]
    [] verdict = "blocked" -> Released(r, "BLOCKED")

\* _retry_to_recovering, _dep_failed, _to_ready, _to_blocked: the transaction.
Applied(r, verdict) ==
  IF verdict = "retry"
  THEN IF r.state = "RETRY_WAIT" /\ r.due THEN [r EXCEPT !.state = "RECOVERING"] ELSE r
  ELSE IF r.state \in Unrefreshed THEN r
  ELSE CASE verdict = "failed"  -> Released(r, "FAILED")
         [] verdict = "ready"   -> IF r.state \in CLAIMABLE_STATES THEN r
                                   ELSE [r EXCEPT !.state = "READY"]
         [] OTHER               -> IF r.state = "BLOCKED" THEN r ELSE Released(r, "BLOCKED")

ApplyVerdict(t) ==
  LET i == step[t].task IN
  /\ step[t].pc = "apply"
  /\ task' = [task EXCEPT ![i] = Applied(@, step[t].verdict)]
  /\ step' = [step EXCEPT ![t] = IF @.todo = {i} THEN NoStep
                                 ELSE [Refreshing EXCEPT !.todo = step[t].todo \ {i}]]
  /\ UNCHANGED finished

-----------------------------------------------------------------------------
(* Dispatch.                                                               *)

Load(w) == Cardinality({i \in Tasks : task[i].state \in Executing /\ task[i].owner = w})
GlobalLoad == Cardinality({i \in Tasks : task[i].state \in Executing})

\* claim_task refuses ended tasks, states it does not know, and live leases of others.
Claimable(i, w) == /\ task[i].state \in CLAIMABLE_STATES \cup Executing
                   /\ ~ (/\ task[i].state \in Executing /\ task[i].lease = "live"
                         /\ task[i].owner \notin {"nobody", w})

Leased(i, w) == [task[i] EXCEPT !.state = "ASSIGNED", !.owner = w, !.lease = "live", !.due = TRUE]

\* schedule_once begins with a refresh of its own; here, its dispatch.
ScheduleOnce(w, i) ==
  /\ step[w].pc = "idle"
  /\ Load(w) < WorkerLimit /\ GlobalLoad < GlobalLimit
  /\ task[i].state \in CLAIMABLE_STATES /\ task[i].due /\ Claimable(i, w)
  /\ task' = [task EXCEPT ![i] = Leased(i, w)]
  /\ UNCHANGED <<step, finished>>

BeginRefresh(w) ==
  /\ step[w].pc = "idle" /\ Known # {}
  /\ step' = [step EXCEPT ![w] = Refreshing]
  /\ UNCHANGED <<task, finished>>

HeartbeatTask(w, i) ==
  /\ task[i].owner = w /\ ~Ended(i)
  /\ task' = [task EXCEPT ![i].lease = "live"]
  /\ UNCHANGED <<step, finished>>

-----------------------------------------------------------------------------
(* Execution: calls that read, then write.                                 *)

\* _require_lease: a claimable task without an owner is claimed on the way.
MayUse(w, i) == \/ task[i].owner = w /\ ~Ended(i) /\ task[i].lease # "expired"
                \/ task[i].owner = "nobody" /\ task[i].state \in CLAIMABLE_STATES

Row(w, i) == IF task[i].owner = w THEN task[i] ELSE Leased(i, w)

WriteTask(t, i, row) == step' = [step EXCEPT ![t] = [NoStep EXCEPT !.pc = "save", !.task = i, !.row = row]]

Use(w, i, row) == /\ step[w].pc = "idle" /\ MayUse(w, i)
                  /\ task' = [task EXCEPT ![i] = Row(w, i)]
                  /\ WriteTask(w, i, row)
                  /\ UNCHANGED finished

StartTask(w, i) == Use(w, i, [Row(w, i) EXCEPT !.state = "RUNNING"])

CompleteTask(w, i) == Use(w, i, Released(Row(w, i), "COMPLETED"))

FailTask(w, i) == Use(w, i, Released(Row(w, i), "FAILED"))

RetryTask(w, i) == /\ task[i].retries < TaskRetries
                   /\ Use(w, i, [Released(Row(w, i), "RETRY_WAIT") EXCEPT !.retries = @ + 1,
                                                                         !.due = FALSE])

BlockExternal(w, i) == Use(w, i, Released(Row(w, i), "BLOCKED_EXTERNAL"))

-----------------------------------------------------------------------------
(* Calls of operators.                                                     *)

Order(t, i, row) == /\ step[t].pc = "idle"
                    /\ WriteTask(t, i, row)
                    /\ UNCHANGED <<task, finished>>

UnblockExternal(t, i) == /\ task[i].state = "BLOCKED_EXTERNAL"
                         /\ Order(t, i, [task[i] EXCEPT !.state = "RECOVERING", !.due = TRUE])

Preempt(t, i) == /\ i \in Preemptible /\ task[i].state \in Executing
                 /\ Order(t, i, Released(task[i], "READY"))

\* Mutant: a finished task is cancelled.
CancelTaskAny(t, i) == i \in Known /\ Order(t, i, Released(task[i], "CANCELLED"))

CancelTask(t, i) == i \in Known /\ ~Ended(i) /\ Order(t, i, Released(task[i], "CANCELLED"))

\* store.save; start_task and preempt end here, block_external too.
SaveTask(t) ==
  LET i == step[t].task IN
  /\ step[t].pc = "save"
  /\ task' = [task EXCEPT ![i] = step[t].row]
  /\ finished' = IF step[t].row.state = "COMPLETED" THEN finished \cup {i} ELSE finished
  /\ step' = [step EXCEPT ![t] = IF @.row.state \in {"RUNNING", "READY", "BLOCKED_EXTERNAL"}
                                 THEN NoStep ELSE Refreshing]

\* recover, for one task: a transaction that looks at the lease again.
RecoverTask(t, i) ==
  /\ step[t].pc = "idle"
  /\ task[i].state \in Executing /\ task[i].lease # "live"
  /\ task' = [task EXCEPT ![i] = Released(@, "RECOVERING")]
  /\ step' = [step EXCEPT ![t] = Refreshing]
  /\ UNCHANGED finished

-----------------------------------------------------------------------------
(* Time.                                                                   *)

TaskLeaseExpires(i) ==
  /\ task[i].lease = "live"
  /\ task' = [task EXCEPT ![i].lease = "expired"]
  /\ UNCHANGED <<step, finished>>

TaskRetryComesDue(i) ==
  /\ ~task[i].due
  /\ task' = [task EXCEPT ![i].due = TRUE]
  /\ UNCHANGED <<step, finished>>

-----------------------------------------------------------------------------
SchedProceed(t) == SaveTask(t) \/ ApplyVerdict(t) \/ \E i \in Tasks : ReadVerdict(t, i)

Execute(w, i) == \/ StartTask(w, i) \/ CompleteTask(w, i) \/ FailTask(w, i)
                 \/ RetryTask(w, i) \/ BlockExternal(w, i)

Operate(t, i) == UnblockExternal(t, i) \/ Preempt(t, i) \/ CancelTask(t, i) \/ RecoverTask(t, i)

SchedNext ==
  \/ \E t \in SchedThreads : SchedProceed(t)
  \/ \E t \in TaskOperators : \/ \E P \in Plans : Submit(t, P)
                              \/ \E i \in Tasks : Operate(t, i)
  \/ \E w \in TaskWorkers : \/ BeginRefresh(w)
                            \/ \E i \in Tasks : ScheduleOnce(w, i) \/ HeartbeatTask(w, i)
                                                \/ Execute(w, i)
  \/ \E i \in Tasks : TaskLeaseExpires(i) \/ TaskRetryComesDue(i)

SchedSpec == SchedInit /\ [][SchedNext]_schedVars

-----------------------------------------------------------------------------
\* Shapes of rows and calls.
SchedTypeOK == /\ task \in [Tasks -> TaskRow]
               /\ step \in [SchedThreads -> TaskStep]
               /\ finished \subseteq Tasks

Unstarted == {"ABSENT", "QUEUED", "BLOCKED", "FAILED", "CANCELLED"}

\* Whatever old snapshots are written back and however late a verdict is applied,
\* a task is handed out only after each of its dependencies had completed.
DependenciesFirst == \A i \in Tasks : task[i].state \notin Unstarted => TaskDeps[i] \subseteq finished

\* Tasks that wait for each other are never admitted.
NoDeadlockAdmitted == ~Cyclic(Known)

\* Once the calls that had read it are over, the end of a task is final: no late
\* verdict, recovery, claim or heartbeat touches it.
TaskSettled(i) == Ended(i) /\ \A t \in SchedThreads :
                    ~ (step[t].pc = "save" /\ step[t].task = i)
TaskEndIsFinal == [][\A i \in Tasks : TaskSettled(i) => TaskSettled(i)']_schedVars
=============================================================================
