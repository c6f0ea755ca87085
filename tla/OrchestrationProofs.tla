------------------------- MODULE OrchestrationProofs --------------------------
(***************************************************************************)
(* What decides what runs, when and where keeps its word for any number of *)
(* tasks, jobs, workers, nodes, steps of a contract and steps of a plan:   *)
(* proofs of the properties of MCOrchestration, part by part.  The parts   *)
(* share no state, so a step of the whole is a step or a stutter of each   *)
(* of them.                                                                *)
(***************************************************************************)
EXTENDS MCOrchestration, SelectionProofs

LEMMA PartSteps ==
  ASSUME [Next]_vars
  PROVE  /\ [SchedNext]_schedVars /\ [SupNext]_supVars
         /\ [PoolNext]_poolVars /\ [SkillNext]_skillVars /\ [PlanNext]_planVars
  BY DEF Next, vars

-----------------------------------------------------------------------------
(* Scheduler.                                                              *)

\* A row of task i, in the table or in the snapshot of a call, may count as handed
\* out only after its dependencies, and has an owner only then.
RowKept(i, r, done) ==
  /\ r.state \notin Unstarted => TaskDeps[i] \subseteq done
  /\ r.owner # "nobody" => r.state \notin Unstarted

\* What a call that is under way still has to write.
CallKept(s, done, known) ==
  /\ s.todo \subseteq known
  /\ s.pc = "save" => /\ s.row.state # "ABSENT" /\ s.task \in known
                      /\ RowKept(s.task, s.row, done)
  /\ s.pc = "apply" => /\ s.verdict # "none" /\ s.task \in known
                       /\ s.verdict = "ready" => TaskDeps[s.task] \subseteq done

\* What was admitted is closed under dependencies, so nothing admitted later can
\* close a cycle through it.
SchedInv ==
  /\ SchedTypeOK
  /\ \A i \in Tasks : /\ RowKept(i, task[i], finished)
                      /\ task[i].state = "COMPLETED" => i \in finished
  /\ \A i \in Known : TaskDeps[i] \subseteq Known
  /\ NoDeadlockAdmitted
  /\ \A t \in SchedThreads : CallKept(step[t], finished, Known)

LEMMA TaskRows ==
  ASSUME NEW r \in TaskRow
  PROVE  /\ r.state \in TaskState /\ r.owner \in TaskWorkers \cup {"nobody"}
         /\ \A st \in TaskState : /\ [r EXCEPT !.state = st] \in TaskRow
                                  /\ [r EXCEPT !.state = st].state = st
                                  /\ [r EXCEPT !.state = st].owner = r.owner
         /\ \A l \in {"live", "expired"} : /\ [r EXCEPT !.lease = l] \in TaskRow
                                           /\ [r EXCEPT !.lease = l].state = r.state
                                           /\ [r EXCEPT !.lease = l].owner = r.owner
         /\ \A d \in BOOLEAN : /\ [r EXCEPT !.due = d] \in TaskRow
                               /\ [r EXCEPT !.due = d].state = r.state
                               /\ [r EXCEPT !.due = d].owner = r.owner
  BY DEF TaskRow

LEMMA ReleasedRow ==
  ASSUME NEW r \in TaskRow, NEW st \in TaskState
  PROVE  /\ Released(r, st) \in TaskRow /\ Released(r, st).state = st
         /\ Released(r, st).owner = "nobody" /\ Released(r, st).retries = r.retries
  BY DEF TaskRow, Released

LEMMA NoTask == /\ NewTask \in TaskRow /\ NewTask.state = "ABSENT" /\ NewTask.owner = "nobody"
                /\ NoStep \in TaskStep /\ NoStep.pc = "idle" /\ NoStep.todo = {}
<1>1. NewTask \in TaskRow /\ NewTask.state = "ABSENT" /\ NewTask.owner = "nobody"
  BY SchedulerAssumption DEF NewTask, TaskRow, TaskState
<1>2. (CHOOSE i \in Tasks : TRUE) \in Tasks
  BY SchedulerAssumption
<1> QED BY <1>1, <1>2 DEF NoStep, TaskStep, Verdicts

LEMMA RefreshingStep ==
  ASSUME NEW S \in SUBSET Tasks
  PROVE  /\ [Refreshing EXCEPT !.todo = S] \in TaskStep
         /\ [Refreshing EXCEPT !.todo = S].pc = "refresh"
         /\ [Refreshing EXCEPT !.todo = S].todo = S
         /\ Refreshing \in TaskStep /\ Refreshing.pc = "refresh" /\ Refreshing.todo = Known
  BY NoTask DEF TaskStep, Refreshing, Known

\* A call writes one row, or the place of one thread, or both.
LEMMA SchedChange ==
  ASSUME SchedInv, NEW i \in Tasks, NEW r \in TaskRow, NEW t \in SchedThreads, NEW s \in TaskStep,
         task' = [task EXCEPT ![i] = r], step' = [step EXCEPT ![t] = s],
         finished \subseteq finished', finished' \subseteq Tasks,
         RowKept(i, r, finished'), r.state = "COMPLETED" => i \in finished',
         r.state = "ABSENT" <=> task[i].state = "ABSENT",
         CallKept(s, finished', Known)
  PROVE  SchedInv'
<1>1. /\ task \in [Tasks -> TaskRow] /\ step \in [SchedThreads -> TaskStep]
      /\ finished \subseteq Tasks
  BY DEF SchedInv, SchedTypeOK
<1>2. SchedTypeOK'
  BY <1>1 DEF SchedTypeOK
<1>3. Known' = Known
  BY <1>1 DEF Known
<1>4. \A k \in Tasks : /\ RowKept(k, task'[k], finished')
                       /\ task'[k].state = "COMPLETED" => k \in finished'
  BY <1>1 DEF SchedInv, RowKept
<1>5. \A k \in Known' : TaskDeps[k] \subseteq Known'
  BY <1>3 DEF SchedInv
<1>6. NoDeadlockAdmitted'
  BY <1>3 DEF SchedInv, NoDeadlockAdmitted, Cyclic
<1>7. \A u \in SchedThreads : CallKept(step'[u], finished', Known')
  BY <1>1, <1>3 DEF SchedInv, CallKept, RowKept
<1> QED BY <1>2, <1>4, <1>5, <1>6, <1>7 DEF SchedInv

LEMMA RowChange ==
  ASSUME SchedInv, NEW i \in Tasks, NEW r \in TaskRow,
         task' = [task EXCEPT ![i] = r], UNCHANGED <<step, finished>>,
         RowKept(i, r, finished), r.state = "COMPLETED" => i \in finished,
         r.state = "ABSENT" <=> task[i].state = "ABSENT"
  PROVE  SchedInv'
<1>1. /\ task \in [Tasks -> TaskRow] /\ step \in [SchedThreads -> TaskStep]
      /\ finished \subseteq Tasks
  BY DEF SchedInv, SchedTypeOK
<1>2. SchedTypeOK'
  BY <1>1 DEF SchedTypeOK
<1>3. Known' = Known
  BY <1>1 DEF Known
<1>4. \A k \in Tasks : /\ RowKept(k, task'[k], finished')
                       /\ task'[k].state = "COMPLETED" => k \in finished'
  BY <1>1 DEF SchedInv, RowKept
<1> QED BY <1>2, <1>3, <1>4 DEF SchedInv, NoDeadlockAdmitted, Cyclic

LEMMA CallChange ==
  ASSUME SchedInv, NEW t \in SchedThreads, NEW s \in TaskStep,
         step' = [step EXCEPT ![t] = s], UNCHANGED <<task, finished>>,
         CallKept(s, finished, Known)
  PROVE  SchedInv'
<1>1. /\ task \in [Tasks -> TaskRow] /\ step \in [SchedThreads -> TaskStep]
      /\ finished \subseteq Tasks
  BY DEF SchedInv, SchedTypeOK
<1>2. SchedTypeOK'
  BY <1>1 DEF SchedTypeOK
<1>3. Known' = Known
  BY DEF Known
<1>4. \A u \in SchedThreads : CallKept(step'[u], finished', Known')
  BY <1>1, <1>3 DEF SchedInv, CallKept
<1> QED BY <1>2, <1>3, <1>4 DEF SchedInv, NoDeadlockAdmitted, Cyclic, RowKept

LEMMA SchedFacts ==
  ASSUME SchedInv
  PROVE  /\ task \in [Tasks -> TaskRow] /\ step \in [SchedThreads -> TaskStep]
         /\ finished \subseteq Tasks
         /\ \A i \in Tasks : /\ task[i] \in TaskRow /\ TaskDeps[i] \subseteq Tasks
                             /\ RowKept(i, task[i], finished)
                             /\ task[i].state = "COMPLETED" => i \in finished
                             /\ i \in Known <=> task[i].state # "ABSENT"
         /\ \A t \in SchedThreads : /\ step[t] \in TaskStep /\ step[t].task \in Tasks
                                    /\ step[t].row \in TaskRow /\ step[t].todo \subseteq Tasks
                                    /\ CallKept(step[t], finished, Known)
         /\ Known \subseteq Tasks
  BY SchedulerAssumption DEF SchedInv, SchedTypeOK, TaskStep, Known

LEMMA SubmitKeeps ==
  ASSUME SchedInv, NEW t \in SchedThreads, NEW P \in Plans, Submit(t, P)
  PROVE  SchedInv'
<1>1. P \subseteq Tasks
  BY SchedulerAssumption
<1>2. /\ task' = [i \in Tasks |-> IF i \in P THEN [task[i] EXCEPT !.state = "QUEUED"] ELSE task[i]]
      /\ step' = [step EXCEPT ![t] = [Refreshing EXCEPT !.todo = Known \cup P]]
      /\ finished' = finished
      /\ P \cap Known = {} /\ ~Cyclic(P) /\ \A i \in P : TaskDeps[i] \subseteq Known \cup P
  BY DEF Submit
<1>3. "QUEUED" \in TaskState /\ "QUEUED" \in Unstarted
  BY DEF TaskState, Unstarted
<1>4. Known' = Known \cup P
  BY <1>1, <1>2, <1>3, SchedFacts, TaskRows DEF Known
<1>5. SchedTypeOK'
  <2>1. task' \in [Tasks -> TaskRow]
    BY <1>2, <1>3, SchedFacts, TaskRows
  <2>2. step' \in [SchedThreads -> TaskStep]
    BY <1>1, <1>2, SchedFacts, RefreshingStep
  <2> QED BY <2>1, <2>2, <1>2, SchedFacts DEF SchedTypeOK
<1>6. ASSUME NEW i \in Tasks
      PROVE  RowKept(i, task'[i], finished') /\ (task'[i].state = "COMPLETED" => i \in finished')
  <2>1. CASE i \notin P
    BY <2>1, <1>2, SchedFacts
  <2>2. CASE i \in P
    <3>1. task[i].state = "ABSENT" /\ "ABSENT" \in Unstarted
      BY <2>2, <1>2, SchedFacts DEF Unstarted
    <3>2. task[i].owner = "nobody"
      BY <3>1, SchedFacts DEF RowKept
    <3>3. task'[i].state = "QUEUED" /\ task'[i].owner = "nobody"
      <4>1. task'[i] = [task[i] EXCEPT !.state = "QUEUED"]
        BY <1>2, <2>2
      <4> QED BY <4>1, <1>3, <3>2, SchedFacts, TaskRows
    <3> QED BY <1>3, <3>3 DEF RowKept
  <2> QED BY <2>1, <2>2
<1>7. \A i \in Known' : TaskDeps[i] \subseteq Known'
  BY <1>2, <1>4 DEF SchedInv
<1>8. ~Cyclic(Known \cup P)
  <2> SUFFICES ASSUME NEW C \in SUBSET (Known \cup P), C # {}, \A i \in C : TaskDeps[i] \cap C # {}
               PROVE  FALSE
    BY DEF Cyclic
  <2>1. CASE C \subseteq P
    BY <1>2, <2>1 DEF Cyclic
  <2>2. CASE C \cap Known # {}
    <3>1. \A i \in C \cap Known : TaskDeps[i] \cap (C \cap Known) # {}
      BY DEF SchedInv
    <3> QED BY <2>2, <3>1 DEF SchedInv, NoDeadlockAdmitted, Cyclic
  <2> QED BY <2>1, <2>2
<1>9. NoDeadlockAdmitted'
  BY <1>4, <1>8 DEF NoDeadlockAdmitted, Cyclic
<1>10. ASSUME NEW u \in SchedThreads  PROVE CallKept(step'[u], finished', Known')
  <2>1. CASE u = t
    BY <1>1, <1>2, <1>4, <2>1, SchedFacts, RefreshingStep DEF CallKept
  <2>2. CASE u # t
    BY <1>2, <1>4, <2>2, SchedFacts DEF CallKept
  <2> QED BY <2>1, <2>2
<1> QED BY <1>5, <1>6, <1>7, <1>9, <1>10 DEF SchedInv

LEMMA ReadVerdictKeeps ==
  ASSUME SchedInv, NEW t \in SchedThreads, NEW i \in Tasks, ReadVerdict(t, i)
  PROVE  SchedInv'
<1>1. /\ step[t].pc = "refresh" /\ i \in step[t].todo /\ i \in Known
      /\ UNCHANGED <<task, finished>>
  BY SchedFacts DEF ReadVerdict, CallKept
<1>2. CASE Verdict(i) # "none"
  <2> DEFINE s == [step[t] EXCEPT !.pc = "apply", !.task = i, !.verdict = Verdict(i)]
  <2>1. Verdict(i) \in Verdicts
    BY DEF Verdict, Verdicts
  <2>2. Verdict(i) = "ready" => TaskDeps[i] \subseteq finished
    BY SchedFacts DEF Verdict
  <2>3. /\ s \in TaskStep /\ s.pc = "apply" /\ s.task = i /\ s.verdict = Verdict(i)
        /\ s.todo = step[t].todo
    BY <2>1, SchedFacts DEF TaskStep
  <2>4. step' = [step EXCEPT ![t] = s]
    BY <1>2 DEF ReadVerdict
  <2> HIDE DEF s
  <2>5. CallKept(s, finished, Known)
    BY <1>1, <1>2, <2>2, <2>3, SchedFacts DEF CallKept
  <2> QED BY <1>1, <2>3, <2>4, <2>5, CallChange
<1>3. CASE Verdict(i) = "none" /\ step[t].todo = {i}
  <2>1. step' = [step EXCEPT ![t] = NoStep]
    BY <1>3 DEF ReadVerdict
  <2>2. CallKept(NoStep, finished, Known)
    BY NoTask DEF CallKept
  <2> QED BY <1>1, <2>1, <2>2, NoTask, CallChange
<1>4. CASE Verdict(i) = "none" /\ step[t].todo # {i}
  <2> DEFINE s == [step[t] EXCEPT !.todo = step[t].todo \ {i}]
  <2>1. s \in TaskStep /\ s.pc = "refresh" /\ s.todo \subseteq step[t].todo
    BY <1>1, SchedFacts DEF TaskStep
  <2>2. step' = [step EXCEPT ![t] = s]
    BY <1>4 DEF ReadVerdict
  <2> HIDE DEF s
  <2>3. CallKept(s, finished, Known)
    BY <2>1, SchedFacts DEF CallKept
  <2> QED BY <1>1, <2>1, <2>2, <2>3, CallChange
<1> QED BY <1>2, <1>3, <1>4

LEMMA AppliedRow ==
  ASSUME NEW r \in TaskRow, NEW v \in Verdicts, v # "none"
  PROVE  LET a == Applied(r, v)
         IN  /\ a \in TaskRow
             /\ \/ a = r
                \/ v = "retry" /\ r.state = "RETRY_WAIT" /\ a.state = "RECOVERING" /\ a.owner = r.owner
                \/ v = "ready" /\ r.state \notin Unrefreshed /\ a.state = "READY" /\ a.owner = r.owner
                \/ /\ v \in {"failed", "blocked"} /\ a.owner = "nobody"
                   /\ a.state \in {"FAILED", "BLOCKED"}
<1>1. {"RECOVERING", "FAILED", "READY", "BLOCKED"} \subseteq TaskState
  BY DEF TaskState, TERMINAL_TASK_STATES, CLAIMABLE_STATES
<1>2. CASE v = "retry"
  BY <1>1, <1>2, TaskRows DEF Applied
<1>3. CASE r.state \in Unrefreshed /\ v # "retry"
  BY <1>3 DEF Applied
<1>4. CASE r.state \notin Unrefreshed /\ v = "failed"
  <2>1. Applied(r, v) = Released(r, "FAILED")
    BY <1>4 DEF Applied
  <2>2. /\ Released(r, "FAILED") \in TaskRow /\ Released(r, "FAILED").state = "FAILED"
        /\ Released(r, "FAILED").owner = "nobody"
    BY <1>1, ReleasedRow
  <2> QED BY <1>4, <2>1, <2>2
<1>5. CASE r.state \notin Unrefreshed /\ v = "ready"
  BY <1>1, <1>5, TaskRows DEF Applied
<1>6. CASE r.state \notin Unrefreshed /\ v = "blocked"
  <2>1. Applied(r, v) = IF r.state = "BLOCKED" THEN r ELSE Released(r, "BLOCKED")
    BY <1>6 DEF Applied
  <2>2. /\ Released(r, "BLOCKED") \in TaskRow /\ Released(r, "BLOCKED").state = "BLOCKED"
        /\ Released(r, "BLOCKED").owner = "nobody"
    BY <1>1, ReleasedRow
  <2> QED BY <1>6, <2>1, <2>2
<1> QED BY <1>2, <1>3, <1>4, <1>5, <1>6 DEF Verdicts

LEMMA ApplyVerdictKeeps ==
  ASSUME SchedInv, NEW t \in SchedThreads, ApplyVerdict(t)
  PROVE  SchedInv'
<1> DEFINE i == step[t].task
           r == Applied(task[i], step[t].verdict)
           s == IF step[t].todo = {i} THEN NoStep
                ELSE [Refreshing EXCEPT !.todo = step[t].todo \ {i}]
<1>1. /\ i \in Tasks /\ task[i] \in TaskRow /\ step[t] \in TaskStep
      /\ step[t].verdict \in Verdicts /\ step[t].verdict # "none"
      /\ step[t].verdict = "ready" => TaskDeps[i] \subseteq finished
      /\ task[i].state # "ABSENT" /\ step[t].todo \subseteq Known /\ step[t].todo \subseteq Tasks
  BY SchedFacts DEF ApplyVerdict, CallKept, TaskStep
<1>2. task' = [task EXCEPT ![i] = r] /\ step' = [step EXCEPT ![t] = s] /\ finished' = finished
  BY DEF ApplyVerdict
<1>3. s \in TaskStep /\ CallKept(s, finished, Known)
  BY <1>1, NoTask, RefreshingStep DEF CallKept
<1>4. /\ r \in TaskRow
      /\ \/ r = task[i]
         \/ step[t].verdict = "retry" /\ task[i].state = "RETRY_WAIT" /\ r.state = "RECOVERING"
            /\ r.owner = task[i].owner
         \/ step[t].verdict = "ready" /\ task[i].state \notin Unrefreshed /\ r.state = "READY"
            /\ r.owner = task[i].owner
         \/ r.owner = "nobody" /\ r.state \in {"FAILED", "BLOCKED"}
  BY <1>1, AppliedRow
<1> HIDE DEF i, r, s
<1>5. /\ RowKept(i, task[i], finished)
      /\ task[i].state = "COMPLETED" => i \in finished
  BY <1>1, SchedFacts
<1>6. /\ "RETRY_WAIT" \notin Unstarted /\ "RECOVERING" \notin Unstarted /\ "READY" \notin Unstarted
      /\ {"FAILED", "BLOCKED"} \subseteq Unstarted
  BY DEF Unstarted
<1>7. RowKept(i, r, finished)
  BY <1>1, <1>4, <1>5, <1>6 DEF RowKept
<1>8. finished' \subseteq Tasks
  BY <1>2, SchedFacts
<1>9. (r.state = "COMPLETED" => i \in finished) /\ r.state # "ABSENT"
  BY <1>1, <1>4, <1>5
<1> QED BY <1>1, <1>2, <1>3, <1>4, <1>7, <1>8, <1>9, SchedChange

LEMMA SaveTaskKeeps ==
  ASSUME SchedInv, NEW t \in SchedThreads, SaveTask(t)
  PROVE  SchedInv'
<1> DEFINE i == step[t].task
           r == step[t].row
           s == IF r.state \in {"RUNNING", "READY", "BLOCKED_EXTERNAL"} THEN NoStep ELSE Refreshing
<1>1. /\ i \in Tasks /\ r \in TaskRow /\ RowKept(i, r, finished)
      /\ task[i].state # "ABSENT" /\ r.state # "ABSENT"
  BY SchedFacts DEF SaveTask, CallKept
<1>2. /\ task' = [task EXCEPT ![i] = r] /\ step' = [step EXCEPT ![t] = s]
      /\ finished' = IF r.state = "COMPLETED" THEN finished \cup {i} ELSE finished
  BY DEF SaveTask
<1>3. s \in TaskStep /\ CallKept(s, finished', Known)
  BY NoTask, RefreshingStep, SchedFacts DEF CallKept
<1> HIDE DEF i, r, s
<1>4. /\ finished \subseteq finished' /\ finished' \subseteq Tasks
      /\ r.state = "COMPLETED" => i \in finished'
  BY <1>1, <1>2, SchedFacts
<1>5. RowKept(i, r, finished')
  BY <1>1, <1>4 DEF RowKept
<1> QED BY <1>1, <1>2, <1>3, <1>4, <1>5, SchedChange

\* A call that is about to write row r of task i.
LEMMA WriteTaskStep ==
  ASSUME SchedInv, NEW i \in Tasks, NEW r \in TaskRow, RowKept(i, r, finished),
         task[i].state # "ABSENT", r.state # "ABSENT"
  PROVE  LET s == [NoStep EXCEPT !.pc = "save", !.task = i, !.row = r]
         IN  s \in TaskStep /\ CallKept(s, finished, Known)
<1> DEFINE s == [NoStep EXCEPT !.pc = "save", !.task = i, !.row = r]
<1>1. /\ s \in TaskStep /\ s.pc = "save" /\ s.task = i /\ s.row = r /\ s.todo = {}
  BY NoTask DEF TaskStep
<1> HIDE DEF s
<1>2. i \in Known
  BY SchedFacts
<1> QED BY <1>1, <1>2 DEF s, CallKept

\* The row that a call of an executor goes by: it is leased, or becomes so.
LEMMA UsableRow ==
  ASSUME SchedInv, NEW w \in TaskWorkers, NEW i \in Tasks, MayUse(w, i)
  PROVE  /\ Row(w, i) \in TaskRow /\ RowKept(i, Row(w, i), finished)
         /\ task[i].state # "ABSENT" /\ Row(w, i).state \notin Unstarted
         /\ Row(w, i).state # "COMPLETED" /\ Row(w, i).retries = task[i].retries
<1>1. task[i] \in TaskRow /\ RowKept(i, task[i], finished)
  BY SchedFacts
<1>2. CASE task[i].owner = w
  <2>1. Row(w, i) = task[i] /\ w # "nobody"
    BY <1>2, SchedulerAssumption DEF Row
  <2>2. task[i].state \notin Unstarted /\ task[i].state \notin TERMINAL_TASK_STATES
    BY <1>1, <1>2, <2>1 DEF RowKept, MayUse, Ended
  <2> QED BY <1>1, <2>1, <2>2 DEF Unstarted, TERMINAL_TASK_STATES
<1>3. CASE task[i].owner # w
  <2>1. task[i].state \in {"READY", "RECOVERING"}
    BY <1>3 DEF MayUse, CLAIMABLE_STATES
  <2>2. /\ Row(w, i) \in TaskRow /\ Row(w, i).state = "ASSIGNED"
        /\ Row(w, i).retries = task[i].retries
    BY <1>1, <1>3 DEF Row, Leased, TaskRow, TaskState, Executing
  <2>3. TaskDeps[i] \subseteq finished
    BY <1>1, <2>1 DEF RowKept, Unstarted
  <2> QED BY <2>1, <2>2, <2>3 DEF RowKept, Unstarted
<1> QED BY <1>2, <1>3

LEMMA UseKeeps ==
  ASSUME SchedInv, NEW w \in TaskWorkers, NEW i \in Tasks, NEW r \in TaskRow, Use(w, i, r),
         r.state # "ABSENT", r.owner # "nobody" => r.state \notin Unstarted
  PROVE  SchedInv'
<1> DEFINE s == [NoStep EXCEPT !.pc = "save", !.task = i, !.row = r]
<1>1. /\ MayUse(w, i) /\ task' = [task EXCEPT ![i] = Row(w, i)]
      /\ step' = [step EXCEPT ![w] = s] /\ finished' = finished
  BY DEF Use, WriteTask
<1>2. /\ Row(w, i) \in TaskRow /\ RowKept(i, Row(w, i), finished) /\ Row(w, i).state # "COMPLETED"
      /\ task[i].state # "ABSENT" /\ Row(w, i).state # "ABSENT" /\ TaskDeps[i] \subseteq finished
  BY <1>1, UsableRow DEF RowKept, Unstarted
<1>3. RowKept(i, r, finished)
  BY <1>2 DEF RowKept
<1>4. s \in TaskStep /\ CallKept(s, finished, Known)
  BY <1>2, <1>3, WriteTaskStep
<1> HIDE DEF s
<1>5. w \in SchedThreads /\ finished' \subseteq Tasks
  BY <1>1, SchedFacts DEF SchedThreads
<1> QED BY <1>1, <1>2, <1>4, <1>5, SchedChange

LEMMA OrderKeeps ==
  ASSUME SchedInv, NEW t \in SchedThreads, NEW i \in Tasks, NEW r \in TaskRow, Order(t, i, r),
         RowKept(i, r, finished), task[i].state # "ABSENT", r.state # "ABSENT"
  PROVE  SchedInv'
<1> DEFINE s == [NoStep EXCEPT !.pc = "save", !.task = i, !.row = r]
<1>1. step' = [step EXCEPT ![t] = s] /\ UNCHANGED <<task, finished>>
  BY DEF Order, WriteTask
<1>2. s \in TaskStep /\ CallKept(s, finished, Known)
  BY WriteTaskStep
<1> HIDE DEF s
<1> QED BY <1>1, <1>2, CallChange

LEMMA OperateKeeps ==
  ASSUME SchedInv, NEW t \in TaskOperators, NEW i \in Tasks, Operate(t, i)
  PROVE  SchedInv'
<1>1. /\ t \in SchedThreads /\ task[i] \in TaskRow /\ RowKept(i, task[i], finished)
      /\ i \in Known <=> task[i].state # "ABSENT"
  BY SchedFacts DEF SchedThreads
<1>2. /\ {"RECOVERING", "READY", "CANCELLED"} \subseteq TaskState
      /\ "BLOCKED_EXTERNAL" \notin Unstarted /\ \A x \in Executing : x \notin Unstarted
      /\ "CANCELLED" \in Unstarted /\ "RECOVERING" \notin Unstarted
  BY DEF TaskState, CLAIMABLE_STATES, TERMINAL_TASK_STATES, Unstarted, Executing
<1>3. CASE UnblockExternal(t, i)
  <2> DEFINE r == [task[i] EXCEPT !.state = "RECOVERING", !.due = TRUE]
  <2>1. r \in TaskRow /\ r.state = "RECOVERING" /\ r.owner = task[i].owner
    BY <1>1, <1>2 DEF TaskRow
  <2>2. Order(t, i, r) /\ task[i].state = "BLOCKED_EXTERNAL"
    BY <1>3 DEF UnblockExternal
  <2> HIDE DEF r
  <2>3. RowKept(i, r, finished)
    BY <1>1, <1>2, <2>1, <2>2 DEF RowKept
  <2> QED BY <1>1, <2>1, <2>2, <2>3, OrderKeeps
<1>4. CASE Preempt(t, i)
  <2> DEFINE r == Released(task[i], "READY")
  <2>1. r \in TaskRow /\ r.state = "READY" /\ r.owner = "nobody"
    BY <1>1, <1>2, ReleasedRow
  <2>2. Order(t, i, r) /\ task[i].state \in Executing
    BY <1>4 DEF Preempt
  <2> HIDE DEF r
  <2>3. RowKept(i, r, finished) /\ task[i].state # "ABSENT"
    BY <1>1, <1>2, <2>1, <2>2 DEF RowKept, Executing
  <2> QED BY <1>1, <2>1, <2>2, <2>3, OrderKeeps
<1>5. CASE CancelTask(t, i)
  <2> DEFINE r == Released(task[i], "CANCELLED")
  <2>1. r \in TaskRow /\ r.state = "CANCELLED" /\ r.owner = "nobody"
    BY <1>1, <1>2, ReleasedRow
  <2>2. Order(t, i, r) /\ task[i].state # "ABSENT"
    BY <1>1, <1>5 DEF CancelTask
  <2> HIDE DEF r
  <2>3. RowKept(i, r, finished)
    BY <1>2, <2>1 DEF RowKept
  <2> QED BY <1>1, <2>1, <2>2, <2>3, OrderKeeps
<1>6. CASE RecoverTask(t, i)
  <2> DEFINE r == Released(task[i], "RECOVERING")
  <2>1. r \in TaskRow /\ r.state = "RECOVERING" /\ r.owner = "nobody"
    BY <1>1, <1>2, ReleasedRow
  <2>2. /\ task' = [task EXCEPT ![i] = r] /\ task[i].state \in Executing
        /\ step' = [step EXCEPT ![t] = Refreshing] /\ finished' = finished
    BY <1>6 DEF RecoverTask
  <2> HIDE DEF r
  <2>3. RowKept(i, r, finished) /\ task[i].state # "ABSENT"
    BY <1>1, <1>2, <2>1, <2>2 DEF RowKept, Executing
  <2>4. Refreshing \in TaskStep /\ CallKept(Refreshing, finished, Known) /\ finished \subseteq Tasks
    BY RefreshingStep, SchedFacts DEF CallKept
  <2> QED BY <1>1, <2>1, <2>2, <2>3, <2>4, SchedChange
<1> QED BY <1>3, <1>4, <1>5, <1>6 DEF Operate

LEMMA ExecuteKeeps ==
  ASSUME SchedInv, NEW w \in TaskWorkers, NEW i \in Tasks, Execute(w, i)
  PROVE  SchedInv'
<1> DEFINE old == Row(w, i)
<1>1. /\ {"RUNNING", "COMPLETED", "FAILED", "RETRY_WAIT", "BLOCKED_EXTERNAL"} \subseteq TaskState
      /\ "RUNNING" \notin Unstarted
  BY DEF TaskState, TERMINAL_TASK_STATES, Executing, Unstarted
<1>2. MayUse(w, i)
  BY DEF Execute, StartTask, CompleteTask, FailTask, RetryTask, BlockExternal, Use
<1>3. old \in TaskRow /\ old.retries = task[i].retries
  BY <1>2, UsableRow
<1> HIDE DEF old
<1>4. CASE StartTask(w, i)
  <2> DEFINE r == [old EXCEPT !.state = "RUNNING"]
  <2>1. r \in TaskRow /\ r.state = "RUNNING"
    BY <1>1, <1>3, TaskRows
  <2>2. Use(w, i, r)
    BY <1>4 DEF StartTask, old
  <2> HIDE DEF r
  <2> QED BY <1>1, <2>1, <2>2, UseKeeps
<1>5. ASSUME NEW st \in {"COMPLETED", "FAILED", "BLOCKED_EXTERNAL"}, Use(w, i, Released(old, st))
      PROVE  SchedInv'
  <2>0. st \in TaskState
    BY <1>1
  <2>1. /\ Released(old, st) \in TaskRow /\ Released(old, st).state = st
        /\ Released(old, st).owner = "nobody"
    BY <1>3, <2>0, ReleasedRow
  <2> QED BY <1>1, <1>5, <2>1, UseKeeps
<1>6. CASE CompleteTask(w, i) \/ FailTask(w, i) \/ BlockExternal(w, i)
  BY <1>5, <1>6 DEF CompleteTask, FailTask, BlockExternal, old
<1>7. CASE RetryTask(w, i)
  <2> DEFINE q == Released(old, "RETRY_WAIT")
             r == [q EXCEPT !.retries = q.retries + 1, !.due = FALSE]
  <2>1. q \in TaskRow /\ q.state = "RETRY_WAIT" /\ q.owner = "nobody" /\ q.retries = task[i].retries
    BY <1>1, <1>3, ReleasedRow
  <2>2. task[i].retries < TaskRetries /\ Use(w, i, r)
    BY <1>7 DEF RetryTask, old
  <2> DEFINE p == [q EXCEPT !.retries = q.retries + 1]
  <2> HIDE DEF q
  <2>4. q.retries + 1 \in 0..TaskRetries
    BY <2>1, <2>2, SchedulerAssumption DEF TaskRow
  <2>5. p \in TaskRow /\ p.state = "RETRY_WAIT" /\ p.owner = "nobody"
    BY <2>1, <2>4 DEF TaskRow
  <2>6. r = [p EXCEPT !.due = FALSE]
    OBVIOUS
  <2> HIDE DEF p
  <2>3. r \in TaskRow /\ r.state = "RETRY_WAIT" /\ r.owner = "nobody"
    BY <2>5, <2>6, TaskRows
  <2> HIDE DEF r
  <2> QED BY <2>2, <2>3, UseKeeps
<1> QED BY <1>4, <1>6, <1>7 DEF Execute

LEMMA SchedStep == SchedInv /\ [SchedNext]_schedVars => SchedInv'
<1> SUFFICES ASSUME SchedInv, [SchedNext]_schedVars  PROVE SchedInv'
  OBVIOUS
<1>1. CASE UNCHANGED schedVars
  BY <1>1 DEF schedVars, SchedInv, SchedTypeOK, Known, NoDeadlockAdmitted, Cyclic, CallKept, RowKept
<1>2. ASSUME NEW t \in SchedThreads, SchedProceed(t)  PROVE SchedInv'
  BY <1>2, SaveTaskKeeps, ApplyVerdictKeeps, ReadVerdictKeeps DEF SchedProceed
<1>3. ASSUME NEW t \in TaskOperators, \/ \E P \in Plans : Submit(t, P)
                                      \/ \E i \in Tasks : Operate(t, i)
      PROVE  SchedInv'
  BY <1>3, SubmitKeeps, OperateKeeps DEF SchedThreads
<1>4. ASSUME NEW w \in TaskWorkers, BeginRefresh(w)  PROVE SchedInv'
  <2>1. Refreshing \in TaskStep /\ CallKept(Refreshing, finished, Known)
    BY RefreshingStep, SchedFacts DEF CallKept
  <2>2. w \in SchedThreads /\ step' = [step EXCEPT ![w] = Refreshing] /\ UNCHANGED <<task, finished>>
    BY <1>4 DEF BeginRefresh, SchedThreads
  <2> QED BY <2>1, <2>2, CallChange
<1>5. ASSUME NEW i \in Tasks, \/ \E w \in TaskWorkers : HeartbeatTask(w, i)
                              \/ TaskLeaseExpires(i) \/ TaskRetryComesDue(i)
      PROVE  SchedInv'
  <2>1. PICK r \in {[task[i] EXCEPT !.lease = "live"], [task[i] EXCEPT !.lease = "expired"],
                    [task[i] EXCEPT !.due = TRUE]} :
          task' = [task EXCEPT ![i] = r] /\ UNCHANGED <<step, finished>>
    BY <1>5 DEF HeartbeatTask, TaskLeaseExpires, TaskRetryComesDue
  <2>4. r \in TaskRow /\ r.state = task[i].state /\ r.owner = task[i].owner
    BY SchedFacts DEF TaskRow
  <2>2. RowKept(i, task[i], finished) /\ (task[i].state = "COMPLETED" => i \in finished)
    BY SchedFacts
  <2>3. RowKept(i, r, finished)
    BY <2>2, <2>4 DEF RowKept
  <2> QED BY <2>1, <2>2, <2>3, <2>4, RowChange
<1>6. ASSUME NEW w \in TaskWorkers, NEW i \in Tasks, ScheduleOnce(w, i)  PROVE SchedInv'
  <2> DEFINE r == Leased(i, w)
  <2>1. /\ task' = [task EXCEPT ![i] = r] /\ UNCHANGED <<step, finished>>
        /\ task[i].state \in {"READY", "RECOVERING"} /\ task[i] \in TaskRow
        /\ RowKept(i, task[i], finished)
    BY <1>6, SchedFacts DEF ScheduleOnce, CLAIMABLE_STATES
  <2>2. r \in TaskRow /\ r.state = "ASSIGNED"
    BY <2>1 DEF Leased, TaskRow, TaskState, Executing
  <2> HIDE DEF r
  <2>3. RowKept(i, r, finished)
    BY <2>1, <2>2 DEF RowKept, Unstarted
  <2> QED BY <2>1, <2>2, <2>3, RowChange
<1>7. ASSUME NEW w \in TaskWorkers, NEW i \in Tasks, Execute(w, i)  PROVE SchedInv'
  BY <1>7, ExecuteKeeps
<1> QED BY <1>1, <1>2, <1>3, <1>4, <1>5, <1>6, <1>7 DEF SchedNext

LEMMA SchedInitInv == SchedInit => SchedInv
<1> SUFFICES ASSUME SchedInit  PROVE SchedInv
  OBVIOUS
<1>1. \A i \in Tasks : task[i] = NewTask
  BY DEF SchedInit
<1>2. \A t \in SchedThreads : step[t] = NoStep
  BY DEF SchedInit
<1>3. SchedTypeOK
  BY NoTask DEF SchedInit, SchedTypeOK
<1>4. Known = {}
  BY <1>1, NoTask DEF Known
<1>5. NoDeadlockAdmitted
  BY <1>4 DEF NoDeadlockAdmitted, Cyclic
<1>6. \A i \in Tasks : RowKept(i, task[i], finished) /\ task[i].state # "COMPLETED"
  BY <1>1, NoTask DEF RowKept, Unstarted
<1>7. \A t \in SchedThreads : CallKept(step[t], finished, Known)
  BY <1>2, NoTask DEF CallKept
<1> QED BY <1>3, <1>4, <1>5, <1>6, <1>7 DEF SchedInv

\* A write under way of a settled task would unsettle it, and none is begun.
LEMMA TaskEndsStay ==
  SchedInv /\ [SchedNext]_schedVars => [\A i \in Tasks : TaskSettled(i) => TaskSettled(i)']_schedVars
<1> SUFFICES ASSUME SchedInv, SchedNext, NEW i \in Tasks, TaskSettled(i)  PROVE TaskSettled(i)'
  BY DEF schedVars
<1>1. /\ task \in [Tasks -> TaskRow] /\ step \in [SchedThreads -> TaskStep]
      /\ task[i].state \in TERMINAL_TASK_STATES
      /\ \A t \in SchedThreads : ~ (step[t].pc = "save" /\ step[t].task = i)
  BY DEF SchedInv, SchedTypeOK, TaskSettled, Ended
<1>2. SUFFICES /\ task'[i].state = task[i].state
               /\ \A t \in SchedThreads : ~ (step'[t].pc = "save" /\ step'[t].task = i)
  BY <1>1 DEF TaskSettled, Ended
<1>a. Refreshing.pc = "refresh" /\ NoStep.pc = "idle"
  BY DEF Refreshing, NoStep
<1>3. ASSUME NEW t \in SchedThreads, SchedProceed(t)  PROVE <1>2!1
  <2>1. CASE SaveTask(t)
    BY <1>1, <1>a, <2>1 DEF SaveTask
  <2>2. CASE ApplyVerdict(t)
    <3>1. step' = [step EXCEPT ![t] = IF step[t].todo = {step[t].task} THEN NoStep
                                 ELSE [Refreshing EXCEPT !.todo = step[t].todo \ {step[t].task}]]
      BY <2>2 DEF ApplyVerdict
    <3>2. [Refreshing EXCEPT !.todo = step[t].todo \ {step[t].task}].pc = "refresh"
      BY DEF Refreshing, NoStep
    <3>3. step'[t].pc # "save" /\ \A u \in SchedThreads \ {t} : step'[u] = step[u]
      BY <1>1, <1>a, <3>1, <3>2
    <3>4. task' = [task EXCEPT ![step[t].task] = Applied(task[step[t].task], step[t].verdict)]
      BY <2>2 DEF ApplyVerdict
    <3>5. Applied(task[i], step[t].verdict).state = task[i].state
      BY <1>1 DEF Applied, TERMINAL_TASK_STATES, Unrefreshed
    <3> QED BY <1>1, <3>3, <3>4, <3>5
  <2>3. CASE \E k \in Tasks : ReadVerdict(t, k)
    <3>1. task' = task /\ step'[t].pc # "save" /\ \A u \in SchedThreads \ {t} : step'[u] = step[u]
      <4>1. PICK k \in Tasks : ReadVerdict(t, k)
        BY <2>3
      <4>2. step[t].pc = "refresh" /\ step[t] \in TaskStep
        BY <1>1, <4>1 DEF ReadVerdict
      <4>3. [step[t] EXCEPT !.pc = "apply", !.task = k, !.verdict = Verdict(k)].pc = "apply"
        BY <4>2 DEF TaskStep
      <4>4. [step[t] EXCEPT !.todo = step[t].todo \ {k}].pc = "refresh"
        BY <4>2 DEF TaskStep
      <4> QED BY <1>1, <1>a, <4>1, <4>3, <4>4 DEF ReadVerdict
    <3> QED BY <1>1, <3>1
  <2> QED BY <1>3, <2>1, <2>2, <2>3 DEF SchedProceed
<1>4. ASSUME NEW t \in TaskOperators, \E P \in Plans : Submit(t, P)  PROVE <1>2!1
  <2>1. PICK P \in Plans : Submit(t, P)
    BY <1>4
  <2>2. i \notin P
    BY <1>1, <2>1 DEF Submit, Known, TERMINAL_TASK_STATES
  <2>3. [Refreshing EXCEPT !.todo = Known \cup P].pc = "refresh"
    BY DEF Refreshing, NoStep
  <2> QED BY <1>1, <2>1, <2>2, <2>3 DEF Submit, SchedThreads
<1>5. ASSUME NEW t \in TaskOperators, NEW k \in Tasks, Operate(t, k)  PROVE <1>2!1
  <2>1. CASE RecoverTask(t, k)
    <3>1. k # i
      BY <1>1, <2>1 DEF RecoverTask, Executing, TERMINAL_TASK_STATES
    <3> QED BY <1>1, <1>a, <2>1, <3>1 DEF RecoverTask, SchedThreads
  <2>2. CASE UnblockExternal(t, k) \/ Preempt(t, k) \/ CancelTask(t, k)
    <3>1. PICK r : Order(t, k, r)
      BY <2>2 DEF UnblockExternal, Preempt, CancelTask
    <3>2. k # i
      BY <1>1, <2>2 DEF UnblockExternal, Preempt, CancelTask, Ended, Executing, TERMINAL_TASK_STATES
    <3>3. [NoStep EXCEPT !.pc = "save", !.task = k, !.row = r].task = k
      BY DEF NoStep
    <3> QED BY <1>1, <3>1, <3>2, <3>3 DEF Order, WriteTask, SchedThreads
  <2> QED BY <1>5, <2>1, <2>2 DEF Operate
<1>6. ASSUME NEW w \in TaskWorkers, BeginRefresh(w)  PROVE <1>2!1
  BY <1>1, <1>6, <1>a DEF BeginRefresh, SchedThreads
<1>7. ASSUME NEW w \in TaskWorkers, NEW k \in Tasks, ScheduleOnce(w, k)  PROVE <1>2!1
  <2>1. k # i
    BY <1>1, <1>7 DEF ScheduleOnce, CLAIMABLE_STATES, TERMINAL_TASK_STATES
  <2> QED BY <1>1, <1>7, <2>1 DEF ScheduleOnce
<1>8. ASSUME NEW w \in TaskWorkers, NEW k \in Tasks, Execute(w, k)  PROVE <1>2!1
  <2>1. MayUse(w, k)
    BY <1>8 DEF Execute, StartTask, CompleteTask, FailTask, RetryTask, BlockExternal, Use
  <2>2. PICK r : Use(w, k, r)
    BY <1>8 DEF Execute, StartTask, CompleteTask, FailTask, RetryTask, BlockExternal
  <2>3. k # i
    BY <1>1, <2>1 DEF MayUse, Ended, CLAIMABLE_STATES, TERMINAL_TASK_STATES
  <2>4. [NoStep EXCEPT !.pc = "save", !.task = k, !.row = r].task = k
    BY DEF NoStep
  <2> QED BY <1>1, <2>2, <2>3, <2>4 DEF Use, WriteTask, SchedThreads
<1>9. ASSUME NEW k \in Tasks, \/ \E w \in TaskWorkers : HeartbeatTask(w, k)
                              \/ TaskLeaseExpires(k) \/ TaskRetryComesDue(k)
      PROVE  <1>2!1
  <2>1. PICK r \in {[task[k] EXCEPT !.lease = "live"], [task[k] EXCEPT !.lease = "expired"],
                    [task[k] EXCEPT !.due = TRUE]} :
          step' = step /\ task' = [task EXCEPT ![k] = r]
    BY <1>9 DEF HeartbeatTask, TaskLeaseExpires, TaskRetryComesDue
  <2>2. r.state = task[k].state
    BY <1>1, <2>1 DEF TaskRow
  <2> QED BY <1>1, <2>1, <2>2
<1> QED BY <1>3, <1>4, <1>5, <1>6, <1>7, <1>8, <1>9 DEF SchedNext

-----------------------------------------------------------------------------
(* Supervisor.                                                             *)

\* Owner and lease come and go together, and a job that counts as claimed or
\* running has both: so it is of the table, and of every snapshot that some call
\* still has to write, which is why no stale write can orphan a job.
OwnedRow(r) ==
  /\ r \in JobRow
  /\ r.owner # "nobody" <=> r.lease # "none"
  /\ r.state \in {"CLAIMED", "RUNNING"} => r.owner # "nobody"

\* complete_step is about one job.
CallOK(c) ==
  /\ c \in JobCall
  /\ c.jobs = {} <=> c.pc = "idle"
  /\ \A j \in Jobs : OwnedRow(c.rows[j])
  /\ c.pc \in {"require", "insert"} => \E j \in Jobs : c.jobs = {j}

SupInv ==
  /\ SupTypeOK
  /\ \A j \in Jobs : OwnedRow(job[j])
  /\ \A w \in JobWorkers : CallOK(call[w])

LEMMA OwnedRows ==
  ASSUME NEW r, OwnedRow(r)
  PROVE  /\ \A st \in JobState \ {"CLAIMED", "RUNNING"} : OwnedRow([r EXCEPT !.state = st])
         /\ \A b \in BOOLEAN : OwnedRow([r EXCEPT !.pause = b])
         /\ \A d \in {"none", "later", "due"} : OwnedRow([r EXCEPT !.retryAt = d])
         /\ \A n \in 0..JobRetries : OwnedRow([r EXCEPT !.retries = n])
  BY DEF OwnedRow, JobRow

LEMMA UnleasedRow ==
  ASSUME NEW r, OwnedRow(r), NEW st \in JobState \ {"CLAIMED", "RUNNING"}
  PROVE  OwnedRow(Unleased(r, st)) /\ Unleased(r, st).retries = r.retries
  BY DEF OwnedRow, JobRow, Unleased

LEMMA JobStates ==
  /\ {"ABSENT", "QUEUED", "CLAIMED", "RUNNING", "PAUSED", "RECOVERING", "BLOCKED_EXTERNAL",
      "FAILED", "CANCELLED", "PASS"} = JobState
  BY DEF JobState, TERMINAL_STATES

LEMMA NewJobOwned == OwnedRow(NewJob) /\ CallOK(NoCall) /\ NoCall.rows = [j \in Jobs |-> NewJob]
<1>1. OwnedRow(NewJob)
  BY SupervisorAssumption, JobStates DEF OwnedRow, NewJob, JobRow
<1>2. NewJob \in JobRow
  BY <1>1 DEF OwnedRow
<1> QED BY <1>1, <1>2 DEF CallOK, NoCall, JobCall

LEMMA JobWritten ==
  ASSUME SupInv, NEW j \in Jobs, NEW r, OwnedRow(r), job' = [job EXCEPT ![j] = r],
         UNCHANGED <<latest, call, mode>>
  PROVE  SupInv'
<1>1. r \in JobRow
  BY DEF OwnedRow
<1>2. SupTypeOK'
  BY <1>1 DEF SupInv, SupTypeOK
<1>3. \A k \in Jobs : OwnedRow(job'[k])
  BY DEF SupInv, SupTypeOK
<1> QED BY <1>2, <1>3 DEF SupInv

LEMMA CallBegun ==
  ASSUME SupInv, NEW w \in JobWorkers, NEW c, CallOK(c), call' = [call EXCEPT ![w] = c],
         UNCHANGED job, latest' \in [Jobs -> ActionKeys \cup {"nothing"}],
         mode' \in [JobWorkers -> {"open", "closed", "dead"}]
  PROVE  SupInv'
<1>1. c \in JobCall /\ (c.jobs = {} <=> c.pc = "idle")
  BY DEF CallOK
<1>2. SupTypeOK'
  BY <1>1 DEF SupInv, SupTypeOK
<1>3. \A v \in JobWorkers : CallOK(call'[v])
  BY DEF SupInv, SupTypeOK
<1> QED BY <1>2, <1>3 DEF SupInv

LEMMA WriteLaterKeeps ==
  ASSUME SupInv, NEW w \in JobWorkers, NEW S \in SUBSET Jobs, S # {}, NEW rows,
         rows \in [Jobs -> JobRow], \A j \in Jobs : OwnedRow(rows[j]), WriteLater(w, S, rows)
  PROVE  SupInv'
<1> DEFINE c == [NoCall EXCEPT !.pc = "save", !.jobs = S, !.rows = rows]
<1>1. CallOK(c)
  BY DEF CallOK, NoCall, JobCall
<1>2. call' = [call EXCEPT ![w] = c] /\ UNCHANGED <<job, latest, mode>>
  BY DEF WriteLater
<1> HIDE DEF c
<1> QED BY <1>1, <1>2, CallBegun DEF SupInv, SupTypeOK

LEMMA WriteOneKeeps ==
  ASSUME SupInv, NEW w \in JobWorkers, NEW j \in Jobs, NEW r, OwnedRow(r), WriteOneLater(w, j, r)
  PROVE  SupInv'
<1> DEFINE rows == [NoCall.rows EXCEPT ![j] = r]
<1>1. rows \in [Jobs -> JobRow] /\ \A k \in Jobs : OwnedRow(rows[k])
  BY NewJobOwned DEF OwnedRow
<1>2. WriteLater(w, {j}, rows)
  BY DEF WriteOneLater
<1> HIDE DEF rows
<1> QED BY <1>1, <1>2, WriteLaterKeeps

LEMMA TransactionKeeps ==
  ASSUME SupInv, NEW j \in Jobs,
         \/ CreateJob(j) \/ RowLeaseExpires(j) \/ RetryComesDue(j)
         \/ \E w \in JobWorkers : Claim(w, j) \/ Heartbeat(w, j)
  PROVE  SupInv'
<1>1. OwnedRow(job[j])
  BY DEF SupInv
<1>2. CASE CreateJob(j)
  <2>1. job' = [job EXCEPT ![j] = [job[j] EXCEPT !.state = "QUEUED"]] /\ UNCHANGED <<latest, call, mode>>
    BY <1>2 DEF CreateJob
  <2>2. OwnedRow([job[j] EXCEPT !.state = "QUEUED"])
    BY <1>1, OwnedRows, JobStates
  <2> QED BY <2>1, <2>2, JobWritten
<1>3. CASE RowLeaseExpires(j) \/ \E w \in JobWorkers : Heartbeat(w, j)
  <2>1. PICK l \in {"live", "expired"} : /\ job' = [job EXCEPT ![j] = [job[j] EXCEPT !.lease = l]]
                                        /\ (job[j].lease # "none" \/ job[j].owner # "nobody")
                                        /\ UNCHANGED <<latest, call, mode>>
    BY <1>1, <1>3, SupervisorAssumption DEF RowLeaseExpires, Heartbeat
  <2> DEFINE r == [job[j] EXCEPT !.lease = l]
  <2>2. OwnedRow(r)
    BY <1>1, <2>1 DEF OwnedRow, JobRow
  <2>3. job' = [job EXCEPT ![j] = r] /\ UNCHANGED <<latest, call, mode>>
    BY <2>1
  <2> HIDE DEF r
  <2> QED BY <2>2, <2>3, JobWritten
<1>4. CASE RetryComesDue(j)
  <2>1. job' = [job EXCEPT ![j] = [job[j] EXCEPT !.retryAt = "due"]] /\ UNCHANGED <<latest, call, mode>>
    BY <1>4 DEF RetryComesDue
  <2>2. OwnedRow([job[j] EXCEPT !.retryAt = "due"])
    BY <1>1, OwnedRows
  <2> QED BY <2>1, <2>2, JobWritten
<1>5. ASSUME NEW w \in JobWorkers, Claim(w, j)  PROVE SupInv'
  <2> DEFINE st == IF job[j].state \in Waiting \/ job[j].lease = "expired" THEN "CLAIMED"
                   ELSE job[j].state
             r == [job[j] EXCEPT !.state = st, !.owner = w, !.lease = "live"]
  <2>1. job' = [job EXCEPT ![j] = r] /\ UNCHANGED <<latest, call, mode>>
    BY <1>5 DEF Claim
  <2>2. st \in JobState
    BY <1>1, JobStates DEF OwnedRow, JobRow
  <2> HIDE DEF st
  <2>3. OwnedRow(r)
    BY <1>1, <2>2, SupervisorAssumption DEF OwnedRow, JobRow
  <2> HIDE DEF r
  <2> QED BY <2>1, <2>3, JobWritten
<1> QED BY <1>2, <1>3, <1>4, <1>5

LEMMA ClaimNextKeeps ==
  ASSUME SupInv, NEW w \in JobWorkers, ClaimNext(w)
  PROVE  SupInv'
<1> DEFINE st(j) == IF job[j].state \in Waiting \/ job[j].retryAt = "due" THEN "CLAIMED"
                    ELSE job[j].state
           r(j) == [job[j] EXCEPT !.state = st(j), !.owner = w, !.lease = "live", !.retryAt = "none"]
<1>1. PICK j \in Candidates : job' = [job EXCEPT ![j] = r(j)] /\ UNCHANGED <<latest, call, mode>>
  BY DEF ClaimNext
<1>2. j \in Jobs /\ OwnedRow(job[j]) /\ w # "nobody"
  BY <1>1, SupervisorAssumption DEF SupInv, Candidates
<1>3. st(j) \in JobState
  BY <1>2, JobStates DEF OwnedRow, JobRow
<1> HIDE DEF st
<1>4. OwnedRow(r(j))
  BY <1>2, <1>3 DEF OwnedRow, JobRow
<1> HIDE DEF r
<1> QED BY <1>1, <1>2, <1>4, JobWritten

LEMMA WorkKeeps ==
  ASSUME SupInv, NEW w \in JobWorkers, Work(w)
  PROVE  SupInv'
<1>1. PICK j \in Jobs : \/ MarkRunning(w, j) \/ PassJob(w, j) \/ RetryJob(w, j)
                       \/ FailJob(w, j) \/ BlockOnProvider(w, j)
                       \/ \E key \in ActionKeys \cup {"nothing"} : CompleteStep(w, j, key)
  BY DEF Work
<1>2. OwnedRow(job[j])
  BY DEF SupInv
<1>3. CASE MarkRunning(w, j)
  <2>1. WriteOneLater(w, j, [job[j] EXCEPT !.state = "RUNNING"]) /\ job[j].owner = w /\ w # "nobody"
    BY <1>3, SupervisorAssumption DEF MarkRunning, HasLease
  <2>2. OwnedRow([job[j] EXCEPT !.state = "RUNNING"])
    BY <1>2, <2>1, JobStates DEF OwnedRow, JobRow
  <2> QED BY <2>1, <2>2, WriteOneKeeps
<1>4. CASE PassJob(w, j) \/ FailJob(w, j)
  <2>1. PICK st \in {"PASS", "FAILED"} : WriteOneLater(w, j, Unleased(job[j], st))
    BY <1>4 DEF PassJob, FailJob
  <2>2. OwnedRow(Unleased(job[j], st))
    BY <1>2, UnleasedRow, JobStates
  <2> QED BY <2>1, <2>2, WriteOneKeeps
<1>5. CASE RetryJob(w, j)
  <2> DEFINE q == Unleased(job[j], "QUEUED")
             p == [q EXCEPT !.retries = q.retries + 1]
             r == [p EXCEPT !.retryAt = "later"]
  <2>1. WriteOneLater(w, j, r) /\ job[j].retries < JobRetries
    BY <1>5 DEF RetryJob
  <2>2. OwnedRow(q) /\ q.retries = job[j].retries
    BY <1>2, UnleasedRow, JobStates
  <2> HIDE DEF q
  <2>3. q.retries + 1 \in 0..JobRetries
    BY <2>1, <2>2, SupervisorAssumption DEF OwnedRow, JobRow
  <2>4. OwnedRow(p)
    BY <2>2, <2>3, OwnedRows
  <2> HIDE DEF p
  <2>5. OwnedRow(r)
    BY <2>4, OwnedRows
  <2> HIDE DEF r
  <2> QED BY <2>1, <2>5, WriteOneKeeps
<1>6. CASE BlockOnProvider(w, j)
  <2>1. WriteOneLater(w, j, [job[j] EXCEPT !.state = "BLOCKED_EXTERNAL"])
    BY <1>6 DEF BlockOnProvider
  <2>2. OwnedRow([job[j] EXCEPT !.state = "BLOCKED_EXTERNAL"])
    BY <1>2, OwnedRows, JobStates
  <2> QED BY <2>1, <2>2, WriteOneKeeps
<1>7. CASE \E key \in ActionKeys \cup {"nothing"} : CompleteStep(w, j, key)
  <2>1. PICK key \in ActionKeys \cup {"nothing"} : CompleteStep(w, j, key)
    BY <1>7
  <2> DEFINE c == [NoCall EXCEPT !.pc = "require", !.key = key, !.jobs = {j}]
  <2>2. CallOK(c)
    BY NewJobOwned DEF CallOK, NoCall, JobCall
  <2>3. call' = [call EXCEPT ![w] = c] /\ UNCHANGED <<job, latest, mode>>
    BY <2>1 DEF CompleteStep
  <2> HIDE DEF c
  <2> QED BY <2>2, <2>3, CallBegun DEF SupInv, SupTypeOK
<1> QED BY <1>1, <1>3, <1>4, <1>5, <1>6, <1>7

LEMMA ControlKeeps ==
  ASSUME SupInv, NEW w \in JobWorkers, Control(w)
  PROVE  SupInv'
<1>1. \A j \in Jobs : OwnedRow(job[j])
  BY DEF SupInv
<1>2. ASSUME NEW j \in Jobs, Pause(w, j)  PROVE SupInv'
  <2> DEFINE p == [job[j] EXCEPT !.pause = TRUE]
             r == [p EXCEPT !.state = IF p.state \in {"QUEUED", "CLAIMED", "RUNNING"}
                                      THEN "PAUSED" ELSE p.state]
  <2>1. WriteOneLater(w, j, r)
    BY <1>1, <1>2 DEF Pause, OwnedRow, JobRow
  <2>2. OwnedRow(p)
    BY <1>1, OwnedRows
  <2> HIDE DEF p
  <2>3. OwnedRow(r)
    BY <2>2, OwnedRows, JobStates DEF OwnedRow, JobRow
  <2> HIDE DEF r
  <2> QED BY <2>1, <2>3, WriteOneKeeps
<1>3. ASSUME NEW j \in Jobs, Resume(w, j)  PROVE SupInv'
  <2> DEFINE p == [job[j] EXCEPT !.pause = FALSE]
             q == [p EXCEPT !.state = "RECOVERING"]
             r == [q EXCEPT !.retryAt = "none"]
  <2>1. WriteOneLater(w, j, r)
    BY <1>3 DEF Resume
  <2>2. OwnedRow(p)
    BY <1>1, OwnedRows
  <2> HIDE DEF p
  <2>3. OwnedRow(q)
    BY <2>2, OwnedRows, JobStates
  <2> HIDE DEF q
  <2>4. OwnedRow(r)
    BY <2>3, OwnedRows
  <2> HIDE DEF r
  <2> QED BY <2>1, <2>4, WriteOneKeeps
<1>4. ASSUME NEW j \in Jobs, Cancel(w, j)  PROVE SupInv'
  <2>1. WriteOneLater(w, j, Unleased(job[j], "CANCELLED"))
    BY <1>4 DEF Cancel
  <2>2. OwnedRow(Unleased(job[j], "CANCELLED"))
    BY <1>1, UnleasedRow, JobStates
  <2> QED BY <2>1, <2>2, WriteOneKeeps
<1>5. CASE Recover(w)
  <2>1. PICK S \in SUBSET Jobs : S # {} /\ WriteLater(w, S,
          [j \in Jobs |-> IF j \in S THEN Unleased(job[j], "RECOVERING") ELSE NewJob])
    BY <1>5 DEF Recover
  <2> DEFINE rows == [j \in Jobs |-> IF j \in S THEN Unleased(job[j], "RECOVERING") ELSE NewJob]
  <2>2. \A j \in Jobs : OwnedRow(rows[j])
    BY <1>1, UnleasedRow, JobStates, NewJobOwned
  <2>3. rows \in [Jobs -> JobRow]
    BY <2>2 DEF OwnedRow
  <2> HIDE DEF rows
  <2> QED BY <2>1, <2>2, <2>3, WriteLaterKeeps DEF rows
<1> QED BY <1>2, <1>3, <1>4, <1>5 DEF Control

LEMMA ProceedKeeps ==
  ASSUME SupInv, NEW w \in JobWorkers, Proceed(w)
  PROVE  SupInv'
<1>1. /\ CallOK(call[w]) /\ call \in [JobWorkers -> JobCall] /\ call[w] \in JobCall
      /\ \A j \in Jobs : OwnedRow(job[j]) /\ OwnedRow(call[w].rows[j])
  BY DEF SupInv, SupTypeOK, CallOK
<1>2. ASSUME NEW j \in Jobs, Save(w, j)  PROVE SupInv'
  <2> DEFINE c == IF call[w].jobs = {j} THEN NoCall
                  ELSE [call[w] EXCEPT !.jobs = call[w].jobs \ {j}, !.rows[j] = NewJob]
             r == call[w].rows[j]
  <2>1. CallOK(c)
    <3>1. CASE call[w].jobs = {j}
      BY <3>1, NewJobOwned
    <3>2. CASE call[w].jobs # {j}
      <4>1. call[w].pc = "save" /\ j \in call[w].jobs /\ NewJob \in JobRow
        BY <1>2, NewJobOwned DEF Save, OwnedRow
      <4>2. CallOK([call[w] EXCEPT !.jobs = call[w].jobs \ {j}, !.rows[j] = NewJob])
        BY <1>1, <3>2, <4>1, NewJobOwned DEF CallOK, JobCall
      <4> QED BY <3>2, <4>2
    <3> QED BY <3>1, <3>2
  <2>2. job' = [job EXCEPT ![j] = r] /\ call' = [call EXCEPT ![w] = c] /\ UNCHANGED <<latest, mode>>
    BY <1>2 DEF Save
  <2> HIDE DEF c, r
  <2>3. c \in JobCall /\ (c.jobs = {} <=> c.pc = "idle") /\ OwnedRow(r) /\ r \in JobRow
    BY <1>1, <2>1 DEF CallOK, OwnedRow, r
  <2>4. SupTypeOK'
    BY <2>2, <2>3 DEF SupInv, SupTypeOK
  <2>5. /\ \A k \in Jobs : OwnedRow(job'[k])
        /\ \A v \in JobWorkers : CallOK(call'[v])
    BY <2>1, <2>2, <2>3 DEF SupInv, SupTypeOK
  <2> QED BY <2>4, <2>5 DEF SupInv
<1>3. ASSUME NEW j \in Jobs, RequireLease(w, j)  PROVE SupInv'
  <2>1. CallOK([call[w] EXCEPT !.pc = "insert", !.rows[j] = job[j]])
    <3>1. call[w].pc = "require" /\ job[j] \in JobRow
      BY <1>1, <1>3 DEF RequireLease, OwnedRow
    <3> QED BY <1>1, <3>1 DEF CallOK, JobCall
  <2>2. PICK c \in {NoCall, [call[w] EXCEPT !.pc = "insert", !.rows[j] = job[j]]} :
          call' = [call EXCEPT ![w] = c] /\ UNCHANGED <<job, latest, mode>>
    BY <1>3 DEF RequireLease
  <2>3. CallOK(c)
    BY <2>1, <2>2, NewJobOwned
  <2> QED BY <2>2, <2>3, CallBegun DEF SupInv, SupTypeOK
<1>4. ASSUME NEW j \in Jobs, SaveCheckpoint(w, j)  PROVE SupInv'
  <2> DEFINE c == [call[w] EXCEPT !.pc = "save", !.key = "nothing"]
  <2>1. call[w].pc = "insert"
    BY <1>4 DEF SaveCheckpoint
  <2>2. CallOK(c)
    BY <1>1, <2>1 DEF CallOK, JobCall
  <2>3. /\ call' = [call EXCEPT ![w] = c] /\ UNCHANGED <<job, mode>>
        /\ latest' = [latest EXCEPT ![j] = call[w].key] /\ call[w].key \in ActionKeys \cup {"nothing"}
    BY <1>1, <1>4 DEF SaveCheckpoint, JobCall
  <2> HIDE DEF c
  <2> QED BY <2>2, <2>3, CallBegun DEF SupInv, SupTypeOK
<1> QED BY <1>2, <1>3, <1>4 DEF Proceed

LEMMA SupStep == SupInv /\ [SupNext]_supVars => SupInv'
<1> SUFFICES ASSUME SupInv, [SupNext]_supVars  PROVE SupInv'
  OBVIOUS
<1>1. CASE UNCHANGED supVars
  BY <1>1 DEF supVars, SupInv, SupTypeOK
<1>2. ASSUME NEW w \in JobWorkers, ClaimNext(w) \/ Work(w) \/ Proceed(w)  PROVE SupInv'
  BY <1>2, ClaimNextKeeps, WorkKeeps, ProceedKeeps
<1>3. ASSUME NEW w \in JobWorkers, NEW j \in Jobs, Claim(w, j) \/ Heartbeat(w, j)  PROVE SupInv'
  BY <1>3, TransactionKeeps
<1>4. ASSUME NEW w \in JobWorkers, Shutdown(w) \/ Die(w)  PROVE SupInv'
  <2>1. PICK c \in {call[w], NoCall} : /\ call' = [call EXCEPT ![w] = c] /\ UNCHANGED <<job, latest>>
                                      /\ mode' \in [JobWorkers -> {"open", "closed", "dead"}]
    BY <1>4 DEF Shutdown, Die, SupInv, SupTypeOK
  <2>2. CallOK(c)
    BY <2>1, NewJobOwned DEF SupInv
  <2> QED BY <2>1, <2>2, CallBegun DEF SupInv, SupTypeOK
<1>5. ASSUME NEW w \in JobOperators, Control(w)  PROVE SupInv'
  BY <1>5, ControlKeeps, SupervisorAssumption
<1>6. ASSUME NEW j \in Jobs, CreateJob(j) \/ RowLeaseExpires(j) \/ RetryComesDue(j)  PROVE SupInv'
  BY <1>6, TransactionKeeps
<1> QED BY <1>1, <1>2, <1>3, <1>4, <1>5, <1>6 DEF SupNext

LEMMA SupInitInv == SupInit => SupInv
<1> SUFFICES ASSUME SupInit  PROVE SupInv
  OBVIOUS
<1>1. NewJob \in JobRow /\ NoCall \in JobCall /\ (NoCall.jobs = {} <=> NoCall.pc = "idle")
  BY NewJobOwned DEF OwnedRow, CallOK
<1>2. SupTypeOK
  BY <1>1 DEF SupInit, SupTypeOK
<1> QED BY <1>2, NewJobOwned DEF SupInit, SupInv

\* A settled job is active for nobody, so no call begins to write it; complete_step
\* finds the lease gone before it could.
LEMMA JobEndsStay ==
  SupInv /\ [SupNext]_supVars => [\A j \in Jobs : Settled(j) => Settled(j)']_supVars
<1> SUFFICES ASSUME SupInv, SupNext, NEW j \in Jobs, Settled(j)  PROVE Settled(j)'
  BY DEF supVars
<1>1. /\ job \in [Jobs -> JobRow] /\ call \in [JobWorkers -> JobCall]
      /\ job[j].state \in TERMINAL_STATES /\ ~Active(j)
      /\ \A w \in JobWorkers : j \in call[w].jobs => call[w].pc = "require"
      /\ \A w \in JobWorkers : CallOK(call[w])
  BY DEF SupInv, SupTypeOK, Settled, Active
<1>2. SUFFICES /\ job'[j].state = job[j].state
               /\ \A w \in JobWorkers : j \in call'[w].jobs => call'[w].pc = "require"
  BY <1>1 DEF Settled
<1>3. NoCall.jobs = {}
  BY DEF NoCall
<1>4. ASSUME NEW w \in JobWorkers, NEW S \in SUBSET Jobs, NEW rows, j \notin S, WriteLater(w, S, rows)
      PROVE  <1>2!1
  <2>1. [NoCall EXCEPT !.pc = "save", !.jobs = S, !.rows = rows].jobs = S
    BY DEF NoCall
  <2> QED BY <1>1, <1>4, <2>1 DEF WriteLater
<1>5. ASSUME NEW w \in JobWorkers, NEW k \in Jobs, NEW r, k # j, WriteOneLater(w, k, r)
      PROVE  <1>2!1
  BY <1>4, <1>5 DEF WriteOneLater
<1>6. ASSUME NEW w \in JobWorkers, Work(w)  PROVE <1>2!1
  <2>1. PICK k \in Jobs : \/ MarkRunning(w, k) \/ PassJob(w, k) \/ RetryJob(w, k)
                         \/ FailJob(w, k) \/ BlockOnProvider(w, k)
                         \/ \E key \in ActionKeys \cup {"nothing"} : CompleteStep(w, k, key)
    BY <1>6 DEF Work
  <2>2. CASE \E key \in ActionKeys \cup {"nothing"} : CompleteStep(w, k, key)
    <3>1. PICK key : CompleteStep(w, k, key)
      BY <2>2
    <3>2. [NoCall EXCEPT !.pc = "require", !.key = key, !.jobs = {k}].pc = "require"
      BY DEF NoCall
    <3> QED BY <1>1, <3>1, <3>2 DEF CompleteStep
  <2>3. CASE \/ MarkRunning(w, k) \/ PassJob(w, k) \/ RetryJob(w, k)
             \/ FailJob(w, k) \/ BlockOnProvider(w, k)
    <3>1. k # j
      BY <1>1, <2>3 DEF MarkRunning, PassJob, RetryJob, FailJob, BlockOnProvider, HasLease
    <3>2. PICK r : WriteOneLater(w, k, r)
      BY <2>3 DEF MarkRunning, PassJob, RetryJob, FailJob, BlockOnProvider
    <3> QED BY <1>5, <3>1, <3>2
  <2> QED BY <2>1, <2>2, <2>3
<1>7. ASSUME NEW w \in JobWorkers, Control(w)  PROVE <1>2!1
  <2>1. ASSUME NEW k \in Jobs, Pause(w, k) \/ Resume(w, k) \/ Cancel(w, k)  PROVE <1>2!1
    <3>1. k # j
      BY <1>1, <2>1 DEF Pause, Resume, Cancel
    <3>2. PICK r : WriteOneLater(w, k, r)
      BY <2>1 DEF Pause, Resume, Cancel
    <3> QED BY <1>5, <3>1, <3>2
  <2>2. CASE Recover(w)
    <3>1. PICK S \in SUBSET Jobs : (\A k \in S : Active(k)) /\ \E rows : WriteLater(w, S, rows)
      BY <2>2 DEF Recover
    <3>2. PICK rows : WriteLater(w, S, rows)
      BY <3>1
    <3>3. j \notin S
      BY <1>1, <3>1
    <3> QED BY <1>4, <3>2, <3>3
  <2> QED BY <1>7, <2>1, <2>2 DEF Control
<1>8. ASSUME NEW w \in JobWorkers, Proceed(w)  PROVE <1>2!1
  <2>1. PICK k \in Jobs : Save(w, k) \/ RequireLease(w, k) \/ SaveCheckpoint(w, k)
    BY <1>8 DEF Proceed
  <2>2. CASE Save(w, k)
    <3>1. k # j /\ call[w] \in JobCall /\ j \notin call[w].jobs
      BY <1>1, <2>2 DEF Save
    <3>2. [call[w] EXCEPT !.jobs = call[w].jobs \ {k}, !.rows[k] = NewJob].jobs = call[w].jobs \ {k}
      BY <3>1 DEF JobCall
    <3> QED BY <1>1, <1>3, <2>2, <3>1, <3>2 DEF Save
  <2>3. CASE RequireLease(w, k)
    <3>1. call[w].jobs = {k} /\ call[w] \in JobCall
      BY <1>1, <2>3 DEF RequireLease, CallOK
    <3>2. CASE k = j
      BY <1>1, <1>3, <2>3, <3>2 DEF RequireLease, HasLease
    <3>3. CASE k # j
      <4>1. [call[w] EXCEPT !.pc = "insert", !.rows[k] = job[k]].jobs = {k}
        BY <3>1 DEF JobCall
      <4> QED BY <1>1, <1>3, <2>3, <3>3, <4>1 DEF RequireLease
    <3> QED BY <3>2, <3>3
  <2>4. CASE SaveCheckpoint(w, k)
    <3>1. call[w] \in JobCall /\ j \notin call[w].jobs
      BY <1>1, <2>4 DEF SaveCheckpoint
    <3>2. [call[w] EXCEPT !.pc = "save", !.key = "nothing"].jobs = call[w].jobs
      BY <3>1 DEF JobCall
    <3>3. call' = [call EXCEPT ![w] = [call[w] EXCEPT !.pc = "save", !.key = "nothing"]] /\ job' = job
      BY <2>4 DEF SaveCheckpoint
    <3> QED BY <1>1, <3>1, <3>2, <3>3
  <2> QED BY <2>1, <2>2, <2>3, <2>4
<1>9. ASSUME NEW w \in JobWorkers, Shutdown(w) \/ Die(w)  PROVE <1>2!1
  BY <1>1, <1>3, <1>9 DEF Shutdown, Die
<1>10. ASSUME NEW w \in JobWorkers, ClaimNext(w) \/ \E k \in Jobs : Claim(w, k)  PROVE <1>2!1
  <2>1. PICK k \in Jobs \ {j} : \E r : job' = [job EXCEPT ![k] = r] /\ call' = call
    BY <1>1, <1>10 DEF ClaimNext, Claim, Candidates
  <2> QED BY <1>1, <2>1
<1>11. ASSUME NEW k \in Jobs, \/ CreateJob(k) \/ RowLeaseExpires(k) \/ RetryComesDue(k)
                              \/ \E w \in JobWorkers : Heartbeat(w, k)
       PROVE  <1>2!1
  <2>1. CASE CreateJob(k)
    <3>1. k # j
      BY <1>1, <2>1 DEF CreateJob, TERMINAL_STATES
    <3> QED BY <1>1, <2>1, <3>1 DEF CreateJob
  <2>2. CASE RowLeaseExpires(k) \/ RetryComesDue(k) \/ \E w \in JobWorkers : Heartbeat(w, k)
    <3>1. PICK r \in {[job[k] EXCEPT !.lease = "expired"], [job[k] EXCEPT !.lease = "live"],
                      [job[k] EXCEPT !.retryAt = "due"]} :
            job' = [job EXCEPT ![k] = r] /\ call' = call
      BY <2>2 DEF RowLeaseExpires, RetryComesDue, Heartbeat
    <3>2. r.state = job[k].state
      BY <1>1, <3>1 DEF JobRow
    <3> QED BY <1>1, <3>1, <3>2
  <2> QED BY <1>11, <2>1, <2>2
<1> QED BY <1>6, <1>7, <1>8, <1>9, <1>10, <1>11, SupervisorAssumption DEF SupNext

-----------------------------------------------------------------------------
(* Remote pool.                                                            *)

\* A node only ever works on finitely many jobs, so that it can report their number.
PoolInv == /\ PoolTypeOK /\ NoJobLost /\ OfflineHoldsNothing
           /\ \A w \in Nodes : IsFiniteSet(working[w])

LEMMA NodeRecords ==
  ASSUME NEW r \in WorkerRecord
  PROVE  /\ r.state \in WorkerState /\ r.used \in 0..Capacity
         /\ \A st \in WorkerState : [r EXCEPT !.state = st] \in WorkerRecord
                                  /\ [r EXCEPT !.state = st].state = st
         /\ \A n \in 0..Capacity : [r EXCEPT !.used = n] \in WorkerRecord
                                 /\ [r EXCEPT !.used = n].state = r.state
         /\ \A b \in BOOLEAN : /\ [r EXCEPT !.stale = b] \in WorkerRecord
                             /\ [r EXCEPT !.stale = b].state = r.state
                             /\ [r EXCEPT !.alive = b] \in WorkerRecord
                             /\ [r EXCEPT !.alive = b].state = r.state
                             /\ [r EXCEPT !.healthy = b] \in WorkerRecord
                             /\ [r EXCEPT !.healthy = b].state = r.state
                             /\ [r EXCEPT !.draining = b] \in WorkerRecord
                             /\ [r EXCEPT !.draining = b].state = r.state
  BY DEF WorkerRecord

LEMMA StateForBack == \A r : StateFor(r) \in WorkerState \ {"OFFLINE"}
  BY DEF StateFor, WorkerState

LEMMA RegisteredRecord == Registered \in WorkerRecord /\ Registered.state = "READY"
  BY RemoteAssumption DEF Registered, WorkerRecord, WorkerState

\* A node changes and is not put offline; the pool's jobs stay where they are.
LEMMA NodeChange ==
  ASSUME PoolInv, NEW w \in Nodes, NEW r \in WorkerRecord,
         r.state = "OFFLINE" => node[w].state = "OFFLINE",
         node' = [node EXCEPT ![w] = r], UNCHANGED <<place, owner, taken>>,
         working' \in [Nodes -> SUBSET RJobs], \A x \in Nodes : IsFiniteSet(working'[x])
  PROVE  PoolInv'
<1>1. PoolTypeOK'
  BY DEF PoolInv, PoolTypeOK
<1>2. NoJobLost'
  BY DEF PoolInv, NoJobLost
<1>3. OfflineHoldsNothing'
  BY DEF PoolInv, PoolTypeOK, OfflineHoldsNothing, Pending
<1> QED BY <1>1, <1>2, <1>3 DEF PoolInv

LEMMA AssignKeeps ==
  ASSUME PoolInv, NEW j \in RJobs, NEW w \in Nodes, Chosen(w), Assign(j, w),
         \/ place[j] = "new" /\ taken' = taken
         \/ j \in taken /\ taken' = taken \ {j}
  PROVE  PoolInv'
<1> DEFINE r == [node[w] EXCEPT !.used = node[w].used + 1]
<1>1. /\ node \in [Nodes -> WorkerRecord] /\ node[w].state = "READY" /\ node[w].used + 1 \in 0..Capacity
  BY RemoteAssumption DEF PoolInv, PoolTypeOK, Chosen, EligibleNode, WorkerRecord
<1>2. r \in WorkerRecord /\ r.state = "READY"
  BY <1>1, NodeRecords
<1>3. node' = [node EXCEPT ![w] = r]
  BY DEF Assign
<1> HIDE DEF r
<1>4. working' \in [Nodes -> SUBSET RJobs]
  BY DEF Assign, PoolInv, PoolTypeOK
<1>5. \A x \in Nodes : IsFiniteSet(working'[x])
  BY FS_AddElement DEF Assign, PoolInv, PoolTypeOK
<1>6. PoolTypeOK'
  BY <1>1, <1>2, <1>3, <1>4, RemoteAssumption DEF Assign, PoolInv, PoolTypeOK
<1>7. NoJobLost'
  BY DEF Assign, PoolInv, PoolTypeOK, NoJobLost
<1>8. OfflineHoldsNothing'
  BY <1>1, <1>2, <1>3 DEF Assign, PoolInv, PoolTypeOK, OfflineHoldsNothing, Pending
<1> QED BY <1>5, <1>6, <1>7, <1>8 DEF PoolInv

LEMMA GoOfflineKeeps ==
  ASSUME PoolInv, NEW w \in Nodes, GoOffline(w), UNCHANGED <<taken, working>>
  PROVE  PoolInv'
<1> DEFINE q == [node[w] EXCEPT !.state = "OFFLINE"]
           r == [q EXCEPT !.used = 0]
<1>0. node[w] \in WorkerRecord /\ "OFFLINE" \in WorkerState
  BY DEF PoolInv, PoolTypeOK, WorkerState
<1>1. q \in WorkerRecord /\ q.state = "OFFLINE"
  BY <1>0, NodeRecords
<1>2. node' = [node EXCEPT ![w] = r]
  BY DEF GoOffline
<1> HIDE DEF q
<1>3. r \in WorkerRecord
  BY <1>1, RemoteAssumption, NodeRecords
<1> HIDE DEF r
<1>4. PoolTypeOK'
  BY <1>2, <1>3 DEF GoOffline, Pending, PoolInv, PoolTypeOK
<1>5. NoJobLost'
  BY DEF GoOffline, Pending, PoolInv, NoJobLost
<1>6. OfflineHoldsNothing'
  BY <1>2 DEF GoOffline, Pending, PoolInv, PoolTypeOK, OfflineHoldsNothing
<1> QED BY <1>4, <1>5, <1>6 DEF PoolInv

LEMMA IntakeKeeps ==
  ASSUME PoolInv, NEW j \in RJobs, Intake(j), UNCHANGED taken,
         working' \in [Nodes -> SUBSET RJobs], \A x \in Nodes : IsFiniteSet(working'[x])
  PROVE  PoolInv'
<1>1. CASE place[j] = "pending"
  <2> DEFINE w == owner[j]
             n == IF node[w].used > 0 THEN node[w].used - 1 ELSE 0
             r == [node[w] EXCEPT !.used = n]
  <2>1. w \in Nodes /\ node \in [Nodes -> WorkerRecord] /\ node[w] \in WorkerRecord
    BY <1>1 DEF PoolInv, PoolTypeOK
  <2>2. n \in 0..Capacity
    BY <2>1, RemoteAssumption DEF WorkerRecord
  <2>3. /\ node' = [node EXCEPT ![w] = r] /\ place' = [place EXCEPT ![j] = "completed"]
        /\ owner' = [owner EXCEPT ![j] = "nobody"]
    BY <1>1 DEF Intake
  <2> HIDE DEF n
  <2>4. r \in WorkerRecord /\ r.state = node[w].state
    BY <2>1, <2>2, NodeRecords
  <2> HIDE DEF r, w
  <2>5. PoolTypeOK'
    BY <2>1, <2>3, <2>4, RemoteAssumption DEF PoolInv, PoolTypeOK
  <2>6. NoJobLost'
    BY <1>1, <2>3 DEF PoolInv, PoolTypeOK, NoJobLost
  <2>7. OfflineHoldsNothing'
    BY <2>1, <2>3, <2>4 DEF PoolInv, PoolTypeOK, OfflineHoldsNothing, Pending
  <2> QED BY <2>5, <2>6, <2>7 DEF PoolInv
<1>2. CASE place[j] # "pending"
  BY <1>2 DEF Intake, PoolInv, PoolTypeOK, NoJobLost, OfflineHoldsNothing, Pending
<1> QED BY <1>1, <1>2

LEMMA NodeStepKeeps ==
  ASSUME PoolInv, NEW w \in Nodes,
         \/ Register(w) \/ Beat(w) \/ Crash(w) \/ GoesStale(w)
         \/ \E on \in BOOLEAN : SetDrain(w, on) \/ SetHealthy(w, on)
  PROVE  PoolInv'
<1>1. /\ node[w] \in WorkerRecord /\ node \in [Nodes -> WorkerRecord]
      /\ working \in [Nodes -> SUBSET RJobs] /\ \A x \in Nodes : IsFiniteSet(working[x])
  BY DEF PoolInv, PoolTypeOK
<1>2. ASSUME NEW r \in WorkerRecord, r.state = "OFFLINE" => node[w].state = "OFFLINE",
             node' = [node EXCEPT ![w] = r], UNCHANGED <<place, owner, taken, working>>
      PROVE  PoolInv'
  BY <1>1, <1>2, NodeChange
<1>3. CASE Register(w)
  BY <1>2, <1>3, RegisteredRecord DEF Register
<1>4. CASE Beat(w)
  <2> DEFINE n == IF Cardinality(working[w]) < Capacity THEN Cardinality(working[w]) ELSE Capacity
             a == [node[w] EXCEPT !.stale = FALSE]
             b == [a EXCEPT !.healthy = TRUE]
             c == [b EXCEPT !.used = n]
             st == StateFor([node[w] EXCEPT !.healthy = TRUE])
             r == [c EXCEPT !.state = st]
  <2>1. node' = [node EXCEPT ![w] = r] /\ UNCHANGED <<place, owner, taken, working>>
    BY <1>4 DEF Beat
  <2>2. n \in 0..Capacity
    BY <1>1, RemoteAssumption, FS_CardinalityType
  <2>3. st \in WorkerState \ {"OFFLINE"}
    BY StateForBack
  <2> HIDE DEF n, st
  <2>4. a \in WorkerRecord
    BY <1>1, NodeRecords
  <2> HIDE DEF a
  <2>5. b \in WorkerRecord
    BY <2>4, NodeRecords
  <2> HIDE DEF b
  <2>6. c \in WorkerRecord
    BY <2>2, <2>5, NodeRecords
  <2> HIDE DEF c
  <2>7. r \in WorkerRecord /\ r.state # "OFFLINE"
    BY <2>3, <2>6, NodeRecords
  <2> HIDE DEF r
  <2> QED BY <1>2, <2>1, <2>7
<1>5. CASE Crash(w) \/ GoesStale(w)
  <2>1. PICK r \in {[node[w] EXCEPT !.alive = FALSE], [node[w] EXCEPT !.stale = TRUE]} :
          /\ node' = [node EXCEPT ![w] = r] /\ UNCHANGED <<place, owner, taken>>
          /\ working' \in {working, [working EXCEPT ![w] = {}]}
    BY <1>5 DEF Crash, GoesStale
  <2>2. r \in WorkerRecord /\ r.state = node[w].state
    BY <1>1, <2>1, NodeRecords
  <2>3. working' \in [Nodes -> SUBSET RJobs] /\ \A x \in Nodes : IsFiniteSet(working'[x])
    BY <1>1, <2>1, FS_EmptySet
  <2> QED BY <2>1, <2>2, <2>3, NodeChange
<1>6. ASSUME NEW on \in BOOLEAN, SetDrain(w, on)  PROVE PoolInv'
  <2> DEFINE a == [node[w] EXCEPT !.draining = on]
             st == IF node[w].state # "OFFLINE" /\ node[w].healthy
                   THEN (IF on THEN "DRAINING" ELSE "READY") ELSE node[w].state
             r == [a EXCEPT !.state = st]
  <2>1. node' = [node EXCEPT ![w] = r] /\ UNCHANGED <<place, owner, taken, working>>
    BY <1>6 DEF SetDrain
  <2>2. st \in WorkerState /\ (st = "OFFLINE" => node[w].state = "OFFLINE")
    BY <1>1, NodeRecords DEF WorkerState
  <2> HIDE DEF st
  <2>3. a \in WorkerRecord
    BY <1>1, NodeRecords
  <2> HIDE DEF a
  <2>4. r \in WorkerRecord /\ r.state = st
    BY <2>2, <2>3, NodeRecords
  <2> HIDE DEF r
  <2> QED BY <1>2, <2>1, <2>2, <2>4
<1>7. ASSUME NEW on \in BOOLEAN, SetHealthy(w, on)  PROVE PoolInv'
  <2> DEFINE a == [node[w] EXCEPT !.healthy = on]
             st == IF ~on \/ node[w].state = "UNHEALTHY" THEN StateFor(a) ELSE node[w].state
             r == [a EXCEPT !.state = st]
  <2>1. node' = [node EXCEPT ![w] = r] /\ UNCHANGED <<place, owner, taken, working>>
    BY <1>7 DEF SetHealthy
  <2>2. st \in WorkerState /\ (st = "OFFLINE" => node[w].state = "OFFLINE")
    BY <1>1, NodeRecords, StateForBack
  <2> HIDE DEF st
  <2>3. a \in WorkerRecord
    BY <1>1, NodeRecords
  <2> HIDE DEF a
  <2>4. r \in WorkerRecord /\ r.state = st
    BY <2>2, <2>3, NodeRecords
  <2> HIDE DEF r
  <2> QED BY <1>2, <2>1, <2>2, <2>4
<1> QED BY <1>3, <1>4, <1>5, <1>6, <1>7

LEMMA AnswerKeeps ==
  ASSUME PoolInv, NEW w \in Nodes, NEW j \in RJobs, NEW heard \in BOOLEAN, Answer(w, j, heard)
  PROVE  PoolInv'
<1>1. working' \in [Nodes -> SUBSET RJobs] /\ \A x \in Nodes : IsFiniteSet(working'[x])
  BY FS_RemoveElement DEF Answer, PoolInv, PoolTypeOK
<1> QED BY <1>1, IntakeKeeps DEF Answer

LEMMA ReassignKeeps ==
  ASSUME PoolInv, NEW j \in RJobs, SubmitJob(j) \/ Reassign(j)
  PROVE  PoolInv'
<1>1. CASE SubmitJob(j)
  BY <1>1, AssignKeeps DEF SubmitJob
<1>2. CASE Reassign(j) /\ \E w \in Nodes : EligibleNode(w)
  BY <1>2, AssignKeeps DEF Reassign
<1>3. CASE Reassign(j) /\ ~ \E w \in Nodes : EligibleNode(w)
  <2>1. /\ j \in taken /\ taken' = taken \ {j} /\ place' = [place EXCEPT ![j] = "queued"]
        /\ UNCHANGED <<node, owner, working>>
    BY <1>3 DEF Reassign
  <2> QED BY <2>1 DEF PoolInv, PoolTypeOK, NoJobLost, OfflineHoldsNothing, Pending
<1> QED BY <1>1, <1>2, <1>3

LEMMA PoolStep == PoolInv /\ [PoolNext]_poolVars => PoolInv'
<1> SUFFICES ASSUME PoolInv, [PoolNext]_poolVars  PROVE PoolInv'
  OBVIOUS
<1>1. CASE UNCHANGED poolVars
  BY <1>1 DEF poolVars, PoolInv, PoolTypeOK, NoJobLost, OfflineHoldsNothing, Pending
<1>2. ASSUME NEW w \in Nodes, Disconnect(w) \/ EvictStale(w)  PROVE PoolInv'
  BY <1>2, GoOfflineKeeps DEF Disconnect, EvictStale
<1>3. CASE TakeRequeue
  BY <1>3 DEF TakeRequeue, PoolInv, PoolTypeOK, NoJobLost, OfflineHoldsNothing, Pending
<1> QED BY <1>1, <1>2, <1>3, NodeStepKeeps, AnswerKeeps, ReassignKeeps DEF PoolNext

LEMMA PoolInitInv == PoolInit => PoolInv
<1> SUFFICES ASSUME PoolInit  PROVE PoolInv
  OBVIOUS
<1>1. PoolTypeOK
  BY RegisteredRecord DEF PoolInit, PoolTypeOK
<1>2. NoJobLost
  BY DEF PoolInit, NoJobLost
<1>3. OfflineHoldsNothing
  BY DEF PoolInit, OfflineHoldsNothing, Pending
<1> QED BY <1>1, <1>2, <1>3, FS_EmptySet DEF PoolInit, PoolInv

\* A completed job is neither pending nor queued nor taken, and only such jobs move.
LEMMA AnswersStay ==
  PoolInv /\ [PoolNext]_poolVars
    => [\A j \in RJobs : place[j] = "completed" => place'[j] = "completed"]_poolVars
<1> SUFFICES ASSUME PoolInv, PoolNext, NEW j \in RJobs, place[j] = "completed"
             PROVE  place'[j] = "completed"
  OBVIOUS
<1>1. place \in [RJobs -> {"new", "pending", "queued", "taken", "completed"}] /\ j \notin taken
  BY DEF PoolInv, PoolTypeOK, NoJobLost
<1>2. ASSUME NEW w \in Nodes, \/ Register(w) \/ Beat(w) \/ Crash(w) \/ GoesStale(w)
                             \/ \E on \in BOOLEAN : SetDrain(w, on) \/ SetHealthy(w, on)
      PROVE  place' = place
  BY <1>2 DEF Register, Beat, Crash, GoesStale, SetDrain, SetHealthy
<1>3. ASSUME NEW w \in Nodes, Disconnect(w) \/ EvictStale(w)  PROVE place'[j] = "completed"
  BY <1>1, <1>3 DEF Disconnect, EvictStale, GoOffline, Pending
<1>4. ASSUME NEW w \in Nodes, NEW k \in RJobs, NEW heard \in BOOLEAN, Answer(w, k, heard)
      PROVE  place'[j] = "completed"
  BY <1>1, <1>4 DEF Answer, Intake
<1>5. ASSUME NEW k \in RJobs, SubmitJob(k) \/ Reassign(k)  PROVE place'[j] = "completed"
  BY <1>1, <1>5 DEF SubmitJob, Reassign, Assign
<1>6. CASE TakeRequeue
  BY <1>1, <1>6 DEF TakeRequeue
<1> QED BY <1>2, <1>3, <1>4, <1>5, <1>6 DEF PoolNext

-----------------------------------------------------------------------------
(* Skill execution.                                                        *)

\* While execute() walks the contract, the steps behind it are completed, the one
\* it is at runs or waits, and those before it are pending.
Walked ==
  walker.pc # "done" => \A s \in SkillSteps : stepState[s] =
    IF s < walker.at THEN "completed"
    ELSE IF s = walker.at /\ walker.pc = "step" THEN "running" ELSE "pending"

\* Steps run after what they depend on, which comes before them in the contract: so
\* a rollback, which takes back the end of the contract, keeps what the rest needs.
BuiltOnCompleted ==
  \A s \in SkillSteps : stepState[s] \in {"running", "completed"} =>
    \A d \in needs[s] : d < s /\ stepState[d] = "completed"

SkillInv ==
  /\ needs \in [SkillSteps -> SUBSET SkillSteps]
  /\ stepState \in [SkillSteps -> StepState \ {"skipped"}]
  /\ contract \in [state : ExecutionState \ {"rolling_back"}, number : Nat]
  /\ walker \in [pc : {"new", "check", "paused", "step", "done"}, at : SkillSteps]
  /\ walker.pc = "new" => contract.state = "pending" /\ walker.at = 1
  /\ walker.pc \in {"check", "paused", "step"} => contract.state \in {"running", "paused"}
  /\ walker.pc = "done" => \A s \in SkillSteps : stepState[s] # "running"
  /\ contract.state = "completed" => \A s \in SkillSteps : stepState[s] = "completed"
  /\ Walked /\ BuiltOnCompleted

LEMMA StepNumbers == 1 \in SkillSteps /\ \A s \in SkillSteps : s \in Nat /\ 1 <= s
  BY SkillAssumption

LEMMA FreshKeeps ==
  ASSUME SkillInv, stepState' = FreshSteps, needs' = needs, walker' = [pc |-> "new", at |-> 1],
         contract' = [state |-> "pending", number |-> contract.number + 1]
  PROVE  SkillInv'
<1>1. \A s \in SkillSteps : stepState'[s] = "pending" /\ ~(s < 1)
  BY StepNumbers DEF FreshSteps
<1>2. /\ stepState' \in [SkillSteps -> StepState \ {"skipped"}]
      /\ contract' \in [state : ExecutionState \ {"rolling_back"}, number : Nat]
      /\ walker' \in [pc : {"new", "check", "paused", "step", "done"}, at : SkillSteps]
  BY StepNumbers DEF FreshSteps, SkillInv, StepState, ExecutionState
<1> QED BY <1>1, <1>2 DEF SkillInv, Walked, BuiltOnCompleted

\* The walker moves on, or stops, without a step being touched.
LEMMA WalkKeeps ==
  ASSUME SkillInv, UNCHANGED <<needs, stepState>>,
         NEW st \in {"running", "paused", "cancelled"}, contract' = [contract EXCEPT !.state = st],
         NEW pc \in {"check", "paused", "done"}, pc = "done" <=> st = "cancelled",
         walker' = [pc |-> pc, at |-> walker.at], walker.pc \in {"new", "check", "paused"}
  PROVE  SkillInv'
<1>1. /\ contract' \in [state : ExecutionState \ {"rolling_back"}, number : Nat] /\ contract'.state = st
      /\ walker' \in [pc : {"new", "check", "paused", "step", "done"}, at : SkillSteps]
      /\ walker'.at = walker.at /\ walker'.pc = pc
  BY DEF SkillInv, ExecutionState
<1>2. \A s \in SkillSteps : stepState[s] # "running"
  BY DEF SkillInv, Walked
<1> QED BY <1>1, <1>2 DEF SkillInv, Walked, BuiltOnCompleted

LEMMA EnterKeeps ==
  ASSUME SkillInv, NEW approved \in BOOLEAN, EnterStep(approved)
  PROVE  SkillInv'
<1> DEFINE s == walker.at
<1>1. s \in SkillSteps /\ walker.pc \in {"check", "paused"} /\ needs' = needs
      /\ \A k \in SkillSteps : k \in Nat
  BY StepNumbers DEF SkillInv, EnterStep
<1>2. CASE ~DependenciesMet(s) \/ ~approved
  <2>1. /\ stepState' = [stepState EXCEPT ![s] = "failed"]
        /\ contract' = [contract EXCEPT !.state = "failed"] /\ walker' = [walker EXCEPT !.pc = "done"]
    BY <1>2 DEF EnterStep, Refuse, Ending
  <2>2. /\ stepState' \in [SkillSteps -> StepState \ {"skipped"}]
        /\ contract' \in [state : ExecutionState \ {"rolling_back"}, number : Nat]
        /\ walker' \in [pc : {"new", "check", "paused", "step", "done"}, at : SkillSteps]
        /\ walker'.pc = "done" /\ contract'.state = "failed"
    BY <1>1, <2>1 DEF SkillInv, StepState, ExecutionState
  <2>3. \A k \in SkillSteps : stepState[k] # "running" /\ stepState[s] = "pending"
    BY <1>1 DEF SkillInv, Walked
  <2> QED BY <1>1, <2>1, <2>2, <2>3 DEF SkillInv, Walked, BuiltOnCompleted
<1>3. CASE DependenciesMet(s) /\ approved
  <2>1. /\ stepState' = [stepState EXCEPT ![s] = "running"] /\ contract' = contract
        /\ walker' = [walker EXCEPT !.pc = "step"]
    BY <1>3 DEF EnterStep
  <2>2. /\ stepState' \in [SkillSteps -> StepState \ {"skipped"}]
        /\ walker' \in [pc : {"new", "check", "paused", "step", "done"}, at : SkillSteps]
        /\ walker'.pc = "step" /\ walker'.at = s
    BY <1>1, <2>1 DEF SkillInv, StepState
  <2>3. /\ \A k \in SkillSteps : stepState[k] = IF k < s THEN "completed" ELSE "pending"
        /\ \A d \in needs[s] : d \in SkillSteps /\ d < s
    BY <1>1, <1>3 DEF SkillInv, Walked, DependenciesMet
  <2>4. Walked'
    BY <1>1, <2>1, <2>2, <2>3 DEF SkillInv, Walked
  <2>5. BuiltOnCompleted'
    BY <1>1, <2>1, <2>3 DEF SkillInv, BuiltOnCompleted
  <2> QED BY <1>1, <2>1, <2>2, <2>4, <2>5 DEF SkillInv
<1> QED BY <1>2, <1>3

LEMMA SucceedsKeeps ==
  ASSUME SkillInv, StepSucceeds
  PROVE  SkillInv'
<1> DEFINE s == walker.at
<1>1. /\ s \in SkillSteps /\ walker.pc = "step" /\ needs' = needs
      /\ stepState' = [stepState EXCEPT ![s] = "completed"]
      /\ \A k \in SkillSteps : k \in Nat
  BY StepNumbers DEF SkillInv, StepSucceeds
<1>2. stepState' \in [SkillSteps -> StepState \ {"skipped"}]
  BY <1>1 DEF SkillInv, StepState
<1>3. \A k \in SkillSteps : stepState'[k] = IF k < s + 1 THEN "completed" ELSE "pending"
  BY <1>1 DEF SkillInv, Walked
<1>4. BuiltOnCompleted'
  BY <1>1 DEF SkillInv, Walked, BuiltOnCompleted
<1>5. CASE s + 1 \in SkillSteps
  <2>1. walker' = [pc |-> "check", at |-> s + 1] /\ contract' = contract
    BY <1>5 DEF StepSucceeds
  <2> QED BY <1>1, <1>2, <1>3, <1>4, <1>5, <2>1 DEF SkillInv, Walked
<1>6. CASE s + 1 \notin SkillSteps
  <2>1. contract' = [contract EXCEPT !.state = Closing(stepState')] /\ walker' = [walker EXCEPT !.pc = "done"]
    BY <1>6 DEF StepSucceeds, Ending
  <2>2. Closing(stepState') \in {"running", "paused", "completed", "failed"}
    BY <1>1 DEF SkillInv, Closing
  <2>3. Closing(stepState') = "completed" => \A k \in SkillSteps : stepState'[k] = "completed"
    BY <1>1, <1>3 DEF SkillInv, Closing
  <2>4. /\ contract' \in [state : ExecutionState \ {"rolling_back"}, number : Nat]
        /\ contract'.state = Closing(stepState') /\ walker'.pc = "done"
        /\ walker' \in [pc : {"new", "check", "paused", "step", "done"}, at : SkillSteps]
    BY <2>1, <2>2 DEF SkillInv, ExecutionState
  <2> QED BY <1>1, <1>2, <1>3, <1>4, <2>3, <2>4 DEF SkillInv, Walked
<1> QED BY <1>5, <1>6

LEMMA FailsKeeps ==
  ASSUME SkillInv, NEW target \in SkillSteps \cup {0}, StepFails(target)
  PROVE  SkillInv'
<1> DEFINE s == walker.at
<1>1. /\ s \in SkillSteps /\ walker.pc = "step" /\ needs' = needs /\ target \in Nat
      /\ \A k \in SkillSteps : k \in Nat
  BY StepNumbers DEF SkillInv, StepFails
<1>2. PICK st \in {"failed", "rolled_back"} :
        contract' = [contract EXCEPT !.state = st] /\ walker' = [walker EXCEPT !.pc = "done"]
  BY DEF StepFails, Refuse, Ending
<1>3. /\ contract' \in [state : ExecutionState \ {"rolling_back"}, number : Nat]
      /\ contract'.state = st /\ walker'.pc = "done"
      /\ walker' \in [pc : {"new", "check", "paused", "step", "done"}, at : SkillSteps]
  BY <1>2 DEF SkillInv, ExecutionState
<1>0. \A k \in SkillSteps : stepState[k] = IF k < s THEN "completed" ELSE IF k = s THEN "running" ELSE "pending"
  BY <1>1 DEF SkillInv, Walked
<1>4. PICK last \in Nat : stepState' = [k \in SkillSteps |->
        IF k = s THEN "failed"
        ELSE IF k > last /\ stepState[k] = "completed" THEN "rolled_back" ELSE stepState[k]]
  <2>1. CASE target = 0
    <3>1. stepState' = [stepState EXCEPT ![s] = "failed"]
      BY <2>1 DEF StepFails, Refuse
    <3>2. stepState' = [k \in SkillSteps |->
            IF k = s THEN "failed"
            ELSE IF k > s /\ stepState[k] = "completed" THEN "rolled_back" ELSE stepState[k]]
      <4>1. ASSUME NEW k \in SkillSteps, k > s  PROVE stepState[k] = "pending"
        <5>1. k \in Nat /\ s \in Nat
          BY <1>1
        <5>2. ~(k < s) /\ k # s
          BY <4>1, <5>1
        <5> QED BY <1>0, <5>2
      <4>2. stepState' = [k \in SkillSteps |-> IF k = s THEN "failed" ELSE stepState[k]]
        BY <1>1, <3>1 DEF SkillInv
      <4> HIDE DEF s
      <4> QED BY <4>1, <4>2
    <3> QED BY <1>1, <3>2
  <2>2. CASE target # 0
    BY <1>1, <2>2 DEF StepFails, RolledBack
  <2> QED BY <2>1, <2>2
<1>5. stepState' \in [SkillSteps -> StepState \ {"skipped"}]
  BY <1>4 DEF SkillInv, StepState
<1>7. BuiltOnCompleted'
  BY <1>0, <1>1, <1>4 DEF SkillInv, BuiltOnCompleted
<1> QED BY <1>0, <1>1, <1>3, <1>4, <1>5, <1>7 DEF SkillInv, Walked

LEMMA SkillStep == SkillInv /\ [SkillNext]_skillVars => SkillInv'
<1> SUFFICES ASSUME SkillInv, [SkillNext]_skillVars  PROVE SkillInv'
  OBVIOUS
<1>1. CASE UNCHANGED <<needs, stepState, contract, walker>>
  BY <1>1 DEF SkillInv, Walked, BuiltOnCompleted
<1>2. CASE StartContract
  BY <1>2, WalkKeeps DEF StartContract, SkillInv
<1>3. CASE CancelSeen \/ PauseSeen
  <2>1. PICK st \in {"paused", "cancelled"}, pc \in {"paused", "done"} :
          /\ contract' = [contract EXCEPT !.state = st] /\ (pc = "done" <=> st = "cancelled")
          /\ walker' = [walker EXCEPT !.pc = pc] /\ walker.pc \in {"check", "paused"}
          /\ UNCHANGED <<needs, stepState>>
    BY <1>3 DEF CancelSeen, PauseSeen, Ending
  <2>2. walker' = [pc |-> pc, at |-> walker.at]
    BY <2>1 DEF SkillInv
  <2> QED BY <2>1, <2>2, WalkKeeps
<1>4. CASE NextContract
  BY <1>4, FreshKeeps DEF NextContract
<1>5. CASE \E approved \in BOOLEAN : EnterStep(approved)
  BY <1>5, EnterKeeps
<1>6. CASE \E target \in SkillSteps \cup {0} : StepFails(target)
  BY <1>6, FailsKeeps
<1> QED BY <1>1, <1>2, <1>3, <1>4, <1>5, <1>6, SucceedsKeeps DEF SkillNext, skillVars

LEMMA SkillInitInv == SkillInit => SkillInv
<1> SUFFICES ASSUME SkillInit  PROVE SkillInv
  OBVIOUS
<1>1. \A s \in SkillSteps : stepState[s] = "pending" /\ ~(s < 1)
  BY StepNumbers DEF SkillInit, FreshSteps
<1>2. stepState \in [SkillSteps -> StepState \ {"skipped"}]
  BY DEF SkillInit, FreshSteps, StepState
<1> QED BY <1>1, <1>2, StepNumbers DEF SkillInit, SkillInv, ExecutionState, Walked, BuiltOnCompleted

LEMMA SkillOrder == SkillInv => SkillTypeOK /\ StepsRunInOrder
<1> SUFFICES ASSUME SkillInv  PROVE SkillTypeOK /\ StepsRunInOrder
  OBVIOUS
<1>1. \A s \in SkillSteps : stepState[s] = "running" => walker.pc = "step" /\ walker.at = s
  BY DEF SkillInv, Walked
<1> QED BY <1>1 DEF SkillInv, BuiltOnCompleted, SkillTypeOK, StepsRunInOrder, DependenciesMet

-----------------------------------------------------------------------------
(* Planning.                                                               *)

Members(q) == {q[i] : i \in DOMAIN q}
Once(q) == \A i, k \in DOMAIN q : q[i] = q[k] => i = k

\* Every set of steps in S has one that waits for none of them.
Grounded(S) == \A C \in SUBSET S : C # {} => \E s \in C : deps[s] \cap C = {}

\* The steps whose call of the search has returned.
Returned == visited \ Members(path)

PlanTyped ==
  /\ deps \in [PlanSteps -> SUBSET PlanSteps]
  /\ phase \in {"cycles", "sort", "levels", "done", "invalid"}
  /\ path \in Seq(PlanSteps) /\ queue \in Seq(PlanSteps)
  /\ result \in Seq(PlanSteps) /\ levels \in Seq(SUBSET PlanSteps)
  /\ visited \in SUBSET PlanSteps /\ cycles \in SUBSET PlanSteps
  /\ untried \in [PlanSteps -> SUBSET PlanSteps]
  /\ indegree \in [PlanSteps -> Nat]

\* As long as no cycle was met, a call that has returned left only returned calls behind,
\* and the loop of an active one has passed those and the call above it on the stack.
SearchInv ==
  /\ Once(path) /\ Members(path) \subseteq visited
  /\ \A s \in PlanSteps : untried[s] \subseteq deps[s] /\ (s \notin visited => untried[s] = deps[s])
  /\ \A i \in 1..(Len(path) - 1) : path[i + 1] \in deps[path[i]]
  /\ cycles # {} => CyclicPlan
  /\ cycles = {} =>
       /\ Grounded(Returned) /\ \A s \in Returned : deps[s] \subseteq Returned
       /\ \A i \in DOMAIN path : \A d \in deps[path[i]] \ untried[path[i]] :
            d \in Returned \/ (i < Len(path) /\ d = path[i + 1])

\* Steps sorted so far have their dependencies before them; what waits for nothing else
\* is in the queue.
Sorted == \A k \in DOMAIN result : \A d \in deps[result[k]] : \E i \in 1..(k - 1) : result[i] = d

SortInv ==
  /\ Once(result) /\ Once(queue) /\ Members(result) \cap Members(queue) = {} /\ Sorted
  /\ \A s \in PlanSteps : indegree[s] = Cardinality(deps[s] \ Members(result))
  /\ \A s \in PlanSteps : indegree[s] = 0 <=> s \in Members(result) \cup Members(queue)

PlanInv ==
  /\ PlanTyped
  /\ phase = "cycles" => SearchInv /\ result = <<>> /\ \A s \in PlanSteps : indegree[s] = Cardinality(deps[s])
  /\ phase # "cycles" => path = <<>> /\ (cycles # {} <=> CyclicPlan)
  /\ phase = "sort" => SortInv
  /\ phase \in {"levels", "done"} => cycles = {} /\ Once(result) /\ Members(result) = PlanSteps /\ Sorted
  /\ phase \notin {"levels", "done"} => levels = <<>>
  /\ \A i \in DOMAIN levels : \A s \in levels[i] : deps[s] \cap levels[i] = {}
  /\ phase = "done" => Levelled = PlanSteps

LEMMA InSeqMembers ==
  ASSUME NEW x, NEW q
  PROVE  InSeq(x, q) <=> x \in Members(q)
  BY DEF InSeq, Members

\* What sequence operators make of members.
LEMMA MembersJoined ==
  ASSUME NEW T, NEW q \in Seq(T), NEW r \in Seq(T)
  PROVE  /\ q \o r \in Seq(T) /\ Len(q \o r) = Len(q) + Len(r)
         /\ Members(q \o r) = Members(q) \cup Members(r)
         /\ \A i \in 1..Len(q) : (q \o r)[i] = q[i]
         /\ Once(q) /\ Once(r) /\ Members(q) \cap Members(r) = {} => Once(q \o r)
<1> DEFINE s == q \o r
           n == Len(q)
<1>1. /\ n \in Nat /\ Len(r) \in Nat /\ DOMAIN q = 1..n /\ DOMAIN r = 1..Len(r)
      /\ s \in Seq(T) /\ Len(s) = n + Len(r) /\ DOMAIN s = 1..(n + Len(r))
  OBVIOUS
<1>2. /\ \A i \in 1..n : s[i] = q[i]
      /\ \A i \in 1..Len(r) : s[n + i] = r[i]
  OBVIOUS
<1> HIDE DEF s
<1>3. \A i \in DOMAIN s : \/ i \in 1..n /\ s[i] = q[i]
                          \/ i - n \in 1..Len(r) /\ s[i] = r[i - n] /\ i \notin 1..n
  <2> TAKE i \in DOMAIN s
  <2>1. CASE i <= n
    BY <1>1, <1>2, <2>1
  <2>2. CASE ~(i <= n)
    <3>1. i - n \in 1..Len(r) /\ n + (i - n) = i
      BY <1>1, <2>2
    <3> QED BY <1>1, <1>2, <2>2, <3>1
  <2> QED BY <2>1, <2>2
<1>4. Members(s) \subseteq Members(q) \cup Members(r)
  BY <1>1, <1>3 DEF Members
<1>5. Members(q) \subseteq Members(s)
  <2> SUFFICES ASSUME NEW i \in 1..n  PROVE \E k \in DOMAIN s : s[k] = q[i]
    BY <1>1 DEF Members
  <2>1. i \in DOMAIN s
    BY <1>1
  <2> QED BY <1>2, <2>1
<1>6. Members(r) \subseteq Members(s)
  <2> SUFFICES ASSUME NEW i \in 1..Len(r)  PROVE \E k \in DOMAIN s : s[k] = r[i]
    BY <1>1 DEF Members
  <2>1. n + i \in DOMAIN s
    BY <1>1
  <2> QED BY <1>2, <2>1
<1>7. ASSUME Once(q), Once(r), Members(q) \cap Members(r) = {}  PROVE Once(s)
  <2> SUFFICES ASSUME NEW i \in DOMAIN s, NEW k \in DOMAIN s, s[i] = s[k]  PROVE i = k
    BY DEF Once
  <2>1. \A j \in 1..n : q[j] \in Members(q)
    BY <1>1 DEF Members
  <2>2. \A j \in 1..Len(r) : r[j] \in Members(r)
    BY <1>1 DEF Members
  <2>3. \A j \in 1..n, l \in 1..Len(r) : q[j] # r[l]
    BY <1>7, <2>1, <2>2
  <2>4. CASE i \in 1..n /\ k \in 1..n
    <3>1. q[i] = q[k]
      BY <1>2, <2>4
    <3> QED BY <1>1, <1>7, <2>4, <3>1 DEF Once
  <2>5. CASE i \notin 1..n /\ k \notin 1..n
    <3>1. i - n \in 1..Len(r) /\ k - n \in 1..Len(r) /\ r[i - n] = r[k - n]
      BY <1>3, <2>5
    <3>2. i - n = k - n
      BY <1>1, <1>7, <3>1 DEF Once
    <3> QED BY <1>1, <3>2
  <2>6. CASE i \in 1..n /\ k \notin 1..n
    BY <1>2, <1>3, <2>3, <2>6
  <2>7. CASE i \notin 1..n /\ k \in 1..n
    BY <1>2, <1>3, <2>3, <2>7
  <2> QED BY <2>4, <2>5, <2>6, <2>7
<1> QED BY <1>1, <1>2, <1>4, <1>5, <1>6, <1>7 DEF s

LEMMA MembersAppended ==
  ASSUME NEW T, NEW q \in Seq(T), NEW x \in T
  PROVE  /\ Append(q, x) \in Seq(T) /\ Len(Append(q, x)) = Len(q) + 1 /\ Len(q) \in Nat
         /\ Append(q, x)[Len(q) + 1] = x /\ \A i \in 1..Len(q) : Append(q, x)[i] = q[i]
         /\ Members(Append(q, x)) = Members(q) \cup {x}
         /\ Once(q) /\ x \notin Members(q) => Once(Append(q, x))
<1> DEFINE s == Append(q, x)
           n == Len(q)
<1>1. /\ n \in Nat /\ DOMAIN q = 1..n /\ s \in Seq(T) /\ Len(s) = n + 1 /\ DOMAIN s = 1..(n + 1)
      /\ s[n + 1] = x /\ \A i \in 1..n : s[i] = q[i]
  OBVIOUS
<1> HIDE DEF s, n
<1>2. \A i \in DOMAIN s : i = n + 1 \/ i \in 1..n
  BY <1>1
<1>3. Members(s) \subseteq Members(q) \cup {x}
  BY <1>1, <1>2 DEF Members
<1>4. \A i \in 1..n : i \in DOMAIN s
  BY <1>1
<1>5. n + 1 \in DOMAIN s
  BY <1>1
<1>6. Members(q) \cup {x} \subseteq Members(s)
  BY <1>1, <1>4, <1>5 DEF Members
<1>7. ASSUME Once(q), x \notin Members(q)  PROVE Once(s)
  <2>1. \A i \in 1..n : q[i] # x
    BY <1>1, <1>7 DEF Members
  <2>2. ASSUME NEW i \in DOMAIN s, NEW k \in DOMAIN s, s[i] = s[k]  PROVE i = k
    <3>1. CASE i \in 1..n /\ k \in 1..n
      <4>1. q[i] = q[k] /\ i \in DOMAIN q /\ k \in DOMAIN q
        BY <1>1, <2>2, <3>1
      <4> QED BY <1>7, <4>1 DEF Once
    <3>2. CASE i \notin 1..n \/ k \notin 1..n
      BY <1>1, <1>2, <2>1, <2>2, <3>2
    <3> QED BY <3>1, <3>2
  <2> QED BY <2>2 DEF Once
<1> QED BY <1>1, <1>3, <1>6, <1>7 DEF s, n

LEMMA MembersTail ==
  ASSUME NEW T, NEW q \in Seq(T), q # <<>>, Once(q)
  PROVE  /\ Head(q) \in T /\ Head(q) \in Members(q) /\ Tail(q) \in Seq(T) /\ Once(Tail(q))
         /\ Members(Tail(q)) = Members(q) \ {Head(q)}
<1> DEFINE s == Tail(q)
           n == Len(q)
<1>1. /\ n \in Nat /\ n >= 1 /\ DOMAIN q = 1..n /\ s \in Seq(T) /\ DOMAIN s = 1..(n - 1)
      /\ Head(q) = q[1] /\ \A i \in 1..(n - 1) : s[i] = q[i + 1]
  OBVIOUS
<1> HIDE DEF s, n
<1>2. \A i \in 1..(n - 1) : i + 1 \in DOMAIN q /\ i + 1 # 1
  BY <1>1
<1>3. 1 \in DOMAIN q
  BY <1>1
<1>4. \A i, k \in 1..(n - 1) : s[i] = s[k] => i = k
  <2> SUFFICES ASSUME NEW i \in 1..(n - 1), NEW k \in 1..(n - 1), s[i] = s[k]  PROVE i + 1 = k + 1
    BY <1>1
  <2> QED BY <1>1, <1>2 DEF Once
<1>5. Once(s)
  BY <1>1, <1>4 DEF Once
<1>6. \A i \in DOMAIN q : i = 1 \/ (i - 1 \in 1..(n - 1) /\ (i - 1) + 1 = i)
  BY <1>1
<1>7. Members(q) \subseteq Members(s) \cup {Head(q)}
  BY <1>1, <1>6 DEF Members
<1>8. Members(s) \subseteq Members(q)
  BY <1>1, <1>2 DEF Members
<1>9. Head(q) \notin Members(s)
  <2>1. \A i \in 1..(n - 1) : q[i + 1] # q[1]
    BY <1>2, <1>3 DEF Once
  <2> QED BY <1>1, <2>1 DEF Members
<1>10. Head(q) \in Members(q) /\ Head(q) \in T
  BY <1>1, <1>3 DEF Members
<1> QED BY <1>1, <1>5, <1>7, <1>8, <1>9, <1>10 DEF s

LEMMA MembersFront ==
  ASSUME NEW T, NEW q \in Seq(T), q # <<>>, Once(q)
  PROVE  LET s == SubSeq(q, 1, Len(q) - 1)
         IN /\ Len(q) \in Nat \ {0} /\ q[Len(q)] \in T /\ s \in Seq(T) /\ Len(s) = Len(q) - 1 /\ Once(s)
            /\ \A i \in 1..Len(s) : s[i] = q[i]
            /\ q[Len(q)] \notin Members(s) /\ Members(q) = Members(s) \cup {q[Len(q)]}
<1> DEFINE s == SubSeq(q, 1, Len(q) - 1)
<1> DEFINE n == Len(q)
<1>0. n \in Nat /\ n >= 1 /\ DOMAIN q = 1..n
  OBVIOUS
<1>1. /\ n \in Nat /\ n >= 1 /\ DOMAIN q = 1..n /\ s \in Seq(T) /\ Len(s) = n - 1 /\ DOMAIN s = 1..(n - 1)
      /\ \A i \in 1..(n - 1) : s[i] = q[i]
  <2>1. n - 1 \in Nat /\ n - 1 <= n
    BY <1>0
  <2> HIDE DEF n
  <2>2. \A i \in 1..(n - 1) : q[i] \in T
    BY <1>0, <2>1
  <2>3. s = [i \in 1..(n - 1) |-> q[i]]
    BY <1>0, <2>1 DEF n
  <2> QED BY <1>0, <2>1, <2>2, <2>3
<1> HIDE DEF n, s
<1>2. n \in DOMAIN q /\ \A i \in 1..(n - 1) : i \in DOMAIN q /\ i # n
  BY <1>1
<1>3. \A i \in DOMAIN q : i = n \/ i \in 1..(n - 1)
  BY <1>1
<1>4. Once(s)
  BY <1>1, <1>2 DEF Once
<1>5. q[n] \notin Members(s)
  BY <1>1, <1>2 DEF Members, Once
<1>6. Members(q) = Members(s) \cup {q[n]}
  BY <1>1, <1>2, <1>3 DEF Members
<1>7. q[n] \in T
  BY <1>2 DEF n
<1> QED BY <1>1, <1>4, <1>5, <1>6, <1>7 DEF n, s

\* A sequence without repetitions is as long as its members are many.
LEMMA MembersCounted ==
  ASSUME NEW T, NEW q \in Seq(T), Once(q)
  PROVE  Cardinality(Members(q)) = Len(q)
<1> DEFINE n == Len(q)
<1>1. n \in Nat /\ DOMAIN q = 1..n /\ q = [i \in 1..n |-> q[i]]
  OBVIOUS
<1> HIDE DEF n
<1>2. IsFiniteSet(1..n) /\ Cardinality(1..n) = n
  <2>1. 1 \in Int /\ n \in Int
    BY <1>1
  <2>2. IsFiniteSet(1..n) /\ Cardinality(1..n) = IF 1 > n THEN 0 ELSE n - 1 + 1
    BY <2>1, FS_Interval
  <2> QED BY <1>1, <2>2
<1>3. q \in [1..n -> Members(q)] /\ \A x \in Members(q) : \E i \in 1..n : q[i] = x
  <2>1. \A i \in 1..n : q[i] \in Members(q)
    BY <1>1 DEF Members
  <2> QED BY <1>1, <2>1 DEF Members
<1>4. q \in Surjection(1..n, Members(q)) /\ q \in Injection(1..n, Members(q))
  BY <1>1, <1>3 DEF Surjection, Injection, IsInjective, Once
<1>5. Cardinality(Members(q)) = n
  BY <1>2, <1>4, FS_Surjection
<1> QED BY <1>5 DEF n

LEMMA StepsFinite == IsFiniteSet(PlanSteps) /\ Cardinality(PlanSteps) = StepCount /\ PlanSteps \subseteq Nat
<1>1. IsFiniteSet(1..StepCount) /\ Cardinality(1..StepCount) = StepCount
  <2>1. 1 \in Int /\ StepCount \in Int
    BY PlanningAssumption
  <2>2. IsFiniteSet(1..StepCount) /\ Cardinality(1..StepCount) = IF 1 > StepCount THEN 0 ELSE StepCount - 1 + 1
    BY <2>1, FS_Interval
  <2> QED BY <2>2, PlanningAssumption
<1> QED BY <1>1, PlanningAssumption DEF PlanSteps

\* InOrder(S) is S, each step once.
LEMMA OrderedOnce ==
  ASSUME NEW S \in SUBSET PlanSteps
  PROVE  InOrder(S) \in Seq(PlanSteps) /\ Once(InOrder(S)) /\ Members(InOrder(S)) = S
<1>1. S \in SUBSET Nat /\ IsFiniteSet(S)
  BY StepsFinite, FS_Subset
<1>2. Cardinality(S) \in Nat
  BY <1>1, FS_CardinalityType
<1>3. /\ \A k \in 1..Cardinality(S) : NthOf(S, k) \in S
      /\ \A i \in S : PlaceOf(S, i) \in 1..Cardinality(S) /\ NthOf(S, PlaceOf(S, i)) = i
      /\ \A k, l \in 1..Cardinality(S) : k < l => NthOf(S, k) < NthOf(S, l)
  BY <1>1, NthIsThere
<1> DEFINE q == InOrder(S)
<1>4. DOMAIN q = 1..Cardinality(S) /\ \A k \in 1..Cardinality(S) : q[k] = NthOf(S, k)
  BY DEF InOrder
<1>5. q \in Seq(PlanSteps)
  BY <1>2, <1>3 DEF InOrder
<1> HIDE DEF q
<1>6. Once(q)
  <2> SUFFICES ASSUME NEW k \in 1..Cardinality(S), NEW l \in 1..Cardinality(S), q[k] = q[l]  PROVE k = l
    BY <1>4 DEF Once
  <2>1. NthOf(S, k) = NthOf(S, l) /\ NthOf(S, k) \in Nat
    BY <1>1, <1>3, <1>4
  <2>2. ~(k < l) /\ ~(l < k)
    BY <1>3, <2>1
  <2> QED BY <1>2, <2>2
<1>7. Members(q) = S
  BY <1>3, <1>4 DEF Members
<1> QED BY <1>5, <1>6, <1>7 DEF q

\* A cyclic set of steps, and that there is none.
LEMMA GroundedOrCyclic == Grounded(PlanSteps) <=> ~CyclicPlan
  BY DEF Grounded, CyclicPlan

LEMMA GroundedGrows ==
  ASSUME NEW S, NEW t, Grounded(S), t \notin S, \A s \in S : deps[s] \subseteq S, deps[t] \subseteq S
  PROVE  Grounded(S \cup {t})
<1> SUFFICES ASSUME NEW C \in SUBSET (S \cup {t}), C # {}  PROVE \E s \in C : deps[s] \cap C = {}
  BY DEF Grounded
<1>1. CASE C \subseteq {t}
  <2>1. t \in C /\ deps[t] \cap C = {}
    BY <1>1
  <2> QED BY <2>1
<1>2. CASE ~(C \subseteq {t})
  <2>1. C \ {t} \in SUBSET S /\ C \ {t} # {}
    BY <1>2
  <2>2. PICK s \in C \ {t} : deps[s] \cap (C \ {t}) = {}
    BY <2>1 DEF Grounded
  <2>3. t \notin deps[s]
    BY <2>1
  <2> QED BY <2>2, <2>3
<1> QED BY <1>1, <1>2

LEMMA AllButLast ==
  ASSUME NEW n \in Nat, NEW b \in 1..n, NEW i \in b..n, i # n
  PROVE  i \in 1..(n - 1) /\ i + 1 \in b..n
  OBVIOUS

\* A dependency that is active closes a cycle along the stack.
LEMMA StackIsCyclic ==
  ASSUME PlanTyped, \A i \in 1..(Len(path) - 1) : path[i + 1] \in deps[path[i]],
         path # <<>>, NEW d \in deps[path[Len(path)]], d \in Members(path)
  PROVE  CyclicPlan
<1>1. path \in Seq(PlanSteps) /\ Len(path) \in Nat /\ DOMAIN path = 1..Len(path)
  BY DEF PlanTyped
<1>2. PICK b \in 1..Len(path) : path[b] = d
  BY <1>1 DEF Members
<1> DEFINE C == {path[i] : i \in b..Len(path)}
<1>3. \A i \in b..Len(path) : path[i] \in PlanSteps
  BY <1>1
<1>4. C \in SUBSET PlanSteps /\ path[b] \in C
  BY <1>1, <1>3
<1>5. \A i \in b..Len(path) : deps[path[i]] \cap C # {}
  <2> TAKE i \in b..Len(path)
  <2>1. CASE i = Len(path)
    BY <1>2, <1>4, <2>1
  <2>2. CASE i # Len(path)
    <3>1. i \in 1..(Len(path) - 1) /\ i + 1 \in b..Len(path)
      BY <2>2, <1>1, AllButLast
    <3>2. path[i + 1] \in C
      BY <3>1
    <3> QED BY <3>1, <3>2
  <2> QED BY <2>1, <2>2
<1>6. \A s \in C : deps[s] \cap C # {}
  BY <1>5
<1> HIDE DEF C
<1> QED BY <1>4, <1>6 DEF CyclicPlan

\* What PlanInv says of a plan whose search goes on.
LEMMA SearchState ==
  ASSUME PlanInv, phase = "cycles"
  PROVE  /\ PlanTyped /\ SearchInv /\ result = <<>> /\ levels = <<>>
         /\ \A s \in PlanSteps : indegree[s] = Cardinality(deps[s])
         /\ Len(path) \in Nat /\ DOMAIN path = 1..Len(path)
  BY DEF PlanInv, PlanTyped

LEMMA SearchAssembled ==
  ASSUME PlanInv, phase = "cycles", UNCHANGED <<deps, phase, indegree, queue, result, levels>>,
         path' \in Seq(PlanSteps), visited' \in SUBSET PlanSteps, cycles' \in SUBSET PlanSteps,
         untried' \in [PlanSteps -> SUBSET PlanSteps], SearchInv'
  PROVE  PlanInv'
<1>1. PlanTyped'
  BY DEF PlanInv, PlanTyped
<1>2. phase' = "cycles" /\ result' = <<>> /\ levels' = <<>>
      /\ \A s \in PlanSteps : indegree'[s] = Cardinality(deps'[s])
  BY SearchState
<1>3. DOMAIN levels' = {}
  BY <1>2
<1> QED BY <1>1, <1>2, <1>3 DEF PlanInv

LEMMA StartKeeps ==
  ASSUME PlanInv, NEW s \in PlanSteps, StartSearch(s)
  PROVE  PlanInv'
<1>1. /\ phase = "cycles" /\ path = <<>> /\ s \notin visited /\ path' = <<s>> /\ visited' = visited \cup {s}
      /\ UNCHANGED <<deps, phase, untried, cycles, indegree, queue, result, levels>>
  BY DEF StartSearch
<1>2. PlanTyped /\ SearchInv
  BY <1>1, SearchState
<1>3. /\ path' \in Seq(PlanSteps) /\ Len(path') = 1 /\ DOMAIN path' = {1} /\ path'[1] = s
  BY <1>1
<1>4. visited' \in SUBSET PlanSteps /\ cycles' \in SUBSET PlanSteps /\ untried' \in [PlanSteps -> SUBSET PlanSteps]
  BY <1>1, <1>2 DEF PlanTyped
<1>5. Members(path) = {} /\ Members(path') = {s}
  BY <1>1, <1>3 DEF Members
<1>6. Returned = visited /\ Returned' = visited
  BY <1>1, <1>5 DEF Returned
<1>7. (CyclicPlan => CyclicPlan') /\ (cycles = {} => Grounded(Returned)')
  <2>1. CyclicPlan => CyclicPlan'
    BY <1>1 DEF CyclicPlan
  <2>2. cycles = {} => Grounded(Returned)
    BY <1>2 DEF SearchInv
  <2>3. Grounded(Returned) => Grounded(Returned)'
    BY <1>1, <1>6 DEF Grounded
  <2> QED BY <2>1, <2>2, <2>3
<1>8. Once(path')
  BY <1>3 DEF Once
<1>9. cycles = {} => /\ \A x \in visited : deps[x] \subseteq visited
                     /\ deps[s] \ untried[s] = {}
  BY <1>1, <1>2, <1>6 DEF SearchInv
<1>10. SearchInv'
  <2>1. \A i \in 1..(Len(path') - 1) : FALSE
    BY <1>3
  <2>2. \A x \in PlanSteps : untried'[x] \subseteq deps'[x] /\ (x \notin visited' => untried'[x] = deps'[x])
    BY <1>1, <1>2 DEF SearchInv
  <2>3. cycles' # {} => CyclicPlan'
    BY <1>1, <1>2, <1>7 DEF SearchInv
  <2>4. cycles' = {} => /\ Grounded(Returned)' /\ \A x \in Returned' : deps'[x] \subseteq Returned'
                        /\ \A i \in DOMAIN path' : deps'[path'[i]] \ untried'[path'[i]] = {}
    BY <1>1, <1>3, <1>6, <1>7, <1>9
  <2> QED BY <1>1, <1>5, <1>8, <2>1, <2>2, <2>3, <2>4 DEF SearchInv
<1> QED BY <1>1, <1>3, <1>4, <1>10, SearchAssembled

LEMMA ReturnKeeps ==
  ASSUME PlanInv, ReturnFromVisit
  PROVE  PlanInv'
<1>1. /\ phase = "cycles" /\ path # <<>> /\ untried[Tip] = {} /\ path' = SubSeq(path, 1, Len(path) - 1)
      /\ UNCHANGED <<deps, phase, visited, untried, cycles, indegree, queue, result, levels>>
  BY DEF ReturnFromVisit
<1>2. PlanTyped /\ SearchInv /\ Len(path) \in Nat /\ DOMAIN path = 1..Len(path)
  BY <1>1, SearchState
<1>3. visited' \in SUBSET PlanSteps /\ cycles' \in SUBSET PlanSteps /\ untried' \in [PlanSteps -> SUBSET PlanSteps]
  BY <1>1, <1>2 DEF PlanTyped
<1> DEFINE n == Len(path)
           t == path[n]
           front == SubSeq(path, 1, n - 1)
<1>4. /\ path \in Seq(PlanSteps) /\ Once(path) /\ Members(path) \subseteq visited
      /\ \A i \in 1..(n - 1) : path[i + 1] \in deps[path[i]]
      /\ cycles # {} => CyclicPlan
      /\ \A s \in PlanSteps : untried[s] \subseteq deps[s] /\ (s \notin visited => untried[s] = deps[s])
  BY <1>2 DEF SearchInv, PlanTyped
<1>5. /\ n \in Nat \ {0} /\ t \in PlanSteps /\ front \in Seq(PlanSteps) /\ Len(front) = n - 1 /\ Once(front)
      /\ \A i \in 1..(n - 1) : front[i] = path[i]
      /\ t \notin Members(front) /\ Members(path) = Members(front) \cup {t}
  BY <1>1, <1>4, MembersFront
<1>6. path' = front /\ DOMAIN front = 1..(n - 1) /\ untried[t] = {}
  BY <1>1, <1>5 DEF Tip
<1> HIDE DEF front, t, n
<1>7. Returned' = Returned \cup {t} /\ t \notin Returned
  BY <1>1, <1>4, <1>5, <1>6 DEF Returned
<1>8. CyclicPlan => CyclicPlan'
  BY <1>1 DEF CyclicPlan
<1>9. ASSUME cycles = {}
      PROVE  /\ Grounded(Returned)' /\ \A s \in Returned' : deps'[s] \subseteq Returned'
             /\ \A i \in DOMAIN path' : \A d \in deps'[path'[i]] \ untried'[path'[i]] :
                  d \in Returned' \/ (i < Len(path') /\ d = path'[i + 1])
  <2>1. /\ Grounded(Returned) /\ \A s \in Returned : deps[s] \subseteq Returned
        /\ \A i \in 1..n : \A d \in deps[path[i]] \ untried[path[i]] :
             d \in Returned \/ (i < n /\ d = path[i + 1])
    BY <1>2, <1>9 DEF SearchInv, n
  <2>2. deps[t] \subseteq Returned
    <3>1. n \in 1..n /\ ~(n < n)
      BY <1>5
    <3> QED BY <1>6, <2>1, <3>1 DEF t
  <2>3. Grounded(Returned \cup {t})
    BY <1>7, <2>1, <2>2, GroundedGrows
  <2>4. Grounded(Returned)'
    BY <1>1, <1>7, <2>3 DEF Grounded
  <2>5. \A s \in Returned' : deps'[s] \subseteq Returned'
    BY <1>1, <1>7, <2>1, <2>2
  <2>6. ASSUME NEW i \in 1..(n - 1), NEW d \in deps[path[i]] \ untried[path[i]]
        PROVE  d \in Returned \cup {t} \/ (i < n - 1 /\ d = front[i + 1])
    <3>1. i \in 1..n /\ n \in Nat /\ i \in Nat /\ i <= n - 1
      BY <1>5
    <3>2. CASE d = path[i + 1]
      <4>1. CASE i + 1 = n
        BY <3>2, <4>1 DEF t
      <4>2. CASE i + 1 # n
        <5>1. i + 1 \in 1..(n - 1) /\ i < n - 1
          BY <3>1, <4>2
        <5> QED BY <1>5, <3>2, <5>1
      <4> QED BY <4>1, <4>2
    <3>3. CASE d \in Returned
      BY <3>3
    <3> QED BY <2>1, <3>1, <3>2, <3>3
  <2>7. \A i \in DOMAIN path' : \A d \in deps'[path'[i]] \ untried'[path'[i]] :
          d \in Returned' \/ (i < Len(path') /\ d = path'[i + 1])
    <3> SUFFICES ASSUME NEW i \in 1..(n - 1), NEW d \in deps[front[i]] \ untried[front[i]]
                 PROVE  d \in Returned \cup {t} \/ (i < n - 1 /\ d = front[i + 1])
      BY <1>1, <1>5, <1>6, <1>7
    <3> QED BY <1>5, <2>6
  <2> QED BY <2>4, <2>5, <2>7
<1>10. \A i \in 1..(Len(path') - 1) : path'[i + 1] \in deps'[path'[i]]
  <2> SUFFICES ASSUME NEW i \in 1..((n - 1) - 1)  PROVE front[i + 1] \in deps[front[i]]
    BY <1>1, <1>5, <1>6
  <2>1. i \in 1..(n - 1) /\ i + 1 \in 1..(n - 1)
    BY <1>5
  <2> QED BY <1>4, <1>5, <2>1
<1>11. Once(path') /\ Members(path') \subseteq visited'
  BY <1>1, <1>4, <1>5, <1>6
<1>12. \A s \in PlanSteps : untried'[s] \subseteq deps'[s] /\ (s \notin visited' => untried'[s] = deps'[s])
  BY <1>1, <1>4
<1>13. SearchInv'
  BY <1>1, <1>4, <1>8, <1>9, <1>10, <1>11, <1>12 DEF SearchInv
<1> QED BY <1>1, <1>3, <1>5, <1>6, <1>13, SearchAssembled

LEMMA VisitKeeps ==
  ASSUME PlanInv, NEW d \in PlanSteps, VisitDependency(d)
  PROVE  PlanInv'
<1> DEFINE n == Len(path)
           t == path[n]
<1>1. /\ phase = "cycles" /\ path # <<>> /\ d \in untried[t] /\ untried' = [untried EXCEPT ![t] = @ \ {d}]
      /\ visited' = visited \cup {d}
      /\ path' = IF d \in visited THEN path ELSE Append(path, d)
      /\ cycles' = IF d \in visited /\ d \in Members(path) THEN cycles \cup {d} ELSE cycles
      /\ UNCHANGED <<deps, phase, indegree, queue, result, levels>>
  BY InSeqMembers DEF VisitDependency, Tip
<1>2. PlanTyped /\ SearchInv /\ n \in Nat /\ DOMAIN path = 1..n
  BY <1>1, SearchState
<1>3. /\ path \in Seq(PlanSteps) /\ Once(path) /\ Members(path) \subseteq visited
      /\ \A i \in 1..(n - 1) : path[i + 1] \in deps[path[i]]
      /\ cycles # {} => CyclicPlan
      /\ untried \in [PlanSteps -> SUBSET PlanSteps] /\ deps \in [PlanSteps -> SUBSET PlanSteps]
      /\ visited \in SUBSET PlanSteps /\ cycles \in SUBSET PlanSteps
      /\ \A s \in PlanSteps : untried[s] \subseteq deps[s] /\ (s \notin visited => untried[s] = deps[s])
  BY <1>2 DEF SearchInv, PlanTyped
<1>4. n \in 1..n /\ t \in PlanSteps /\ t \in Members(path) /\ t \in visited /\ d \in deps[t]
  <2>1. n \in 1..n
    BY <1>1, <1>3
  <2>2. t \in PlanSteps /\ t \in Members(path)
    BY <1>2, <1>3, <2>1 DEF Members
  <2> QED BY <1>1, <1>3, <2>1, <2>2
<1>5. /\ untried' \in [PlanSteps -> SUBSET PlanSteps] /\ visited' \in SUBSET PlanSteps
      /\ cycles' \in SUBSET PlanSteps
      /\ \A s \in PlanSteps : untried'[s] = IF s = t THEN untried[t] \ {d} ELSE untried[s]
  BY <1>1, <1>3, <1>4
<1>6. \A s \in PlanSteps : untried'[s] \subseteq deps'[s] /\ (s \notin visited' => untried'[s] = deps'[s])
  BY <1>1, <1>3, <1>4, <1>5
<1>7. d \in Members(path) => CyclicPlan
  BY <1>1, <1>2, <1>3, <1>4, StackIsCyclic
<1>8. CyclicPlan => CyclicPlan'
  BY <1>1 DEF CyclicPlan
<1>9. cycles' # {} => CyclicPlan'
  BY <1>1, <1>3, <1>7, <1>8
<1>10. \A i \in 1..n : i # n => i + 1 \in 1..n /\ i < n /\ i \in 1..(n - 1) /\ path[i] # t
  <2> SUFFICES ASSUME NEW i \in 1..n, i # n
               PROVE  i + 1 \in 1..n /\ i < n /\ i \in 1..(n - 1) /\ path[i] # t
    OBVIOUS
  <2>1. path[i] # path[n]
    BY <1>2, <1>3, <1>4 DEF Once
  <2> HIDE DEF t
  <2>2. i + 1 \in 1..n /\ i < n /\ i \in 1..(n - 1)
    <3> HIDE DEF n
    <3> QED BY <1>2
  <2> QED BY <2>1, <2>2 DEF t
<1>11. cycles = {} =>
         /\ Grounded(Returned) /\ \A s \in Returned : deps[s] \subseteq Returned
         /\ \A i \in 1..n : \A x \in deps[path[i]] \ untried[path[i]] :
              x \in Returned \/ (i < n /\ x = path[i + 1])
  BY <1>2 DEF SearchInv
<1>12. CASE d \notin visited
  <2>1. path' = Append(path, d) /\ d \notin Members(path) /\ cycles' = cycles
    BY <1>1, <1>3, <1>12
  <2>2. /\ path' \in Seq(PlanSteps) /\ Len(path') = n + 1 /\ path'[n + 1] = d /\ \A i \in 1..n : path'[i] = path[i]
        /\ Members(path') = Members(path) \cup {d} /\ Once(path')
    BY <1>3, <2>1, MembersAppended
  <2>3. DOMAIN path' = 1..(n + 1)
    BY <2>2
  <2>4. Returned' = Returned
    BY <1>1, <1>12, <2>2 DEF Returned
  <2> HIDE DEF n, t
  <2>5. \A i \in 1..(n + 1) : i = n + 1 \/ i \in 1..n
    BY <1>2
  <2>6. \A i \in 1..(Len(path') - 1) : path'[i + 1] \in deps'[path'[i]]
    <3> SUFFICES ASSUME NEW i \in 1..n  PROVE path'[i + 1] \in deps[path'[i]]
      BY <1>1, <1>2, <2>2
    <3>1. CASE i = n
      BY <1>4, <2>2, <3>1 DEF t
    <3>2. CASE i # n
      BY <1>3, <1>10, <2>2, <3>2
    <3> QED BY <3>1, <3>2
  <2>7. ASSUME cycles = {}, NEW i \in 1..(n + 1), NEW x \in deps[path'[i]] \ untried'[path'[i]]
        PROVE  x \in Returned \/ (i < n + 1 /\ x = path'[i + 1])
    <3>1. CASE i = n + 1
      <4>1. path'[i] = d /\ d # t /\ untried'[d] = deps[d]
        BY <1>3, <1>4, <1>5, <1>12, <2>2, <3>1
      <4> QED BY <2>7, <4>1
    <3>2. CASE i = n
      <4>1. path'[i] = t /\ path[i] = t /\ i < n + 1 /\ ~(i < n) /\ path'[i + 1] = d
        BY <1>2, <1>4, <2>2, <3>2 DEF t
      <4>2. x \in deps[t] /\ (x = d \/ x \notin untried[t])
        BY <1>4, <1>5, <2>7, <4>1
      <4> QED BY <1>4, <1>11, <2>7, <3>2, <4>1, <4>2
    <3>3. CASE i # n /\ i # n + 1
      <4>1. i \in 1..n /\ i < n + 1 /\ i + 1 \in 1..n /\ path[i] # t /\ path[i] \in PlanSteps
        <5>1. i \in 1..n /\ i + 1 \in 1..n /\ path[i] # t
          BY <1>10, <2>5, <3>3
        <5>2. path[i] \in PlanSteps
          BY <1>2, <1>3, <5>1
        <5> QED BY <1>2, <5>1, <5>2
      <4>2. path'[i] = path[i] /\ path'[i + 1] = path[i + 1] /\ untried'[path[i]] = untried[path[i]]
        BY <1>5, <2>2, <4>1
      <4> QED BY <1>11, <2>7, <4>1, <4>2
    <3> QED BY <3>1, <3>2, <3>3
  <2>8. cycles' = {} =>
         /\ Grounded(Returned)' /\ \A s \in Returned' : deps'[s] \subseteq Returned'
         /\ \A i \in DOMAIN path' : \A x \in deps'[path'[i]] \ untried'[path'[i]] :
              x \in Returned' \/ (i < Len(path') /\ x = path'[i + 1])
    <3> SUFFICES ASSUME cycles = {}
                 PROVE  /\ Grounded(Returned)' /\ \A s \in Returned' : deps'[s] \subseteq Returned'
                        /\ \A i \in DOMAIN path' : \A x \in deps'[path'[i]] \ untried'[path'[i]] :
                              x \in Returned' \/ (i < Len(path') /\ x = path'[i + 1])
      BY <2>1
    <3>1. Grounded(Returned)'
      BY <1>1, <1>11, <2>4 DEF Grounded
    <3>2. \A s \in Returned' : deps'[s] \subseteq Returned'
      BY <1>1, <1>11, <2>4
    <3>3. \A i \in DOMAIN path' : \A x \in deps'[path'[i]] \ untried'[path'[i]] :
                              x \in Returned' \/ (i < Len(path') /\ x = path'[i + 1])
      BY <1>1, <2>2, <2>3, <2>4, <2>7
    <3> QED BY <3>1, <3>2, <3>3
  <2>9. Members(path') \subseteq visited'
    BY <1>1, <1>3, <2>2
  <2>10. SearchInv'
    BY <1>6, <1>9, <2>2, <2>6, <2>8, <2>9 DEF SearchInv
  <2> QED BY <1>1, <1>5, <2>2, <2>10, SearchAssembled
<1>13. CASE d \in visited
  <2>1. path' = path /\ visited' = visited
    BY <1>1, <1>13
  <2>2. Returned' = Returned /\ Once(path') /\ Members(path') \subseteq visited'
    BY <1>3, <2>1 DEF Returned, Once, Members
  <2>3. ASSUME cycles' = {}
        PROVE  /\ Grounded(Returned)' /\ \A s \in Returned' : deps'[s] \subseteq Returned'
               /\ \A i \in DOMAIN path' : \A x \in deps'[path'[i]] \ untried'[path'[i]] :
                    x \in Returned' \/ (i < Len(path') /\ x = path'[i + 1])
    <3>1. cycles = {} /\ d \in Returned
      BY <1>1, <1>13, <2>3 DEF Returned
    <3>2. Grounded(Returned)'
      BY <1>1, <1>11, <2>2, <3>1 DEF Grounded
    <3>3. ASSUME NEW i \in 1..n, NEW x \in deps[path[i]] \ untried'[path[i]]
          PROVE  x \in Returned \/ (i < n /\ x = path[i + 1])
      <4>1. path[i] \in PlanSteps
        BY <1>2, <1>3
      <4>2. x = d \/ x \notin untried[path[i]]
        BY <1>5, <3>3, <4>1
      <4> QED BY <1>11, <3>1, <3>3, <4>2
    <3> QED BY <1>1, <1>2, <1>11, <2>1, <2>2, <3>1, <3>2, <3>3
  <2>4. SearchInv'
    BY <1>1, <1>3, <1>6, <1>9, <2>1, <2>2, <2>3 DEF SearchInv
  <2> QED BY <1>1, <1>3, <1>5, <2>1, <2>4, SearchAssembled
<1> QED BY <1>12, <1>13

LEMMA Nothing == Members(<<>>) = {} /\ Once(<<>>) /\ InOrder({}) = <<>>
<1>1. Cardinality({}) = 0
  BY FS_EmptySet
<1> QED BY <1>1 DEF Members, Once, InOrder

\* No dependency is left out of a set exactly if as many as none are.
LEMMA NoneLeft ==
  ASSUME PlanTyped, NEW s \in PlanSteps, NEW R
  PROVE  /\ IsFiniteSet(deps[s] \ R) /\ Cardinality(deps[s] \ R) \in Nat
         /\ Cardinality(deps[s] \ R) = 0 <=> deps[s] \subseteq R
<1>1. deps[s] \ R \subseteq PlanSteps
  BY DEF PlanTyped
<1>2. IsFiniteSet(deps[s] \ R)
  BY <1>1, StepsFinite, FS_Subset
<1> QED BY <1>2, FS_CardinalityType, FS_EmptySet

LEMMA BeginSortKeeps ==
  ASSUME PlanInv, BeginSort
  PROVE  PlanInv'
<1> DEFINE free == {s \in PlanSteps : indegree[s] = 0}
<1>1. /\ phase = "cycles" /\ path = <<>> /\ visited = PlanSteps /\ phase' = "sort" /\ queue' = InOrder(free)
      /\ UNCHANGED <<deps, path, visited, untried, cycles, indegree, result, levels>>
  BY DEF BeginSort
<1>2. /\ PlanTyped /\ SearchInv /\ result = <<>> /\ levels = <<>>
      /\ \A s \in PlanSteps : indegree[s] = Cardinality(deps[s])
  BY <1>1, SearchState
<1>3. queue' \in Seq(PlanSteps) /\ Once(queue') /\ Members(queue') = free
  BY <1>1, OrderedOnce
<1>4. PlanTyped'
  BY <1>1, <1>2, <1>3 DEF PlanTyped
<1>5. cycles # {} <=> CyclicPlan
  <2>1. Returned = PlanSteps
    BY <1>1, Nothing DEF Returned
  <2> QED BY <1>2, <2>1, GroundedOrCyclic DEF SearchInv
<1>6. CyclicPlan' <=> CyclicPlan
  BY <1>1 DEF CyclicPlan
<1>7. Members(result') = {} /\ Once(result') /\ DOMAIN result' = {}
  BY <1>1, <1>2, Nothing
<1>8. SortInv'
  <2>1. \A s \in PlanSteps : indegree'[s] = Cardinality(deps'[s] \ Members(result'))
    BY <1>1, <1>2, <1>7
  <2>2. \A s \in PlanSteps : indegree'[s] = 0 <=> s \in Members(result') \cup Members(queue')
    BY <1>1, <1>3, <1>7
  <2> QED BY <1>3, <1>7, <2>1, <2>2 DEF SortInv, Sorted
<1> QED BY <1>1, <1>2, <1>4, <1>5, <1>6, <1>8 DEF PlanInv

LEMMA PopStepKeeps ==
  ASSUME PlanInv, PopStep
  PROVE  PlanInv'
<1> DEFINE head == Head(queue)
           less == [s \in PlanSteps |-> IF head \in deps[s] THEN indegree[s] - 1 ELSE indegree[s]]
           freed == {s \in PlanSteps : head \in deps[s] /\ less[s] = 0}
           R == Members(result)
           Q == Members(queue)
<1>1. /\ phase = "sort" /\ queue # <<>> /\ result' = Append(result, head) /\ indegree' = less
      /\ queue' = Tail(queue) \o InOrder(freed)
      /\ UNCHANGED <<deps, phase, path, visited, untried, cycles, levels>>
  BY DEF PopStep
<1>2. /\ PlanTyped /\ path = <<>> /\ (cycles # {} <=> CyclicPlan) /\ levels = <<>>
      /\ Once(result) /\ Once(queue) /\ R \cap Q = {} /\ Sorted
      /\ \A s \in PlanSteps : indegree[s] = Cardinality(deps[s] \ R)
      /\ \A s \in PlanSteps : indegree[s] = 0 <=> s \in R \cup Q
  BY <1>1 DEF PlanInv, SortInv
<1>3. /\ queue \in Seq(PlanSteps) /\ result \in Seq(PlanSteps) /\ indegree \in [PlanSteps -> Nat]
      /\ deps \in [PlanSteps -> SUBSET PlanSteps]
  BY <1>2 DEF PlanTyped
<1>4. /\ head \in PlanSteps /\ head \in Q /\ Tail(queue) \in Seq(PlanSteps) /\ Once(Tail(queue))
      /\ Members(Tail(queue)) = Q \ {head}
  BY <1>1, <1>2, <1>3, MembersTail
<1>5. head \notin R /\ deps[head] \subseteq R
  BY <1>2, <1>4, NoneLeft
<1>6. /\ result' \in Seq(PlanSteps) /\ Len(result') = Len(result) + 1 /\ Len(result) \in Nat
      /\ result'[Len(result) + 1] = head /\ \A i \in 1..Len(result) : result'[i] = result[i]
      /\ Members(result') = R \cup {head} /\ Once(result')
  BY <1>1, <1>2, <1>3, <1>4, <1>5, MembersAppended
<1>7. InOrder(freed) \in Seq(PlanSteps) /\ Once(InOrder(freed)) /\ Members(InOrder(freed)) = freed
  <2>1. freed \in SUBSET PlanSteps
    OBVIOUS
  <2> HIDE DEF freed
  <2> QED BY <2>1, OrderedOnce
<1>8. \A s \in PlanSteps :
        /\ less[s] = Cardinality(deps[s] \ (R \cup {head})) /\ less[s] \in Nat
        /\ head \in deps[s] => indegree[s] # 0 /\ less[s] = indegree[s] - 1
        /\ head \notin deps[s] => less[s] = indegree[s]
  <2> TAKE s \in PlanSteps
  <2>1. less[s] = IF head \in deps[s] THEN indegree[s] - 1 ELSE indegree[s]
    OBVIOUS
  <2> HIDE DEF less, head, R
  <2>2. (deps[s] \ R) \ {head} = deps[s] \ (R \cup {head}) /\ (head \in deps[s] \ R <=> head \in deps[s])
    BY <1>5
  <2>3. IsFiniteSet(deps[s] \ R) /\ indegree[s] = Cardinality(deps[s] \ R) /\ indegree[s] \in Nat
    BY <1>2, <1>3, NoneLeft
  <2>4. Cardinality((deps[s] \ R) \ {head}) = IF head \in deps[s] \ R THEN Cardinality(deps[s] \ R) - 1 ELSE Cardinality(deps[s] \ R)
    BY <2>3, FS_RemoveElement
  <2>5. less[s] = Cardinality(deps[s] \ (R \cup {head}))
    BY <2>1, <2>2, <2>3, <2>4
  <2>6. less[s] \in Nat
    <3> DEFINE S == R \cup {head}
    <3>1. less[s] = Cardinality(deps[s] \ S)
      BY <2>5
    <3> HIDE DEF S
    <3>2. PlanTyped
      BY <1>2
    <3>3. Cardinality(deps[s] \ S) \in Nat
      BY <3>2, NoneLeft
    <3> QED BY <3>1, <3>3
  <2>7. head \in deps[s] => indegree[s] # 0
    BY <2>1, <2>3, <2>6
  <2> QED BY <2>1, <2>5, <2>6, <2>7
<1>9. indegree' \in [PlanSteps -> Nat]
  <2>1. indegree' = [s \in PlanSteps |-> less[s]]
    BY <1>1
  <2> HIDE DEF less
  <2> QED BY <1>8, <2>1
<1>10. freed \cap (R \cup Q) = {}
  BY <1>2, <1>8
<1>11. \A s \in PlanSteps : less[s] = 0 <=> s \in (R \cup Q) \cup freed
  <2> TAKE s \in PlanSteps
  <2>1. CASE head \in deps[s]
    <3>1. s \in freed <=> less[s] = 0
      BY <2>1
    <3>2. s \notin R \cup Q
      BY <1>2, <1>8, <2>1
    <3> QED BY <3>1, <3>2
  <2>2. CASE head \notin deps[s]
    BY <1>2, <1>8, <2>2
  <2> QED BY <2>1, <2>2
<1> HIDE DEF less, freed, head, R, Q
<1>12. queue' \in Seq(PlanSteps) /\ Members(queue') = (Q \ {head}) \cup freed /\ Once(queue')
  <2>1. Members(Tail(queue)) \cap Members(InOrder(freed)) = {}
    BY <1>4, <1>7, <1>10
  <2> DEFINE a == Tail(queue)
             b == InOrder(freed)
  <2>2. /\ a \in Seq(PlanSteps) /\ b \in Seq(PlanSteps) /\ Once(a) /\ Once(b)
        /\ Members(a) \cap Members(b) = {} /\ Members(a) = Q \ {head} /\ Members(b) = freed /\ queue' = a \o b
    BY <1>1, <1>4, <1>7, <2>1
  <2> HIDE DEF a, b
  <2>3. a \o b \in Seq(PlanSteps) /\ Members(a \o b) = Members(a) \cup Members(b) /\ Once(a \o b)
    BY <2>2, MembersJoined
  <2> QED BY <2>2, <2>3
<1>13. PlanTyped'
  BY <1>1, <1>2, <1>6, <1>9, <1>12 DEF PlanTyped
<1>14. Members(result') \cap Members(queue') = {}
  BY <1>2, <1>4, <1>6, <1>10, <1>12
<1>15. Sorted'
  <2> SUFFICES ASSUME NEW k \in 1..(Len(result) + 1), NEW d \in deps[result'[k]]
               PROVE  \E i \in 1..(k - 1) : result'[i] = d
    <3>1. DOMAIN result' = 1..(Len(result) + 1)
      BY <1>6
    <3> QED BY <1>1, <3>1 DEF Sorted
  <2>1. CASE k = Len(result) + 1
    <3>1. d \in R
      BY <1>5, <1>6, <2>1
    <3>2. PICK i \in 1..Len(result) : result[i] = d
      BY <1>3, <3>1 DEF R, Members
    <3> QED BY <1>6, <2>1, <3>2
  <2>2. CASE k # Len(result) + 1
    <3>1. k \in 1..Len(result) /\ \A i \in 1..(k - 1) : i \in 1..Len(result)
      BY <1>6, <2>2
    <3>2. k \in DOMAIN result /\ result'[k] = result[k]
      BY <1>3, <1>6, <3>1
    <3>3. PICK i \in 1..(k - 1) : result[i] = d
      BY <1>2, <3>2 DEF Sorted
    <3> QED BY <1>6, <3>1, <3>3
  <2> QED BY <2>1, <2>2
<1>16. \A s \in PlanSteps : indegree'[s] = Cardinality(deps'[s] \ Members(result'))
  BY <1>1, <1>6, <1>8
<1>17. \A s \in PlanSteps : indegree'[s] = 0 <=> s \in Members(result') \cup Members(queue')
  <2>1. Members(result') \cup Members(queue') = (R \cup Q) \cup freed
    BY <1>4, <1>6, <1>12
  <2> QED BY <1>1, <1>11, <2>1
<1>18. SortInv'
  BY <1>6, <1>12, <1>14, <1>15, <1>16, <1>17 DEF SortInv
<1>19. CyclicPlan' <=> CyclicPlan
  BY <1>1 DEF CyclicPlan
<1> QED BY <1>1, <1>2, <1>13, <1>18, <1>19 DEF PlanInv

LEMMA EndSortKeeps ==
  ASSUME PlanInv, EndSort
  PROVE  PlanInv'
<1> DEFINE R == Members(result)
           rest == {s \in PlanSteps : ~InSeq(s, result)}
<1>1. /\ phase = "sort" /\ queue = <<>> /\ result' = result \o InOrder(rest)
      /\ phase' = IF cycles = {} THEN "levels" ELSE "invalid"
      /\ UNCHANGED <<deps, path, visited, untried, cycles, indegree, queue, levels>>
  BY DEF EndSort
<1>2. /\ PlanTyped /\ path = <<>> /\ (cycles # {} <=> CyclicPlan) /\ levels = <<>>
      /\ Once(result) /\ R \cap Members(queue) = {} /\ Sorted
      /\ \A s \in PlanSteps : indegree[s] = Cardinality(deps[s] \ R)
      /\ \A s \in PlanSteps : indegree[s] = 0 <=> s \in R \cup Members(queue)
  BY <1>1 DEF PlanInv, SortInv
<1>3. result \in Seq(PlanSteps) /\ deps \in [PlanSteps -> SUBSET PlanSteps] /\ Members(queue) = {}
  BY <1>1, <1>2, Nothing DEF PlanTyped
<1>4. rest = PlanSteps \ R
  BY InSeqMembers
<1>5. InOrder(rest) \in Seq(PlanSteps)
  <2>1. rest \in SUBSET PlanSteps
    OBVIOUS
  <2> HIDE DEF rest
  <2> QED BY <2>1, OrderedOnce
<1> HIDE DEF rest
<1>6. PlanTyped'
  <2>1. result' \in Seq(PlanSteps)
    BY <1>1, <1>3, <1>5
  <2> QED BY <1>1, <1>2, <2>1 DEF PlanTyped
<1>7. CyclicPlan' <=> CyclicPlan
  BY <1>1 DEF CyclicPlan
<1>8. ASSUME cycles = {}  PROVE result' = result /\ R = PlanSteps
  <2>1. \A s \in rest : deps[s] \cap rest # {}
    <3> TAKE s \in rest
    <3>1. s \in PlanSteps /\ indegree[s] # 0
      BY <1>2, <1>3, <1>4
    <3>2. ~(deps[s] \subseteq R)
      BY <1>2, <3>1, NoneLeft
    <3> QED BY <1>3, <1>4, <3>1, <3>2
  <2>2. rest = {}
    BY <1>2, <1>4, <1>8, <2>1 DEF CyclicPlan
  <2>3. result' = result \o <<>>
    BY <1>1, <2>2, Nothing
  <2>4. R \subseteq PlanSteps
    BY <1>3 DEF Members
  <2> QED BY <1>3, <1>4, <2>2, <2>3, <2>4
<1>9. DOMAIN levels' = {} /\ levels' = <<>>
  BY <1>1, <1>2
<1>10. CASE cycles = {}
  <2>1. phase' = "levels" /\ cycles' = {} /\ Once(result') /\ Members(result') = PlanSteps
    BY <1>1, <1>2, <1>8, <1>10
  <2>2. Sorted'
    BY <1>1, <1>2, <1>8, <1>10 DEF Sorted
  <2> QED BY <1>1, <1>2, <1>6, <1>7, <1>9, <2>1, <2>2 DEF PlanInv
<1>11. CASE cycles # {}
  BY <1>1, <1>2, <1>6, <1>7, <1>9, <1>11 DEF PlanInv
<1> QED BY <1>10, <1>11

LEMMA NextLevelKeeps ==
  ASSUME PlanInv, NextLevel
  PROVE  PlanInv'
<1> DEFINE level == {s \in PlanSteps \ Levelled : deps[s] \subseteq Levelled}
<1>1. /\ phase = "levels"
      /\ IF level = {} THEN phase' = "done" /\ levels' = levels ELSE levels' = Append(levels, level) /\ phase' = phase
      /\ UNCHANGED <<deps, path, visited, untried, cycles, indegree, queue, result>>
  BY DEF NextLevel
<1>2. /\ PlanTyped /\ path = <<>> /\ ~CyclicPlan /\ cycles = {}
      /\ Once(result) /\ Members(result) = PlanSteps /\ Sorted
      /\ \A i \in DOMAIN levels : \A s \in levels[i] : deps[s] \cap levels[i] = {}
  BY <1>1 DEF PlanInv
<1>3. /\ levels \in Seq(SUBSET PlanSteps) /\ deps \in [PlanSteps -> SUBSET PlanSteps]
      /\ Len(levels) \in Nat /\ DOMAIN levels = 1..Len(levels)
  BY <1>2 DEF PlanTyped
<1>4. Levelled \subseteq PlanSteps
  BY <1>3 DEF Levelled
<1>5. level \in SUBSET PlanSteps /\ \A s \in level : deps[s] \cap level = {}
  OBVIOUS
<1>6. level = {} => Levelled = PlanSteps
  <2> SUFFICES ASSUME level = {}  PROVE PlanSteps \ Levelled = {}
    BY <1>4
  <2>1. \A s \in PlanSteps \ Levelled : deps[s] \cap (PlanSteps \ Levelled) # {}
    BY <1>3
  <2> QED BY <1>2, <2>1 DEF CyclicPlan
<1> HIDE DEF level
<1>7. ~CyclicPlan' /\ Sorted' /\ Once(result')
  BY <1>1, <1>2 DEF CyclicPlan, Sorted, Once
<1>8. CASE level = {}
  <2>1. PlanTyped'
    BY <1>1, <1>2, <1>8 DEF PlanTyped
  <2>2. phase' = "done" /\ levels' = levels /\ Levelled' = PlanSteps
    BY <1>1, <1>6, <1>8 DEF Levelled
  <2> QED BY <1>1, <1>2, <1>7, <2>1, <2>2 DEF PlanInv
<1>9. CASE level # {}
  <2>1. phase' = "levels" /\ levels' = Append(levels, level)
    BY <1>1, <1>9
  <2>2. /\ levels' \in Seq(SUBSET PlanSteps) /\ Len(levels') = Len(levels) + 1
        /\ levels'[Len(levels) + 1] = level /\ \A i \in 1..Len(levels) : levels'[i] = levels[i]
    BY <1>3, <1>5, <2>1, MembersAppended
  <2>3. PlanTyped'
    BY <1>1, <1>2, <2>1, <2>2 DEF PlanTyped
  <2>4. DOMAIN levels' = 1..(Len(levels) + 1)
    BY <2>2
  <2>5. \A i \in DOMAIN levels' : \A s \in levels'[i] : deps'[s] \cap levels'[i] = {}
    <3> SUFFICES ASSUME NEW i \in 1..(Len(levels) + 1)
                 PROVE  \A s \in levels'[i] : deps[s] \cap levels'[i] = {}
      BY <1>1, <2>4
    <3>1. i = Len(levels) + 1 \/ i \in DOMAIN levels
      BY <1>3
    <3> QED BY <1>2, <1>3, <1>5, <2>2, <3>1
  <2> QED BY <1>1, <1>2, <1>7, <2>1, <2>3, <2>5 DEF PlanInv
<1> QED BY <1>8, <1>9

LEMMA PlanBegins == PlanInit => PlanInv
<1> SUFFICES ASSUME PlanInit  PROVE PlanInv
  OBVIOUS
<1>1. /\ deps \in [PlanSteps -> SUBSET PlanSteps] /\ phase = "cycles" /\ path = <<>> /\ visited = {}
      /\ untried = deps /\ cycles = {} /\ indegree = [s \in PlanSteps |-> Cardinality(deps[s])]
      /\ queue = <<>> /\ result = <<>> /\ levels = <<>>
  BY DEF PlanInit
<1>2. \A s \in PlanSteps : indegree[s] = Cardinality(deps[s]) /\ Cardinality(deps[s]) \in Nat
  <2> TAKE s \in PlanSteps
  <2>1. IsFiniteSet(deps[s])
    BY <1>1, StepsFinite, FS_Subset
  <2> QED BY <1>1, <2>1, FS_CardinalityType
<1>3. indegree \in [PlanSteps -> Nat]
  BY <1>1, <1>2
<1>4. PlanTyped
  BY <1>1, <1>3 DEF PlanTyped
<1>5. Returned = {} /\ Members(path) = {} /\ Once(path) /\ DOMAIN path = {} /\ DOMAIN levels = {} /\ Len(path) = 0
  BY <1>1, Nothing DEF Returned
<1>6. SearchInv
  <2>1. Grounded(Returned)
    BY <1>5 DEF Grounded
  <2>2. 1..(Len(path) - 1) = {}
    BY <1>5
  <2> QED BY <1>1, <1>5, <2>1, <2>2 DEF SearchInv
<1> QED BY <1>1, <1>2, <1>4, <1>5, <1>6 DEF PlanInv

LEMMA PlanStep == PlanInv /\ [PlanNext]_planVars => PlanInv'
<1> SUFFICES ASSUME PlanInv, [PlanNext]_planVars  PROVE PlanInv'
  OBVIOUS
<1>1. ASSUME NEW s \in PlanSteps, StartSearch(s)  PROVE PlanInv'
  BY <1>1, StartKeeps
<1>2. ASSUME NEW s \in PlanSteps, VisitDependency(s)  PROVE PlanInv'
  BY <1>2, VisitKeeps
<1>3. CASE UNCHANGED planVars
  <2>1. /\ deps' = deps /\ phase' = phase /\ path' = path /\ visited' = visited /\ untried' = untried
        /\ cycles' = cycles /\ indegree' = indegree /\ queue' = queue /\ result' = result /\ levels' = levels
    BY <1>3 DEF planVars
  <2>2. PlanTyped' <=> PlanTyped
    BY <2>1 DEF PlanTyped
  <2>3. (CyclicPlan' <=> CyclicPlan) /\ Returned' = Returned /\ (Sorted' <=> Sorted) /\ Levelled' = Levelled
    BY <2>1 DEF CyclicPlan, Returned, Sorted, Levelled
  <2>4. Grounded(Returned)' <=> Grounded(Returned)
    BY <2>1, <2>3 DEF Grounded
  <2>5. SearchInv' <=> SearchInv
    BY <2>1, <2>3, <2>4 DEF SearchInv
  <2>6. SortInv' <=> SortInv
    BY <2>1, <2>3 DEF SortInv
  <2> QED BY <2>1, <2>2, <2>3, <2>5, <2>6 DEF PlanInv
<1> QED BY <1>1, <1>2, <1>3, ReturnKeeps, BeginSortKeeps, PopStepKeeps, EndSortKeeps, NextLevelKeeps DEF PlanNext

LEMMA PlansFromInv == PlanInv => PlansRunInOrder
<1> SUFFICES ASSUME PlanInv  PROVE PlansRunInOrder
  OBVIOUS
<1>1. PlanTyped
  BY DEF PlanInv
<1>2. Once(path)
  BY Nothing DEF PlanInv, SearchInv
<1>3. PlanTypeOK
  BY <1>1, <1>2 DEF PlanTypeOK, PlanTyped, Once
<1>4. CyclesFound
  BY DEF PlanInv, CyclesFound
<1>5. OrderRespectsDependencies
  <2> SUFFICES ASSUME phase \in {"levels", "done"}
               PROVE  /\ Len(result) = StepCount
                      /\ \A s \in PlanSteps : \A d \in deps[s] :
                           \E i, k \in DOMAIN result : i < k /\ result[i] = d /\ result[k] = s
    BY DEF OrderRespectsDependencies
  <2>1. Once(result) /\ Members(result) = PlanSteps /\ Sorted /\ result \in Seq(PlanSteps)
    BY <1>1 DEF PlanInv, PlanTyped
  <2>2. Len(result) = StepCount
    BY <2>1, MembersCounted, StepsFinite
  <2>3. ASSUME NEW s \in PlanSteps, NEW d \in deps[s]
        PROVE  \E i, k \in DOMAIN result : i < k /\ result[i] = d /\ result[k] = s
    <3>1. PICK k \in DOMAIN result : result[k] = s
      BY <2>1 DEF Members
    <3>2. PICK i \in 1..(k - 1) : result[i] = d
      BY <2>1, <3>1 DEF Sorted
    <3>3. i \in DOMAIN result /\ i < k
      BY <2>1
    <3> QED BY <3>1, <3>2, <3>3
  <2> QED BY <2>2, <2>3
<1>6. LevelsAreParallel
  BY DEF PlanInv, LevelsAreParallel
<1> QED BY <1>3, <1>4, <1>5, <1>6 DEF PlansRunInOrder

-----------------------------------------------------------------------------
(* The parts together.                                                     *)

OrchInv == SchedInv /\ SupInv /\ PoolInv /\ SkillInv /\ PlanInv

LEMMA OrchInvariant == Spec => []OrchInv
<1>1. Init => OrchInv
  BY SchedInitInv, SupInitInv, PoolInitInv, SkillInitInv, PlanBegins DEF Init, OrchInv
<1>2. OrchInv /\ [Next]_vars => OrchInv'
  BY PartSteps, SchedStep, SupStep, PoolStep, SkillStep, PlanStep DEF OrchInv
<1> QED BY <1>1, <1>2, PTL DEF Spec

\* Rows written back whole from old snapshots keep their shape, and never leave a
\* supervised job claimed or running without an owner and a lease.
THEOREM OrchestrationTypes == Spec => []OrchTypeOK
<1>1. SupInv => NeverOrphaned
  BY DEF SupInv, OwnedRow, NeverOrphaned
<1>2. OrchInv => OrchTypeOK
  BY <1>1, SkillOrder DEF OrchInv, SchedInv, SupInv, PoolInv, OrchTypeOK
<1> QED BY <1>2, OrchInvariant, PTL

\* A task is handed out only after its dependencies, tasks that wait for each other
\* are never admitted, and a step of a contract begins when what it needs is done,
\* and outlives a rollback only with it.
THEOREM WorkRunsInOrder == Spec => []TasksInOrder
<1>1. SchedInv => DependenciesFirst /\ NoDeadlockAdmitted
  BY DEF SchedInv, RowKept, DependenciesFirst
<1>2. OrchInv => TasksInOrder
  BY <1>1, SkillOrder DEF OrchInv, TasksInOrder
<1> QED BY <1>2, OrchInvariant, PTL

\* Evictions, reassignments and late answers lose no job of the pool, and leave none
\* pending on a node that is offline.
THEOREM PoolLosesNothing == Spec => []PoolIsSound
<1>1. OrchInv => PoolIsSound
  BY DEF OrchInv, PoolInv, PoolIsSound
<1> QED BY <1>1, OrchInvariant, PTL

\* No stale write, late verdict or late answer brings back a supervised job, a
\* scheduled task or a job of the pool that has ended.
THEOREM EndsStayFinal == Spec => EndsAreFinal
<1>1. OrchInv /\ [Next]_vars => [\A j \in Jobs : Settled(j) => Settled(j)']_supVars
  BY PartSteps, JobEndsStay DEF OrchInv
<1>2. OrchInv /\ [Next]_vars => [\A i \in Tasks : TaskSettled(i) => TaskSettled(i)']_schedVars
  BY PartSteps, TaskEndsStay DEF OrchInv
<1>3. OrchInv /\ [Next]_vars => [\A j \in RJobs : place[j] = "completed" => place'[j] = "completed"]_poolVars
  BY PartSteps, AnswersStay DEF OrchInv
<1> QED BY <1>1, <1>2, <1>3, OrchInvariant, PTL
         DEF Spec, EndsAreFinal, EndIsFinal, TaskEndIsFinal, AnswerIsFinal

\* Whatever a plan's steps depend on: the search meets a cycle in exactly the plans
\* that have one, the sort of any other puts every step once and behind all it depends
\* on, and its levels hold every step, none beside one it depends on (validate_plan,
\* get_execution_order).
THEOREM PlansStayInOrder == Spec => []PlansRunInOrder
<1>1. OrchInv => PlansRunInOrder
  BY PlansFromInv DEF OrchInv
<1> QED BY <1>1, OrchInvariant, PTL
=============================================================================
