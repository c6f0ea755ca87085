--------------------------- MODULE MCOrchestration ---------------------------
(***************************************************************************)
(* The parts that decide what runs, when and where: plans, the scheduler,  *)
(* the supervisor, the remote pool, the skill engine.  In the program they *)
(* share no state, so one run explores each of them with the others at     *)
(* rest; focus says which, and never changes.                              *)
(***************************************************************************)
EXTENDS Planning, Scheduler, Supervisor, RemotePool, SkillExecution, TLC

CONSTANTS w1, w2, op, j1, j2

VARIABLE focus

vars == <<planVars, schedVars, supVars, poolVars, skillVars, focus>>

\* Task 3 waits for itself: no plan with it is admitted.
TaskGraph == 1 :> {} @@ 2 :> {1} @@ 3 :> {3}
ThreeSteps == 1..3

Init ==
  /\ focus \in {"planning", "scheduler", "supervisor", "pool", "skills"}
  /\ PlanInit /\ (focus # "planning" => deps = [s \in PlanSteps |-> {}])
  /\ SkillInit /\ (focus # "skills" => needs = [s \in SkillSteps |-> {}])
  /\ SchedInit /\ SupInit /\ PoolInit

Next ==
  /\ UNCHANGED focus
  /\ \/ /\ focus = "planning" /\ PlanNext
        /\ UNCHANGED <<schedVars, supVars, poolVars, skillVars>>
     \/ /\ focus = "scheduler" /\ SchedNext
        /\ UNCHANGED <<planVars, supVars, poolVars, skillVars>>
     \/ /\ focus = "supervisor" /\ SupNext
        /\ UNCHANGED <<planVars, schedVars, poolVars, skillVars>>
     \/ /\ focus = "pool" /\ PoolNext
        /\ UNCHANGED <<planVars, schedVars, supVars, skillVars>>
     \/ /\ focus = "skills" /\ SkillNext
        /\ UNCHANGED <<planVars, schedVars, supVars, poolVars>>

\* The fairness of a part at rest holds by itself: none of its fair actions is enabled.
Spec == Init /\ [][Next]_vars /\ SupFairness /\ PoolFairness

-----------------------------------------------------------------------------
\* The types of the parts, in each of which rows written from old snapshots must
\* keep their shape; and no supervised job is running without an owner and a lease.
OrchTypeOK == SchedTypeOK /\ SupTypeOK /\ NeverOrphaned /\ PoolTypeOK /\ SkillTypeOK

\* Ends are final, however late a stale write, a verdict or an answer comes: of
\* supervised jobs, scheduled tasks and jobs of the pool (Supervisor.cancel,
\* SchedulerStore.transact_task, RemoteWorkerPool.submit_result).
EndsAreFinal == EndIsFinal /\ TaskEndIsFinal /\ AnswerIsFinal

\* A task is handed out after its dependencies, and tasks that wait for each other
\* are not admitted at all (refresh_readiness, _reject_cycles); the skill engine
\* begins a step when what it depends on is done (SkillExecutionEngine.execute).
TasksInOrder == DependenciesFirst /\ NoDeadlockAdmitted /\ StepsRunInOrder

\* Evictions, reassignments and late answers lose no job, and none is pending on a
\* node that is offline (RemoteWorkerPool, RemoteDispatcher.reassign_orphans).
PoolIsSound == NoJobLost /\ OfflineHoldsNothing

\* The order of a plan is kept twice over: the sort puts every step behind its
\* dependencies, and the levels of a plan may run in parallel (validate_plan,
\* get_execution_order).
PlansRunInOrder ==
  PlanTypeOK /\ CyclesFound /\ OrderRespectsDependencies /\ LevelsAreParallel
=============================================================================
