----------------------------- MODULE MCPlatform -----------------------------
(***************************************************************************)
(* The parts around the missions: who may ask (identity, rate limits,      *)
(* submission), what is recorded (audit, the Postgres store), what does    *)
(* the work (repository worker, worktree root, edit engine, model calls    *)
(* and their routing, computer use) and what runs and improves the program *)
(* (launcher, gateway, governed improvement, evaluation).  They share no   *)
(* state, so one run explores each of them with the others at rest; focus  *)
(* says which, and never changes.                                          *)
(***************************************************************************)
EXTENDS AuditChain, RateLimiter, ApiIdentity, ProductSubmission, PgStore, PgAudit,
        Launcher, RepoWorker, EditEngine, LLMChat, Gateway, Improvement,
        ComputerControl, LiveEvaluation, ModelRouting,
        WorktreeRoot, TLC

VARIABLE focus

vars == <<auditVars, rateVars, identityVars, submissionVars, pgVars, pgAuditVars,
          launcherVars, workerVars, editVars, chatVars, gatewayVars, improveVars, controlVars, evalVars,
          routingVars, rootVars, focus>>

OneClient     == [m \in PgMissions |-> "client"]
TwoNames(n)   == IF n = "./a" THEN "a" ELSE n
ChatStyles    == <<"9router", "ollama">>
ChatRoutes    == <<"r1", "r2">>
ChatFallbacks == <<"r2", "r3">>

\* default_registry, with a second local model that is not good enough to be preferred.
Registry ==
  <<[local |-> TRUE,  context |-> 1, tools |-> FALSE, able |-> TRUE,  cost |-> 0, merit |-> [simple |-> 4, hard |-> 3]],
    [local |-> TRUE,  context |-> 1, tools |-> FALSE, able |-> FALSE, cost |-> 0, merit |-> [simple |-> 4, hard |-> 2]],
    [local |-> FALSE, context |-> 2, tools |-> TRUE,  able |-> TRUE,  cost |-> 2, merit |-> [simple |-> 5, hard |-> 6]],
    [local |-> FALSE, context |-> 3, tools |-> TRUE,  able |-> TRUE,  cost |-> 3, merit |-> [simple |-> 5, hard |-> 6]]>>
AnyTask == [complexity |-> "simple", tools |-> FALSE, context |-> 1, budget |-> 3, place |-> "any",
            denied |-> {}, retries |-> 0]
Asks == {AnyTask, [AnyTask EXCEPT !.place = "prefer_local", !.denied = {3}, !.retries = 1],
         [AnyTask EXCEPT !.complexity = "hard", !.place = "remote_only", !.budget = 2],
         [AnyTask EXCEPT !.tools = TRUE, !.place = "local_only"]}

\* Model values of one set are alike: submissions and missions, goals and agents.
Alike == Permutations(Calls) \cup Permutations(Goals)

Init ==
  /\ focus \in {"audit", "rate", "identity", "submission", "pgstore", "pgaudit",
                "launcher", "worker", "edits", "chat", "gateway", "improvement", "control",
                "evaluation", "routing", "root"}
  /\ AuditInit /\ RateInit /\ IdentityInit /\ PgInit /\ PgAuditInit
  /\ LauncherInit /\ EditInit /\ ImproveInit /\ ControlInit /\ EvalInit /\ RoutingInit
  /\ RootInit /\ (focus # "root" => dirs["earlier"] = "none" /\ atomic)
  /\ SubmissionInit /\ (focus # "submission" => mapping = [k \in IdKeys |-> "none"])
  /\ WorkerInit /\ (focus # "worker" => mission = [llm |-> FALSE, keep |-> FALSE])
  /\ ChatInit /\ (focus # "chat" => down = {})
  /\ GatewayInit /\ (focus # "gateway" => gateway = "up")

Next ==
  /\ UNCHANGED focus
  /\ IF focus = "audit"       THEN AuditNext      ELSE UNCHANGED auditVars
  /\ IF focus = "rate"        THEN RateNext       ELSE UNCHANGED rateVars
  /\ IF focus = "identity"    THEN IdentityNext   ELSE UNCHANGED identityVars
  /\ IF focus = "submission"  THEN SubmissionNext ELSE UNCHANGED submissionVars
  /\ IF focus = "pgstore"     THEN PgNext         ELSE UNCHANGED pgVars
  /\ IF focus = "pgaudit"     THEN PgAuditNext    ELSE UNCHANGED pgAuditVars
  /\ IF focus = "launcher"    THEN LauncherNext   ELSE UNCHANGED launcherVars
  /\ IF focus = "worker"      THEN WorkerNext     ELSE UNCHANGED workerVars
  /\ IF focus = "edits"       THEN EditNext       ELSE UNCHANGED editVars
  /\ IF focus = "chat"        THEN ChatNext       ELSE UNCHANGED chatVars
  /\ IF focus = "gateway"     THEN GatewayNext    ELSE UNCHANGED gatewayVars
  /\ IF focus = "improvement" THEN ImproveNext    ELSE UNCHANGED improveVars
  /\ IF focus = "control"     THEN ControlNext    ELSE UNCHANGED controlVars
  /\ IF focus = "evaluation"  THEN EvalNext       ELSE UNCHANGED evalVars
  /\ IF focus = "routing"     THEN RoutingNext    ELSE UNCHANGED routingVars
  /\ IF focus = "root"        THEN RootNext       ELSE UNCHANGED rootVars

Spec == Init /\ [][Next]_vars

-----------------------------------------------------------------------------
\* The types of the parts, with what their comments say of the shapes.
PlatformTypeOK ==
  /\ focus = "audit"       => AuditTypeOK
  /\ focus = "rate"        => RateTypeOK
  /\ focus = "identity"    => IdentityTypeOK
  /\ focus = "submission"  => SubmissionTypeOK
  /\ focus = "pgstore"     => PgTypeOK
  /\ focus = "pgaudit"     => PgAuditTypeOK
  /\ focus = "launcher"    => LauncherTypeOK
  /\ focus = "worker"      => WorkerTypeOK
  /\ focus = "edits"       => EditTypeOK
  /\ focus = "chat"        => ChatTypeOK
  /\ focus = "gateway"     => GatewayTypeOK
  /\ focus = "improvement" => ImproveTypeOK
  /\ focus = "control"     => ControlTypeOK
  /\ focus = "evaluation"  => EvalTypeOK
  /\ focus = "routing"     => RoutingTypeOK
  /\ focus = "root"        => RootTypeOK

\* The audit trail: an untouched one verifies, damage is seen, pruning loses nothing
\* (AuditStore.append, prune, verify).
TrailIsSound == NoFalseAlarm /\ DamageIsSeen /\ NothingLost

\* Who is let in: no anonymous superadmin once there is a credential, no key that was
\* rotated away (resolve_principal, open_dev_mode, AdminStore).
AdmissionIsSound == ClosedForGood /\ OldKeyIsDead

\* Submitting is idempotent: one mission and one answer for a key, one active mission for
\* a goal (submit_product_mission, create_mission, submit_idempotent_mission).
SubmittedOnce == OneMissionPerKey /\ SameAnswer /\ OneActivePerGoal

\* A plan that fails leaves no trace, what is committed has passed validation, a
\* cancellation comes before the commit or not at all, and nobody removes the worktree
\* of another at work (edit_engine.py, RepoCodeWorker, worktree_guard.py).
EditsAreSafe == LiveTreesStay /\ RestoreIsExact /\ CommitIsWhatPassed /\ CancelStopsTheCommit

\* A fault of a provider is retried, on another route or model where there is one, only
\* such a fault makes an evaluation case BLOCKED_EXTERNAL, and a model is ranked by what
\* it did (LocalLLMProvider.chat, execute_case, AgentRuntimeRouter.run).
FaultsAreJudged == FailsOver /\ OutagesAreExternal /\ HistoryIsEarned /\ BlockedIsLast

\* What is active was approved, is one version, and changes along the lineage
\* (ActivationStore.activate and rollback).
ActivationIsSound == []ActivationIsGoverned /\ ActiveFollowsLineage
=============================================================================
