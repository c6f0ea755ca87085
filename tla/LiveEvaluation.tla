---------------------------- MODULE LiveEvaluation ----------------------------
(* One live benchmark case, app/eval/live/executor.py: the repository worker   *)
(* asks a provider for a plan and for repairs, its result is read back from    *)
(* error types and message texts, and the case is verified and scored.         *)
EXTENDS Naturals

CONSTANTS WireRetries,     \* max_retries of the provider
          ParseRetries,    \* parse_recovery_config()
          RepairRetries,   \* max_retries of the worker
          EditsCheckout    \* does the coder edit the checkout, or a worktree of its own?

ASSUME EvalAssumption ==
  WireRetries \in Nat /\ ParseRetries \in Nat /\ RepairRetries \in Nat /\ EditsCheckout \in BOOLEAN

\* Of LiveProviderError: what a retry may cure, what it may not, and what is no outage.
Transient == {"unavailable", "timeout", "rate_limited", "server"}
Outages == Transient \cup {"auth", "other"}
Failures == Outages \cup {"malformed"}

VARIABLES call,      \* the provider call under way: its attempts, and the parses so far
          coder,     \* the worker: where it is, repairs so far, and its error type
          bench      \* the case: where it is, is there a checkout, and the outcome

evalVars == <<call, coder, bench>>

NoCall == [tries |-> 0, parses |-> 0, last |-> "none"]

EvalInit ==
  /\ call = NoCall
  /\ coder = [pc |-> "idle", repairs |-> 0, error |-> "none", edited |-> FALSE]
  /\ bench = [pc |-> "new", repo |-> FALSE, class |-> "none", available |-> TRUE, kept |-> FALSE]

\* execute_case returns; a failed case is copied to the artifacts if that works, and the
\* checkout is removed if that works.
Conclude(class, available, copied, removed) ==
  bench' = [bench EXCEPT !.pc = "done", !.class = class, !.available = available,
                         !.kept = class # "PASS" /\ copied, !.repo = ~removed]

-----------------------------------------------------------------------------
(* create_temp_repo; a failure after mkdtemp leaves the directory behind.   *)

CreateCheckout ==
  /\ bench.pc = "new"
  /\ bench' = [bench EXCEPT !.pc = "coder", !.repo = TRUE]
  /\ coder' = [coder EXCEPT !.pc = "ask"]
  /\ UNCHANGED call

CreateFails(left) ==
  /\ bench.pc = "new"
  /\ bench' = [bench EXCEPT !.pc = "done", !.class = "FAIL_TOOLING", !.repo = left]
  /\ UNCHANGED <<call, coder>>

-----------------------------------------------------------------------------
(* HttpChatProvider.chat, and chat_for_plan around it.                      *)

\* One attempt fails: it is repeated if a repetition may help and one is left.
AttemptFails(kind) ==
  LET again == kind \in Transient /\ call.tries < WireRetries IN
  /\ coder.pc = "ask"
  /\ call' = [call EXCEPT !.last = kind, !.tries = IF again THEN @ + 1 ELSE @]
  /\ coder' = IF again THEN coder ELSE [coder EXCEPT !.pc = "failed", !.error = "LLMError"]
  /\ UNCHANGED bench

\* The provider answers and the answer is a plan.
PlanArrives(blocked) ==
  /\ coder.pc = "ask"
  /\ call' = [NoCall EXCEPT !.last = "answer"]
  /\ coder' = IF blocked THEN [coder EXCEPT !.pc = "failed", !.error = "LLMBlocked"]
              ELSE [coder EXCEPT !.pc = "edit"]
  /\ UNCHANGED bench

\* The answer is no plan: asked again with the error, a bounded number of times.
PlanUnparseable ==
  /\ coder.pc = "ask"
  /\ IF call.parses < ParseRetries
       THEN /\ call' = [NoCall EXCEPT !.last = "answer", !.parses = call.parses + 1]
            /\ UNCHANGED coder
       ELSE /\ call' = [NoCall EXCEPT !.last = "answer"]
            /\ coder' = [coder EXCEPT !.pc = "failed", !.error = "PlanParseError"]
  /\ UNCHANGED bench

-----------------------------------------------------------------------------
(* RepoCodeWorker.execute, as far as a case tells its results apart.        *)

ChangePasses ==
  /\ coder.pc = "edit"
  /\ coder' = [coder EXCEPT !.pc = "succeeded", !.edited = EditsCheckout]
  /\ UNCHANGED <<call, bench>>

ChangeFails ==
  /\ coder.pc = "edit"
  /\ coder' = IF coder.repairs < RepairRetries
              THEN [coder EXCEPT !.pc = "ask", !.repairs = @ + 1]
              ELSE [coder EXCEPT !.pc = "failed", !.error = "RetryExhausted"]
  /\ UNCHANGED <<call, bench>>

-----------------------------------------------------------------------------
(* run_coder: the worker's error becomes an exception or an output.          *)

\* Mutant: the markers miss what is neither a status nor a timeout.
LooksLikeOutageByStatus ==
  coder.error = "LLMError" /\ call.last \in {"rate_limited", "server", "auth", "timeout"}

\* _looks_like_provider_failure, _looks_like_malformed: by markers in the message of an
\* LLMError; the message of every LiveProviderError has one.
LooksLikeOutage == coder.error = "LLMError" /\ call.last \in Outages
LooksMalformed == coder.error = "LLMError" /\ call.last = "malformed"

\* _provider_error_from_message: what is raised, malformed output before outages.
Raised == IF coder.pc # "failed" THEN "nothing"
          ELSE IF LooksMalformed THEN "malformed"
          ELSE IF LooksLikeOutage THEN "outage" ELSE "nothing"

\* LiveProviderError: an outage.
RecordOutage(copied, removed) ==
  /\ bench.pc = "coder" /\ Raised = "outage"
  /\ Conclude("BLOCKED_EXTERNAL", FALSE, copied, removed)
  /\ UNCHANGED <<call, coder>>

\* ProviderMalformed: a failure of the task, by a provider that answers.
RecordMalformed(copied, removed) ==
  /\ bench.pc = "coder" /\ Raised = "malformed"
  /\ Conclude("FAIL_CORRECTNESS", TRUE, copied, removed)
  /\ UNCHANGED <<call, coder>>

\* Any other exception of the hook.
HarnessFails(copied, removed) ==
  /\ bench.pc = "coder" /\ coder.pc \in {"ask", "edit"}
  /\ Conclude("FAIL_TOOLING", FALSE, copied, removed)
  /\ coder' = [coder EXCEPT !.pc = "failed", !.error = "exception"]
  /\ UNCHANGED call

CoderReturns ==
  /\ bench.pc = "coder"
  /\ coder.pc \in {"succeeded", "failed"} /\ Raised = "nothing"
  /\ bench' = [bench EXCEPT !.pc = "verify"]
  /\ UNCHANGED <<call, coder>>

-----------------------------------------------------------------------------
(* _collect_patch, _run_verification and Scorer.score, all on the checkout.  *)

\* A worker that commits in a worktree of its own leaves no patch here.
PatchFound == coder.edited

\* PASS takes passing tests and a patch.
Score(tests) == IF tests /\ PatchFound THEN "PASS" ELSE "FAIL_CORRECTNESS"

VerifyAndScore(tests, copied, removed) ==
  /\ bench.pc = "verify"
  /\ Conclude(Score(tests), TRUE, copied, removed)
  /\ UNCHANGED <<call, coder>>

EvalNext ==
  \/ CreateCheckout \/ \E left \in BOOLEAN : CreateFails(left)
  \/ \E kind \in Failures : AttemptFails(kind)
  \/ \E blocked \in BOOLEAN : PlanArrives(blocked)
  \/ PlanUnparseable \/ ChangePasses \/ ChangeFails \/ CoderReturns
  \/ \E copied, removed \in BOOLEAN :
       \/ RecordOutage(copied, removed) \/ RecordMalformed(copied, removed)
       \/ HarnessFails(copied, removed)
       \/ \E tests \in BOOLEAN : VerifyAndScore(tests, copied, removed)

EvalSpec == EvalInit /\ [][EvalNext]_evalVars

-----------------------------------------------------------------------------
(* Properties.                                                             *)

\* Attempts, parses and repairs stay within their configured numbers.
EvalTypeOK ==
  /\ call.tries \in 0..WireRetries /\ call.parses \in 0..ParseRetries
  /\ coder.repairs \in 0..RepairRetries /\ coder.edited \in BOOLEAN
  /\ bench.pc \in {"new", "coder", "verify", "done"}

\* "A provider or network failure produces BLOCKED_EXTERNAL ... never recorded as
\* TASK_FAIL" (docs/eval_live.md:46), in the first plan or in a repair; and nothing else
\* does.
OutagesAreExternal ==
  bench.pc = "done" =>
    (bench.class = "BLOCKED_EXTERNAL" <=> coder.error = "LLMError" /\ call.last \in Outages)
=============================================================================
