---------------------------- MODULE SkillExecution ----------------------------
(* The contract engine of app/skills/execution.py: execute() walks the steps   *)
(* of a contract in their order, while other threads ask it to cancel, pause   *)
(* or resume.  Each step is read once, so what its fields say is chosen when   *)
(* it is reached; the dependencies are chosen first, as a plan.                *)
EXTENDS Naturals, FiniteSets

CONSTANTS SkillSteps,   \* 1..n, in the order of the contract
          Contracts     \* bound: contracts given to one engine

\* A contract has at least one step.
ASSUME SkillAssumption == /\ SkillSteps \subseteq Nat /\ \E n \in SkillSteps : SkillSteps = 1..n
                          /\ Contracts \in Nat

VARIABLES needs,      \* step -> its depends_on
          stepState,  \* step -> StepState
          contract,   \* ExecutionState, and the number of the contract
          walker,     \* execute(): where it is, and current_step_index
          asked       \* _cancel_requested and _pause_requested

skillVars == <<needs, stepState, contract, walker, asked>>

ExecutionState == {"pending", "running", "paused", "completed", "failed", "cancelled",
                   "rolling_back", "rolled_back"}
StepState == {"pending", "running", "completed", "failed", "skipped", "rolled_back"}

FreshSteps == [s \in SkillSteps |-> "pending"]

SkillInit ==
  /\ needs \in [SkillSteps -> SUBSET SkillSteps]
  /\ stepState = FreshSteps
  /\ contract = [state |-> "pending", number |-> 1]
  /\ walker = [pc |-> "new", at |-> 1]
  /\ asked = [cancel |-> FALSE, pause |-> FALSE]

Ending(state) == /\ contract' = [contract EXCEPT !.state = state]
                 /\ walker' = [walker EXCEPT !.pc = "done"]

-----------------------------------------------------------------------------
(* execute                                                                 *)

\* The flags are not cleared: what was asked before the call counts.
StartContract ==
  /\ walker.pc = "new"
  /\ contract' = [contract EXCEPT !.state = "running"]
  /\ walker' = [pc |-> "check", at |-> 1]
  /\ UNCHANGED <<needs, stepState, asked>>

CancelSeen ==
  /\ walker.pc = "check" /\ asked.cancel
  /\ Ending("cancelled")
  /\ UNCHANGED <<needs, stepState, asked>>

\* The loop that waits for a resume; nothing sets the state back afterwards.
PauseSeen ==
  /\ walker.pc \in {"check", "paused"} /\ asked.pause /\ ~asked.cancel
  /\ contract' = [contract EXCEPT !.state = "paused"]
  /\ walker' = [walker EXCEPT !.pc = "paused"]
  /\ UNCHANGED <<needs, stepState, asked>>

\* _check_dependencies
DependenciesMet(s) == \A d \in needs[s] : stepState[d] = "completed"

\* Mutant: a dependency that comes later in the contract is taken for done.
DependenciesMetSoFar(s) == \A d \in needs[s] : d < s => stepState[d] = "completed"

Refuse(s) ==
  /\ stepState' = [stepState EXCEPT ![s] = "failed"]
  /\ Ending("failed")

\* The gates of a step: a cancel that comes while the engine waits does not stop
\* this step any more.
EnterStep(approved) ==
  /\ \/ walker.pc = "check" /\ ~asked.cancel /\ ~asked.pause
     \/ walker.pc = "paused" /\ (~asked.pause \/ asked.cancel)
  /\ IF ~DependenciesMet(walker.at) \/ ~approved
       THEN Refuse(walker.at)
       ELSE /\ stepState' = [stepState EXCEPT ![walker.at] = "running"]
            /\ walker' = [walker EXCEPT !.pc = "step"]
            /\ UNCHANGED contract
  /\ UNCHANGED <<needs, asked>>

\* is_complete, has_failures and the final state, once the steps are through.
Closing(states) ==
  IF contract.state # "running" THEN contract.state
  ELSE IF \A s \in SkillSteps : states[s] \in {"completed", "rolled_back"} THEN "completed"
  ELSE IF \E s \in SkillSteps : states[s] = "failed" THEN "failed" ELSE "running"

\* The executor returns, and its evidence and checkpoint are stored.
StepSucceeds ==
  /\ walker.pc = "step"
  /\ stepState' = [stepState EXCEPT ![walker.at] = "completed"]
  /\ IF walker.at + 1 \in SkillSteps
       THEN walker' = [pc |-> "check", at |-> walker.at + 1] /\ UNCHANGED contract
       ELSE Ending(Closing(stepState'))
  /\ UNCHANGED <<needs, asked>>

\* _rollback: the completed steps after the target are rolled back.
RolledBack(target) ==
  [s \in SkillSteps |->
     IF s = walker.at THEN "failed"
     ELSE IF s > target /\ stepState[s] = "completed" THEN "rolled_back" ELSE stepState[s]]

\* The executor, the evidence store or the checkpoint store raises; 0 stands for a
\* step without rollback_step_id, or with one that is not in the contract.
StepFails(target) ==
  /\ walker.pc = "step"
  /\ IF target = 0
       THEN Refuse(walker.at)
       ELSE stepState' = RolledBack(target) /\ Ending("rolled_back")
  /\ UNCHANGED <<needs, asked>>

-----------------------------------------------------------------------------
(* Other threads, and the next contract of the same engine.                *)

RequestSkillCancel == ~asked.cancel /\ asked' = [asked EXCEPT !.cancel = TRUE]
RequestPause == ~asked.pause /\ asked' = [asked EXCEPT !.pause = TRUE]
RequestResume == asked.pause /\ asked' = [asked EXCEPT !.pause = FALSE]

NextContract ==
  /\ walker.pc = "done" /\ contract.number < Contracts
  /\ stepState' = FreshSteps
  /\ contract' = [state |-> "pending", number |-> contract.number + 1]
  /\ walker' = [pc |-> "new", at |-> 1]
  /\ UNCHANGED <<needs, asked>>

SkillNext ==
  \/ StartContract \/ CancelSeen \/ PauseSeen \/ StepSucceeds \/ NextContract
  \/ \E approved \in BOOLEAN : EnterStep(approved)
  \/ \E target \in SkillSteps \cup {0} : StepFails(target)
  \/ (RequestSkillCancel \/ RequestPause \/ RequestResume)
       /\ UNCHANGED <<needs, stepState, contract, walker>>

SkillSpec == SkillInit /\ [][SkillNext]_skillVars

-----------------------------------------------------------------------------
(* Properties.                                                             *)

\* States are those of the enumerations that execute() really gives.
SkillTypeOK ==
  /\ stepState \in [SkillSteps -> StepState \ {"skipped"}]    \* nothing skips a step
  /\ contract.state \in ExecutionState \ {"rolling_back"}       \* that is inside RolledBack
  /\ walker.pc \in {"new", "check", "paused", "step", "done"} /\ walker.at \in SkillSteps

\* At most one step runs, after all that it depends on, and what ended well ran them
\* all; a contract that was rolled back keeps no finished step that needs one that is
\* not finished.
StepsRunInOrder ==
  /\ \A s \in SkillSteps :
       stepState[s] = "running" => walker.pc = "step" /\ walker.at = s /\ DependenciesMet(s)
  /\ contract.state = "completed" => \A s \in SkillSteps : stepState[s] = "completed"
  /\ contract.state = "rolled_back" =>
       \A s \in SkillSteps : stepState[s] = "completed" => DependenciesMet(s)

\* Not so: a contract that was paused and resumed stays "paused" when all its steps
\* are done (execution.py:194), and an engine once cancelled cancels every later
\* contract (execution.py:174).
EndsAsItWent ==
  walker.pc = "done" /\ (\A s \in SkillSteps : stepState[s] = "completed")
    => contract.state = "completed"
=============================================================================
