------------------------------ MODULE RepoWorker ------------------------------
(***************************************************************************)
(* One mission in the repository code worker, RepoCodeWorker.execute of    *)
(* app/workers/repo_code_worker.py, with the worktree guard and the edit   *)
(* engine: worktree, plan, staged edits, validation, restore and repair,   *)
(* review, commit fence, scan, commit, cleanup.                            *)
(*                                                                         *)
(* A cancellation, the deadline and a new commit in the source repository  *)
(* come at any time.  The worker looks for the first two at its            *)
(* checkpoints, which it cannot pass once they are there, and inside every *)
(* command it runs, where it may meet them: Stopped is both.               *)
(***************************************************************************)
EXTENDS Naturals

CONSTANTS Files,       \* files of the repository that a plan may name
          MaxRetries   \* metadata["max_retries"]

ASSUME WorkerAssumption == MaxRetries \in Nat /\ "artefact" \notin Files

VARIABLES mission,   \* what the metadata say: a plan by the model or given edits, keep_worktree
          stage,     \* where the worker is, or "done"
          retries,   \* repairs begun; the attempt has the same number
          plan,      \* the files of the attempt's prepared edits
          tree,      \* the worktree: on disk or not, changed paths, paths in the index
          validated, \* what was changed in the tree when validation passed
          commits,   \* the sets of paths committed on the mission's branch
          outcome,   \* the terminal that the result maps to
          world      \* cancellation, deadline, source HEAD moved

workerVars == <<mission, stage, retries, plan, tree, validated, commits, outcome, world>>

Outcomes == {"PASS", "FAIL", "BLOCKED", "CANCELLED", "TIMEOUT"}

\* Past the last cancel_check: the mission commits unless the fence or a scan refuses.
Committing == {"fence", "scan", "commit", "confirm", "done"}

WorkerInit ==
  /\ mission \in [llm : BOOLEAN, keep : BOOLEAN]
  /\ stage = "new" /\ retries = 0 /\ plan = {}
  /\ tree = [at |-> "none", dirty |-> {}, index |-> {}]
  /\ validated = {} /\ commits = {} /\ outcome = "none"
  /\ world = [cancel |-> "no", late |-> FALSE, moved |-> FALSE]

-----------------------------------------------------------------------------
(* The ends of a run                                                       *)

Asked == world.cancel # "no" \/ world.late

EndRun(o) == stage' = "done" /\ outcome' = o

\* Every return but the successful one leaves the worktree for debugging.
Refused(o) == EndRun(o) /\ UNCHANGED <<mission, retries, plan, tree, validated, commits, world>>

\* The one return that removes it, unless the metadata keep it.
Cleanup(o) ==
  /\ EndRun(o)
  /\ tree' = IF mission.keep THEN tree ELSE [tree EXCEPT !.at = "removed"]
  /\ UNCHANGED <<mission, retries, plan, validated, commits, world>>

\* MissionTimeout or MissionCancelled, from a checkpoint or a command; the deadline first.
Stopped ==
  /\ stage \notin {"new", "done"} /\ Asked
  /\ Refused(IF world.late THEN "TIMEOUT" ELSE "CANCELLED")

Goto(s) == stage' = s /\ UNCHANGED <<mission, outcome, world>>

-----------------------------------------------------------------------------
(* Before the first attempt                                                *)

\* Configuration, authorization and .git; then the checkpoint before_execution.
Accept ==
  /\ stage = "new"
  /\ \/ Refused("FAIL")
     \/ world.cancel # "no" /\ Refused("CANCELLED")
     \/ world.cancel = "no" /\ Goto("allocate")
        /\ UNCHANGED <<retries, plan, tree, validated, commits>>

\* A dirty source, a git error; or a new worktree on a new branch at the source's HEAD.
Allocate ==
  /\ stage = "allocate"
  /\ \/ Refused("FAIL")
     \/ /\ tree' = [tree EXCEPT !.at = "disk"] /\ Goto("tools")
        /\ UNCHANGED <<retries, plan, validated, commits>>
     \* stopped inside `git worktree add': the tree is there, the worker has not its name
     \/ /\ Asked /\ tree' = [tree EXCEPT !.at = "disk"]
        /\ EndRun(IF world.late THEN "TIMEOUT" ELSE "CANCELLED")
        /\ UNCHANGED <<mission, retries, plan, validated, commits, world>>

DetectTools ==
  /\ stage = "tools"
  /\ \/ Refused("BLOCKED")
     \/ Goto("plan") /\ UNCHANGED <<retries, plan, tree, validated, commits>>

-----------------------------------------------------------------------------
(* The attempts                                                            *)

\* The first attempt has the given edits, or asks the model between two checkpoints.
Plan ==
  /\ stage = "plan" /\ (mission.llm => ~Asked)
  /\ \/ mission.llm /\ \E o \in {"FAIL", "BLOCKED"} : Refused(o)
     \/ Goto("prepare") /\ UNCHANGED <<retries, plan, tree, validated, commits>>

\* The next ones ask for a repair.
Repair ==
  /\ stage = "repair" /\ ~Asked
  /\ \/ \E o \in {"FAIL", "BLOCKED"} : Refused(o)
     \/ Goto("prepare") /\ UNCHANGED <<retries, plan, tree, validated, commits>>

\* What an attempt that failed leads to: a repair while the budget lasts.
Again ==
  IF mission.llm /\ retries < MaxRetries
  THEN /\ retries' = retries + 1 /\ Goto("repair")
       /\ UNCHANGED <<plan, validated, commits>>
  ELSE EndRun("FAIL") /\ UNCHANGED <<mission, retries, plan, validated, commits, world>>

\* Edits are validated and staged in memory: none is written unless all are good.
Prepare ==
  /\ stage = "prepare"
  /\ \/ Refused("FAIL")                    \* no list of edits, an escape, a malformed edit
     \/ mission.llm /\ Again /\ UNCHANGED tree   \* wrong text or path: worth a repair
     \/ \E fs \in SUBSET Files \ {{}} :
          /\ plan' = fs /\ Goto("apply")
          /\ UNCHANGED <<retries, tree, validated, commits>>

\* Some edits may change nothing.  A write may fail after some of them.
Apply ==
  /\ stage = "apply" /\ ~Asked
  /\ \/ Refused("FAIL")                    \* no test runner: NoTestsDetected
     \/ \E changed \in SUBSET plan :
          /\ tree' = [tree EXCEPT !.dirty = @ \cup changed]
          /\ \/ Goto("validate") /\ UNCHANGED <<retries, plan, validated, commits>>
             \/ EndRun("FAIL") /\ UNCHANGED <<mission, retries, plan, validated, commits, world>>

\* The test commands, which may leave a file of their own in the tree.
Validate ==
  /\ stage = "validate" /\ ~Asked
  /\ \/ Refused("BLOCKED")                 \* a test tool that cannot be started
     \/ \E left \in {{}, {"artefact"}} :
          /\ tree' = [tree EXCEPT !.dirty = @ \cup left]
          /\ \/ Goto("judge") /\ UNCHANGED <<retries, plan, validated, commits>>
             \/ /\ validated' = tree'.dirty /\ Goto("status")
                /\ UNCHANGED <<retries, plan, commits>>

\* restore_originals, for the files of this attempt.
Restored == tree.dirty \ plan

\* Mutant: the attempt's edits are left in the tree for the repair to work on.
JudgeTestsUnrestored == stage = "judge" /\ Again /\ UNCHANGED tree

\* Validation has failed: restore, look whether the tree is clean, then repair or give up.
JudgeTests ==
  /\ stage = "judge"
  /\ tree' = [tree EXCEPT !.dirty = Restored]
  /\ IF Restored = {} THEN Again
     ELSE EndRun("FAIL") /\ UNCHANGED <<mission, retries, plan, validated, commits, world>>

-----------------------------------------------------------------------------
(* From a validation that passed to the commit                             *)

\* NoChange, or the review of the diff.
Review ==
  /\ stage = "status"
  /\ \/ Refused("FAIL")                    \* ReviewBlocked
     \/ tree.dirty # {} /\ Goto("add") /\ UNCHANGED <<retries, plan, tree, validated, commits>>

Add ==
  /\ stage = "add"
  /\ tree' = [tree EXCEPT !.index = tree.dirty \cap plan]
  /\ Goto("before_commit") /\ UNCHANGED <<retries, plan, validated, commits>>

\* Mutant: the checkpoint before the commit is not made.
BeforeCommitUnchecked ==
  /\ stage = "before_commit"
  /\ Goto("fence") /\ UNCHANGED <<retries, plan, tree, validated, commits>>

BeforeCommit ==
  /\ stage = "before_commit" /\ ~Asked
  /\ Goto("fence") /\ UNCHANGED <<retries, plan, tree, validated, commits>>

\* The source has not moved, and there is something to commit.
Fence ==
  /\ stage = "fence"
  /\ IF world.moved \/ tree.dirty = {} THEN Refused("FAIL")
     ELSE Goto("scan") /\ UNCHANGED <<retries, plan, tree, validated, commits>>

\* The staged diff and the touched paths.
ScanDiff ==
  /\ stage = "scan"
  /\ \/ Refused("FAIL")                    \* SecretBlocked
     \/ Goto("commit") /\ UNCHANGED <<retries, plan, tree, validated, commits>>

Commit ==
  /\ stage = "commit"
  /\ \/ Refused("FAIL")                    \* git refuses; always, when the index is empty
     \/ /\ tree.index # {}
        /\ commits' = commits \cup {tree.index}
        /\ tree' = [tree EXCEPT !.dirty = @ \ tree.index, !.index = {}]
        /\ Goto("confirm") /\ UNCHANGED <<retries, plan, validated>>

\* rev-parse and status, two more commands that may be stopped; then success.
Confirm == stage = "confirm" /\ Cleanup("PASS")

-----------------------------------------------------------------------------
(* The world around                                                        *)

CancelRequested ==
  /\ world.cancel = "no" /\ stage # "done"
  /\ world' = [world EXCEPT !.cancel = IF stage \in Committing THEN "late" ELSE "early"]
  /\ UNCHANGED <<mission, stage, retries, plan, tree, validated, commits, outcome>>

DeadlinePasses ==
  /\ ~world.late /\ stage \notin {"new", "done"}
  /\ world' = [world EXCEPT !.late = TRUE]
  /\ UNCHANGED <<mission, stage, retries, plan, tree, validated, commits, outcome>>

SourceMoves ==
  /\ ~world.moved /\ stage # "done"
  /\ world' = [world EXCEPT !.moved = TRUE]
  /\ UNCHANGED <<mission, stage, retries, plan, tree, validated, commits, outcome>>

WorkerStep == \/ Accept \/ Allocate \/ DetectTools \/ Plan \/ Repair \/ Prepare \/ Apply
              \/ Validate \/ JudgeTests \/ Review \/ Add \/ BeforeCommit \/ Fence \/ ScanDiff
              \/ Commit \/ Confirm \/ Stopped

WorkerNext == WorkerStep \/ CancelRequested \/ DeadlinePasses \/ SourceMoves

\* Every command and every call of the model is bounded in time.
WorkerSpec == WorkerInit /\ [][WorkerNext]_workerVars

-----------------------------------------------------------------------------
(* Properties                                                              *)

\* Types; the retries stay within the budget, over failed plans and failed
\* validations together; a worktree is removed only after a commit.
WorkerTypeOK ==
  /\ mission \in [llm : BOOLEAN, keep : BOOLEAN]
  /\ retries \in 0..MaxRetries /\ plan \subseteq Files
  /\ tree \in [at : {"none", "disk", "removed"}, dirty : SUBSET (Files \cup {"artefact"}),
               index : SUBSET Files]
  /\ validated \subseteq Files \cup {"artefact"}
  /\ outcome \in Outcomes \cup {"none"} /\ (outcome = "none" <=> stage # "done")
  /\ world \in [cancel : {"no", "early", "late"}, late : BOOLEAN, moved : BOOLEAN]
  /\ tree.at = "removed" => outcome = "PASS" /\ commits # {}

\* What is committed is what validation passed on: no edit of an earlier attempt
\* was in the tree when the tests ran and is missing from the commit
\* (restore_originals and restore_check, repo_code_worker.py:1514-1530).
CommitIsWhatPassed == \A c \in commits : c = validated \ {"artefact"}

\* A cancellation requested before the last checkpoint is never followed by a
\* commit, wherever it came (CancelContext, repo_code_worker.py:50-60); a mission
\* has one commit at most, and passes only with it.
CancelStopsTheCommit == /\ world.cancel = "early" => commits = {}
                        /\ \A c, d \in commits : c = d
                        /\ outcome = "PASS" => commits # {}
=============================================================================
