---------------------------- MODULE WorktreeRoot -----------------------------
(***************************************************************************)
(* The directory that the worktrees of all missions share, whatever their  *)
(* repositories: allocate and cleanup of app/workers/worktree_guard.py.    *)
(* A mission that allocates removes what crashed runs left behind, judged  *)
(* by the git metadata of each directory, while others allocate, work, end *)
(* and die.  Names are unique: a mission and its directory have the same.  *)
(***************************************************************************)


CONSTANT RootMissions  \* missions, each in the worker once

ASSUME RootAssumption == "earlier" \notin RootMissions

\* "bare": a directory without .git; "orphan": its .git names a gitdir that is gone.
VARIABLES atomic,   \* whether git makes a directory and its .git file in one step
          dirs,     \* directory -> "none", "bare", "live", "orphan"
          tenant    \* mission -> step, and the directories it found to be leftovers

rootVars == <<atomic, dirs, tenant>>

Trees == RootMissions \cup {"earlier"}   \* one of an earlier run

RootInit ==
  /\ atomic \in BOOLEAN
  /\ \E left \in {"none", "bare", "live", "orphan"} :
       dirs = [d \in Trees |-> IF d = "earlier" THEN left ELSE "none"]
  /\ tenant = [m \in RootMissions |-> [step |-> "new", found |-> {}]]

-----------------------------------------------------------------------------
StepTo(m, s) == tenant' = [tenant EXCEPT ![m].step = s]

\* No metadata, or metadata that lead nowhere (_is_orphaned_directory).
Orphaned(d) == dirs[d] \in {"bare", "orphan"}

\* Mutant: whatever its own repository does not know.
OrphanedHere(d) == dirs[d] # "none"

Leftovers == {d \in Trees : Orphaned(d)}

\* The source must be clean and have a HEAD; then the directories are looked over.
Survey(m) ==
  /\ tenant[m].step = "new" /\ UNCHANGED dirs
  /\ \/ StepTo(m, "refused")
     \/ tenant' = [tenant EXCEPT ![m] = [step |-> "sweep", found |-> Leftovers]]

Sweep(m) ==
  /\ tenant[m].step = "sweep"
  /\ dirs' = [d \in Trees |-> IF d \in tenant[m].found THEN "none" ELSE dirs[d]]
  /\ tenant' = [tenant EXCEPT ![m] = [step |-> "add", found |-> {}]]

\* git worktree add: it may fail, and may take two steps.
AddTree(m) ==
  \/ tenant[m].step = "add" /\ StepTo(m, "refused") /\ UNCHANGED dirs
  \/ tenant[m].step = "add" /\ atomic
     /\ dirs' = [dirs EXCEPT ![m] = "live"] /\ StepTo(m, "work")
  \/ tenant[m].step = "add" /\ ~atomic
     /\ dirs' = [dirs EXCEPT ![m] = "bare"] /\ StepTo(m, "adding")
  \/ tenant[m].step = "adding" /\ dirs[m] = "bare"
     /\ dirs' = [dirs EXCEPT ![m] = "live"] /\ StepTo(m, "work")
  \/ tenant[m].step = "adding" /\ dirs[m] = "none"
     /\ StepTo(m, "refused") /\ UNCHANGED dirs

\* Kept for debugging or by request, removed, or removed in part when git fails and
\* the fallback meets files it cannot delete.
LeaveTree(m) ==
  /\ tenant[m].step = "work" /\ StepTo(m, "done")
  /\ \E left \in {"live", "none", "bare"} : dirs' = [dirs EXCEPT ![m] = left]

\* A killed process; a source repository that is deleted with its metadata.
DieInTree(m) == tenant[m].step \in {"sweep", "add", "adding", "work"} /\ StepTo(m, "dead") /\ UNCHANGED dirs

LoseRepository(d) ==
  /\ dirs[d] = "live" /\ (d \in RootMissions => tenant[d].step \in {"done", "dead"})
  /\ dirs' = [dirs EXCEPT ![d] = "orphan"] /\ UNCHANGED tenant

RootNext ==
  /\ UNCHANGED atomic
  /\ \/ \E m \in RootMissions : Survey(m) \/ Sweep(m) \/ AddTree(m) \/ LeaveTree(m) \/ DieInTree(m)
     \/ \E d \in Trees : LoseRepository(d)

-----------------------------------------------------------------------------
\* A directory is in one state; leftovers are held only between survey and removal.
RootTypeOK ==
  /\ dirs \in [Trees -> {"none", "bare", "live", "orphan"}]
  /\ \A m \in RootMissions :
       /\ tenant[m].step \in {"new", "refused", "sweep", "add", "adding", "work", "done", "dead"}
       /\ tenant[m].found \subseteq Trees
       /\ tenant[m].found # {} => tenant[m].step \in {"sweep", "dead"}

\* The worktree of a mission at work is there, whoever cleans up meanwhile: "live
\* worktrees of other repositories sharing the root are never touched".  It holds when
\* git makes a directory and its .git file in one step: between the two it is bare.
LiveTreesStay == atomic => \A m \in RootMissions : tenant[m].step = "work" => dirs[m] = "live"
=============================================================================
