------------------------------ MODULE RepoLeases ------------------------------
(***************************************************************************)
(* The repo_leases table of app/runtime/repo_leases.py: at most one row    *)
(* per repository, owned by a coordinator (not by a mission), refused to   *)
(* others while its heartbeat is younger than the stale cutoff, stolen     *)
(* afterwards.  Each operation is one transaction.                         *)
(***************************************************************************)
CONSTANTS Repos, LeaseOwners, NoLease   \* NoLease: the repository has no row

VARIABLE lease   \* repo -> [owner, fresh]

Lease == [owner : LeaseOwners \cup {NoLease}, fresh : BOOLEAN]

Unleased == [owner |-> NoLease, fresh |-> FALSE]

LeaseTypeOK == lease \in [Repos -> Lease]

LeaseInit == lease = [r \in Repos |-> Unleased]

\* Free, already ours, or stale.
Acquirable(r, o) == lease[r].owner \in {NoLease, o} \/ ~lease[r].fresh

Acquire(r, o) ==
  /\ Acquirable(r, o)
  /\ lease' = [lease EXCEPT ![r] = [owner |-> o, fresh |-> TRUE]]

LeaseHeartbeat(r, o) ==
  /\ lease[r].owner = o
  /\ lease' = [lease EXCEPT ![r].fresh = TRUE]

\* Mutant: whoever releases, the row goes.
ReleaseAnyLease(r, o) == lease' = [lease EXCEPT ![r] = Unleased]

\* DELETE ... WHERE repo_key=? AND owner=?: nothing when it is not ours.
ReleaseLease(r, o) ==
  lease' = IF lease[r].owner = o THEN [lease EXCEPT ![r] = Unleased] ELSE lease

ReleaseAll(o) ==
  lease' = [r \in Repos |-> IF lease[r].owner = o THEN Unleased ELSE lease[r]]

\* Time: the stale cutoff passes the lease's last heartbeat.
AgeLease(r) ==
  /\ lease[r].fresh
  /\ lease' = [lease EXCEPT ![r].fresh = FALSE]
=============================================================================
