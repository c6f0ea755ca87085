---------------------------- MODULE MissionStatus ----------------------------
(***************************************************************************)
(* The mission statuses of app/core/models.py and the status families the  *)
(* mission store queries by (app/storage/sqlite_store.py).  A status is    *)
(* stored twice in a mission row, in a column and inside the JSON payload; *)
(* every write of the store keeps the two equal, so the model has one.     *)
(***************************************************************************)

\* A mission id nobody has submitted yet: no row.
Absent == "ABSENT"

\* The claim holder runs the mission (EXECUTING_STATUSES plus RECOVERING: the
\* list every query of the store spells out).
Executing == {"OBSERVING", "PLANNING", "RUNNING", "EXECUTING",
              "VERIFYING", "REPAIRING", "RECOVERING"}

Active == Executing \cup {"QUEUED"}

Terminal == {"PASS", "FAIL", "BLOCKED", "BLOCKED_EXTERNAL", "CANCELLED"}

\* A dependency is satisfied only by PASS; these can never satisfy it.
DependencyBlocking == Terminal \ {"PASS"}

\* Statuses a dependent may be blocked in.
DependentBlockable == {"QUEUED", "OBSERVING", "PLANNING"}

Status == Active \cup Terminal \cup {Absent}
=============================================================================
