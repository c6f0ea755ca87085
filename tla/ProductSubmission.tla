--------------------------- MODULE ProductSubmission ---------------------------
(***************************************************************************)
(* Submitting a mission once, and retrying it: create_mission and          *)
(* retry_mission of app/main.py, submit_product_mission and                *)
(* retry_product_mission of app/api/v1/missions.py, and the idempotency    *)
(* table of app/storage/sqlite_store.py.                                   *)
(*                                                                         *)
(* Each store call is a transaction; calls of several requests interleave  *)
(* between them.  A server may crash in any call, and a client that has no *)
(* answer sends the request again.  What the coordinator does to a mission *)
(* is one step here, End; MissionRuntime has the rest.                     *)
(*                                                                         *)
(* A mission is named by the call that makes it.  A goal stands for a goal *)
(* and a repository.  Audit, redaction and the view of a mission are left  *)
(* out.                                                                    *)
(***************************************************************************)
EXTENDS Naturals, FiniteSets

CONSTANTS Calls,          \* calls of the API, each made at most once
          IdKeys,         \* idempotency keys of one tenant
          Goals,
          MaxAttempts     \* MAX_RETRY_ATTEMPTS

ASSUME SubmissionAssumption == MaxAttempts \in Nat \ {0} /\ {"none", "legacy", "409"} \cap Calls = {}

VARIABLES posted,    \* call -> its arguments, where it is and its answer
          row,       \* mission -> its row
          mapping    \* mission_idempotency: key -> mission, "none" or "legacy"

submissionVars == <<posted, row, mapping>>

Active == {"QUEUED"}
Ended  == {"PASS", "FAIL"}
Known(m) == row[m].status \in Active \cup Ended

Unposted == [pc |-> "new", key |-> "none", goal |-> "none", dry |-> FALSE,
             source |-> "none", answer |-> "none"]
NoRow == [status |-> "absent", goal |-> "none", key |-> "none", attempts |-> 1]

\* "legacy" is a key claimed, by an older version, for a mission that never came to be.
SubmissionInit == /\ posted = [c \in Calls |-> Unposted]
                  /\ row = [c \in Calls |-> NoRow]
                  /\ mapping \in [IdKeys -> {"none", "legacy"}]

To(c, pc)          == posted' = [posted EXCEPT ![c].pc = pc]
Reply(c, answer)   == posted' = [posted EXCEPT ![c].pc = "answered", ![c].answer = answer]
Insert(c, status)  == row' = [row EXCEPT ![c] = [status |-> status, goal |-> posted[c].goal,
                                key |-> posted[c].key, attempts |-> @.attempts]]

-----------------------------------------------------------------------------
(* submit_product_mission                                                  *)

Post(c, key, goal, dry) ==
  /\ posted[c].pc = "new"
  /\ posted' = [posted EXCEPT ![c] = [Unposted EXCEPT !.key = key, !.goal = goal, !.dry = dry,
                   !.pc = IF key = "none" THEN "submit" ELSE "lookup"]]
  /\ UNCHANGED <<row, mapping>>

\* check_idempotent_replay: a mapping to a missing mission is passed over.
LookUp(c) ==
  /\ posted[c].pc = "lookup"
  /\ LET m == mapping[posted[c].key] IN
     IF m \in Calls /\ Known(m) THEN Reply(c, m) ELSE To(c, "submit")
  /\ UNCHANGED <<row, mapping>>

Duplicate(c) == \E m \in Calls \ {c} : row[m].status \in Active /\ row[m].goal = posted[c].goal

\* Mutant: the key is looked up before the transaction only.
SubmitKeyedBlindly(c) ==
  /\ posted[c].pc = "submit" /\ posted[c].key # "none"
  /\ \/ /\ Duplicate(c) /\ Reply(c, "409") /\ UNCHANGED <<row, mapping>>
     \/ /\ ~Duplicate(c)
        /\ Insert(c, IF posted[c].dry THEN "PASS" ELSE "QUEUED")
        /\ mapping' = [mapping EXCEPT ![posted[c].key] = c]
        /\ To(c, "reply")

\* Mutant: the mapping of a key that exists is not healed.
SubmitKeyedUnhealed(c) ==
  /\ posted[c].pc = "submit" /\ posted[c].key # "none"
  /\ LET m == mapping[posted[c].key] IN
     \/ /\ m \in Calls /\ Known(m)
        /\ Reply(c, m) /\ UNCHANGED <<row, mapping>>
     \/ /\ ~(m \in Calls /\ Known(m)) /\ Duplicate(c)
        /\ Reply(c, "409") /\ UNCHANGED <<row, mapping>>
     \/ /\ ~(m \in Calls /\ Known(m)) /\ ~Duplicate(c)
        /\ Insert(c, IF posted[c].dry THEN "PASS" ELSE "QUEUED")
        /\ mapping' = [mapping EXCEPT ![posted[c].key] = IF m = "legacy" THEN m ELSE c]
        /\ To(c, "reply")

\* submit_idempotent_mission: the key and the mission in one transaction.  A dry run
\* is stored as passed; it, too, is refused while its goal is active.
SubmitKeyed(c) ==
  /\ posted[c].pc = "submit" /\ posted[c].key # "none"
  /\ LET m == mapping[posted[c].key] IN
     \/ /\ m \in Calls /\ Known(m)
        /\ Reply(c, m) /\ UNCHANGED <<row, mapping>>
     \/ /\ ~(m \in Calls /\ Known(m)) /\ Duplicate(c)
        /\ Reply(c, "409") /\ UNCHANGED <<row, mapping>>
     \/ /\ ~(m \in Calls /\ Known(m)) /\ ~Duplicate(c)
        /\ Insert(c, IF posted[c].dry THEN "PASS" ELSE "QUEUED")
        /\ mapping' = [mapping EXCEPT ![posted[c].key] = c]
        /\ To(c, "reply")

\* enqueue, or save for a dry run, which looks for no duplicate.
SubmitUnkeyed(c) ==
  /\ posted[c].pc = "submit" /\ posted[c].key = "none"
  /\ \/ /\ ~posted[c].dry /\ Duplicate(c)
        /\ Reply(c, "409") /\ UNCHANGED row
     \/ /\ posted[c].dry \/ ~Duplicate(c)
        /\ Insert(c, IF posted[c].dry THEN "PASS" ELSE "QUEUED")
        /\ To(c, "reply")
  /\ UNCHANGED mapping

\* The audit event is written, the coordinator woken, the mission returned.
Return(c) ==
  /\ posted[c].pc = "reply" /\ Reply(c, c)
  /\ UNCHANGED <<row, mapping>>

\* The transaction fails, or the server dies before it answers.
Lost(c) ==
  /\ posted[c].pc \in {"lookup", "submit", "retry", "reply"}
  /\ To(c, "lost")
  /\ UNCHANGED <<row, mapping>>

-----------------------------------------------------------------------------
(* retry_product_mission                                                   *)

\* The mission is loaded and judged by retry_allowed; it is not read again.
PostRetry(c, m) ==
  /\ posted[c].pc = "new" /\ m # c
  /\ row[m].status = "FAIL" /\ row[m].attempts < MaxAttempts
  /\ posted' = [posted EXCEPT ![c] = [Unposted EXCEPT !.goal = row[m].goal, !.source = m,
                                                      !.pc = "retry"]]
  /\ UNCHANGED <<row, mapping>>

\* The key of the source is not passed on.  The lineage written to the source
\* afterwards is left out.
EnqueueRetry(c) ==
  /\ posted[c].pc = "retry"
  /\ \/ Duplicate(c) /\ Reply(c, "409") /\ UNCHANGED row
     \/ /\ ~Duplicate(c)
        /\ row' = [row EXCEPT ![c] = [status |-> "QUEUED", goal |-> posted[c].goal, key |-> "none",
                                      attempts |-> row[posted[c].source].attempts + 1]]
        /\ To(c, "reply")
  /\ UNCHANGED mapping

\* The coordinator runs the mission to its end.
End(m, status) == /\ row[m].status \in Active
                  /\ row' = [row EXCEPT ![m].status = status]
                  /\ UNCHANGED <<posted, mapping>>

SubmissionNext ==
  \E c \in Calls :
    \/ \E key \in IdKeys \cup {"none"}, goal \in Goals, dry \in BOOLEAN : Post(c, key, goal, dry)
    \/ LookUp(c) \/ SubmitKeyed(c) \/ SubmitUnkeyed(c) \/ Return(c) \/ Lost(c)
    \/ \E m \in Calls : PostRetry(c, m)
    \/ EnqueueRetry(c)
    \/ \E status \in Ended : End(c, status)

SubmissionSpec == SubmissionInit /\ [][SubmissionNext]_submissionVars

-----------------------------------------------------------------------------
(* Properties.                                                             *)

\* Calls, rows and mappings are well formed; no chain of retries is longer than the
\* budget (retry_allowed, app/mission/facade.py).
SubmissionTypeOK ==
  /\ \A c \in Calls :
       /\ posted[c].pc \in {"new", "lookup", "submit", "retry", "reply", "answered", "lost"}
       /\ posted[c].key \in IdKeys \cup {"none"} /\ posted[c].goal \in Goals \cup {"none"}
       /\ posted[c].source \in Calls \cup {"none"}
       /\ posted[c].answer \in Calls \cup {"none", "409"}
       /\ row[c].status \in Active \cup Ended \cup {"absent"}
       /\ row[c].attempts \in 1..MaxAttempts
  /\ mapping \in [IdKeys -> Calls \cup {"none", "legacy"}]

\* One key makes one mission, however many requests carry it, at once or again after
\* one was lost, and the table leads to it: no key points past the mission it made,
\* also not one that an older version had left dangling
\* (submit_idempotent_mission: "either both rows exist or neither does").
OneMissionPerKey ==
  \A m \in Calls : row[m].key # "none" => mapping[row[m].key] = m

\* Two requests with one key that are answered with a mission are answered with the same
\* one, and it is stored ("exactly-once mission submit").
SameAnswer ==
  \A c, d \in Calls :
    /\ posted[c].answer \in Calls => Known(posted[c].answer)
    /\ posted[c].key # "none" /\ posted[c].key = posted[d].key
         /\ posted[c].answer \in Calls /\ posted[d].answer \in Calls
         => posted[c].answer = posted[d].answer

\* At most one mission of a goal is active, whichever way the missions came: with a key,
\* without one, or by retrying (the single-flight rule of enqueue and
\* submit_idempotent_mission).
OneActivePerGoal ==
  \A m, n \in Calls : m # n /\ row[m].status \in Active /\ row[n].status \in Active
                        => row[m].goal # row[n].goal

=============================================================================
