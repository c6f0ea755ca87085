------------------------------ MODULE RemotePool ------------------------------
(***************************************************************************)
(* The pool of remote workers: app/remote/pool.py, dispatcher.py,          *)
(* transport.py, and the adapter that runs a local worker as a node of the *)
(* pool (app/workers/local_adapter.py).                                    *)
(*                                                                         *)
(* The pool lives in one process and its calls are atomic, except that     *)
(* reassign_orphans takes the whole queue and then dispatches one job      *)
(* after the other.  Assignments, results and heartbeats travel; a node    *)
(* may crash, be slow, come back, and answer late.  cancel_job only tells   *)
(* the node, which answers all the same, and is left out.                  *)
(***************************************************************************)
EXTENDS Naturals, FiniteSets

CONSTANTS RJobs,         \* job ids
          Nodes,         \* worker ids
          Capacity,      \* capacity of each node
          Crashers,      \* nodes that may crash
          Operated,      \* nodes an operator drains and marks unhealthy
          RejoinStale,   \* may a crashed node register again before it is evicted?
          RejoinBound    \* bound: registrations after the first, over all nodes

ASSUME RemoteAssumption == /\ "nobody" \notin Nodes
                           /\ Capacity \in Nat \ {0}
                           /\ RejoinStale \in BOOLEAN

VARIABLES node,      \* worker id -> its WorkerRecord
          place,     \* job -> where the pool has it
          owner,     \* job -> the worker id in _pending
          taken,     \* jobs that reassign_orphans has taken from the queue
          working,   \* worker id -> jobs the node has received and not forgotten
          rejoins    \* registrations after the first so far, up to RejoinBound

poolVars == <<node, place, owner, taken, working, rejoins>>

WorkerState == {"READY", "DRAINING", "OFFLINE", "UNHEALTHY"}

\* alive and stale are the node's and the clock's: whether the process runs, and
\* whether its last heartbeat is older than the timeout.
WorkerRecord == [state : WorkerState, used : 0..Capacity, healthy : BOOLEAN,
                 draining : BOOLEAN, stale : BOOLEAN, alive : BOOLEAN]

Registered == [state |-> "READY", used |-> 0, healthy |-> TRUE, draining |-> FALSE,
               stale |-> FALSE, alive |-> TRUE]

PoolInit == /\ node = [w \in Nodes |-> Registered]
            /\ place = [j \in RJobs |-> "new"]
            /\ owner = [j \in RJobs |-> "nobody"]
            /\ taken = {}
            /\ working = [w \in Nodes |-> {}]
            /\ rejoins = 0

Pending(w) == {j \in RJobs : place[j] = "pending" /\ owner[j] = w}

-----------------------------------------------------------------------------
(* Nodes: registration, heartbeats, health, drain.                         *)

\* A live worker id is refused.  The record starts afresh, also when jobs of the
\* former registration are pending.
Register(w) ==
  /\ rejoins < RejoinBound /\ ~node[w].alive
  /\ node[w].state = "OFFLINE" \/ (RejoinStale /\ node[w].stale)
  /\ node' = [node EXCEPT ![w] = Registered]
  /\ rejoins' = rejoins + 1
  /\ UNCHANGED <<place, owner, taken, working>>

StateFor(r) == IF ~r.healthy THEN "UNHEALTHY" ELSE IF r.draining THEN "DRAINING" ELSE "READY"

\* The node says how many slots it uses.
Beat(w) ==
  /\ node[w].alive /\ node[w].state # "OFFLINE"
  /\ node' = [node EXCEPT ![w] = [@ EXCEPT !.stale = FALSE, !.healthy = TRUE,
       !.used = IF Cardinality(working[w]) < Capacity THEN Cardinality(working[w]) ELSE Capacity,
       !.state = StateFor([node[w] EXCEPT !.healthy = TRUE])]]
  /\ UNCHANGED <<place, owner, taken, working, rejoins>>

SetDrain(w, draining) ==
  /\ w \in Operated /\ node[w].draining # draining
  /\ node' = [node EXCEPT ![w] = [@ EXCEPT !.draining = draining,
       !.state = IF node[w].state # "OFFLINE" /\ node[w].healthy
                 THEN (IF draining THEN "DRAINING" ELSE "READY") ELSE node[w].state]]
  /\ UNCHANGED <<place, owner, taken, working, rejoins>>

\* An offline record, too, becomes unhealthy, and healthy again.
SetHealthy(w, healthy) ==
  /\ w \in Operated /\ node[w].healthy # healthy
  /\ node' = [node EXCEPT ![w] = [@ EXCEPT !.healthy = healthy,
       !.state = IF ~healthy \/ node[w].state = "UNHEALTHY"
                 THEN StateFor([node[w] EXCEPT !.healthy = healthy]) ELSE node[w].state]]
  /\ UNCHANGED <<place, owner, taken, working, rejoins>>

-----------------------------------------------------------------------------
(* Jobs.                                                                   *)

EligibleNode(w) == /\ node[w].state = "READY" /\ node[w].healthy /\ ~node[w].draining
                   /\ node[w].used < Capacity

\* The least loaded of the eligible nodes; ties go by worker id.
Chosen(w) == EligibleNode(w) /\ \A x \in Nodes : EligibleNode(x) => node[w].used <= node[x].used

\* dispatch to w: a slot is taken and the assignment sent.  It reaches the node
\* only if the node runs.
Assign(j, w) ==
  /\ node' = [node EXCEPT ![w].used = @ + 1]
  /\ place' = [place EXCEPT ![j] = "pending"]
  /\ owner' = [owner EXCEPT ![j] = w]
  /\ working' = [working EXCEPT ![w] = IF node[w].alive THEN @ \cup {j} ELSE @]

\* A job that no node is eligible for is refused: the caller is told None.
SubmitJob(j) ==
  /\ place[j] = "new"
  /\ \E w \in Nodes : Chosen(w) /\ Assign(j, w)
  /\ UNCHANGED <<taken, rejoins>>

\* Mutant: the intake looks for the job everywhere, not only among the pending.
IntakeAlways(j) ==
  /\ place' = [place EXCEPT ![j] = "completed"]
  /\ owner' = [owner EXCEPT ![j] = "nobody"]
  /\ node' = IF owner[j] = "nobody" THEN node
             ELSE [node EXCEPT ![owner[j]].used = IF @ > 0 THEN @ - 1 ELSE 0]

\* submit_result: accepted only while pending, from whichever node answers; the
\* slot of the node that holds the job now is given back.
Intake(j) ==
  IF place[j] = "pending"
  THEN /\ place' = [place EXCEPT ![j] = "completed"]
       /\ owner' = [owner EXCEPT ![j] = "nobody"]
       /\ node' = [node EXCEPT ![owner[j]].used = IF @ > 0 THEN @ - 1 ELSE 0]
  ELSE UNCHANGED <<place, owner, node>>

\* A node answers, in time or long after the job has gone elsewhere; one that
\* does not hear the reply answers again.
Answer(w, j, heard) ==
  /\ node[w].alive /\ j \in working[w]
  /\ Intake(j)
  /\ working' = [working EXCEPT ![w] = IF heard THEN @ \ {j} ELSE @]
  /\ UNCHANGED <<taken, rejoins>>

\* Mutant: the jobs of a lost node stay pending.
GoOfflineOnly(w) ==
  /\ node' = [node EXCEPT ![w].state = "OFFLINE", ![w].used = 0]
  /\ UNCHANGED <<place, owner>>

\* _requeue_worker_jobs.
GoOffline(w) ==
  /\ node' = [node EXCEPT ![w].state = "OFFLINE", ![w].used = 0]
  /\ place' = [j \in RJobs |-> IF j \in Pending(w) THEN "queued" ELSE place[j]]
  /\ owner' = [j \in RJobs |-> IF j \in Pending(w) THEN "nobody" ELSE owner[j]]

Disconnect(w) == /\ node[w].state # "OFFLINE" /\ GoOffline(w)
                 /\ UNCHANGED <<taken, working, rejoins>>

\* evict_stale, for one node.
EvictStale(w) == /\ node[w].state # "OFFLINE" /\ node[w].stale /\ GoOffline(w)
                 /\ UNCHANGED <<taken, working, rejoins>>

\* reassign_orphans begins: take_requeue empties the queue.
TakeRequeue ==
  /\ taken = {} /\ \E j \in RJobs : place[j] = "queued"
  /\ taken' = {j \in RJobs : place[j] = "queued"}
  /\ place' = [j \in RJobs |-> IF place[j] = "queued" THEN "taken" ELSE place[j]]
  /\ UNCHANGED <<node, owner, working, rejoins>>

\* Mutant: a job that finds no node is dropped.
ReassignOrDrop(j) ==
  /\ j \in taken
  /\ taken' = taken \ {j}
  /\ IF \E w \in Nodes : EligibleNode(w)
     THEN \E w \in Nodes : Chosen(w) /\ Assign(j, w)
     ELSE UNCHANGED <<node, place, owner, working>>
  /\ UNCHANGED rejoins

\* One round of its loop: a job that finds no node goes back to the queue.
Reassign(j) ==
  /\ j \in taken
  /\ taken' = taken \ {j}
  /\ IF \E w \in Nodes : EligibleNode(w)
     THEN \E w \in Nodes : Chosen(w) /\ Assign(j, w)
     ELSE /\ place' = [place EXCEPT ![j] = "queued"]
          /\ UNCHANGED <<node, owner, working>>
  /\ UNCHANGED rejoins

-----------------------------------------------------------------------------
(* The far side, and time.                                                 *)

Crash(w) ==
  /\ w \in Crashers /\ node[w].alive
  /\ node' = [node EXCEPT ![w].alive = FALSE]
  /\ working' = [working EXCEPT ![w] = {}]
  /\ UNCHANGED <<place, owner, taken, rejoins>>

\* A heartbeat that stays away: of a crashed node, or of one that is slow.
GoesStale(w) ==
  /\ ~node[w].stale /\ node[w].state # "OFFLINE" /\ w \in Crashers
  /\ node' = [node EXCEPT ![w].stale = TRUE]
  /\ UNCHANGED <<place, owner, taken, working, rejoins>>

-----------------------------------------------------------------------------
PoolNext ==
  \/ \E w \in Nodes : \/ Register(w) \/ Beat(w) \/ Disconnect(w) \/ EvictStale(w)
                      \/ Crash(w) \/ GoesStale(w)
                      \/ \E on \in BOOLEAN : SetDrain(w, on) \/ SetHealthy(w, on)
                      \/ \E j \in RJobs, heard \in BOOLEAN : Answer(w, j, heard)
  \/ \E j \in RJobs : SubmitJob(j) \/ Reassign(j)
  \/ TakeRequeue

PoolSpec == PoolInit /\ [][PoolNext]_poolVars

\* Nodes that do not crash work and beat, dead ones go stale and are evicted, and
\* reassign_orphans is called again and again and ends.  Operators owe nothing.
PoolFairness ==
  /\ \A w \in Nodes : /\ WF_poolVars(\E j \in RJobs : Answer(w, j, TRUE))
                      /\ WF_poolVars(~node[w].alive /\ (GoesStale(w) \/ EvictStale(w)))
  /\ WF_poolVars(TakeRequeue \/ \E j \in RJobs : Reassign(j))

-----------------------------------------------------------------------------
\* Shapes.  A job has an owner exactly while it is pending.
PoolTypeOK ==
  /\ node \in [Nodes -> WorkerRecord]
  /\ place \in [RJobs -> {"new", "pending", "queued", "taken", "completed"}]
  /\ owner \in [RJobs -> Nodes \cup {"nobody"}]
  /\ taken \subseteq RJobs
  /\ working \in [Nodes -> SUBSET RJobs]
  /\ \A j \in RJobs : owner[j] = "nobody" <=> place[j] # "pending"

\* No job is lost between evictions, reassignments that find no node, and answers
\* that come late: a job that has left the queue for reassignment is in that pass.
NoJobLost == taken = {j \in RJobs : place[j] = "taken"}

\* A node that is offline has no job pending: each was requeued when it went, and
\* none is assigned to it, also after it was set unhealthy and healthy again.
OfflineHoldsNothing == \A w \in Nodes : node[w].state = "OFFLINE" => Pending(w) = {}

\* The first accepted answer of a job is final (idempotent intake): no eviction,
\* late answer or reassignment brings the job back.
AnswerIsFinal == [][\A j \in RJobs : place[j] = "completed" => place'[j] = "completed"]_poolVars

\* A job whose node has lost it does not stay so: it is requeued and reassigned to a
\* node that works on it, or a late answer completes it.
LostByNode(j) == \E w \in Nodes : owner[j] = w /\ j \notin working[w]
JobsLeaveDeadNodes == \A j \in RJobs : LostByNode(j) ~> ~LostByNode(j)
=============================================================================
