------------------------------ MODULE OutboxRelay ------------------------------
(***************************************************************************)
(* Delivery of the durable outbox: the passes of                           *)
(* app/runtime/outbox_relay.py over the table mission_outbox, and the      *)
(* operator calls of app/main.py and app/operations/cli.py.                *)
(*                                                                         *)
(* A relay is a thread that runs drain_once: the relay thread of a         *)
(* process, or a pool thread of the coordinator, which drains once after   *)
(* each mission.  All of them share one table.  Every SQL statement is a   *)
(* step of its own: outbox_mark_failed selects the attempts outside any    *)
(* transaction and writes them back in a second statement.                 *)
(*                                                                         *)
(* The sink is the learning store, an upsert by a key derived from the     *)
(* mission id, so what it keeps is a set.                                  *)
(***************************************************************************)
EXTENDS Naturals, FiniteSets

CONSTANTS Messages,      \* outbox ids
          Poison,        \* messages whose kind or payload no handler accepts
          Relays,        \* threads that drain
          Mortal,        \* relays that may die at any point
          MaxAttempts,   \* OUTBOX_MAX_ATTEMPTS
          BatchLimit,    \* LIMIT of outbox_pending
          RequeueBound,  \* bound: requeues an operator asks for
          Faults         \* "handler", "store": what may raise

ASSUME OutboxAssumption ==
  /\ Messages \subseteq Nat
  /\ MaxAttempts \in Nat \ {0}
  /\ BatchLimit \in Nat \ {0}

VARIABLES box,       \* id -> row of mission_outbox
          records,   \* ids whose record the sink holds
          pass,      \* relay -> its pass of drain_once
          wins,      \* history: acknowledgments of a message that found it pending
          requeues   \* calls of outbox_requeue_dead so far, up to RequeueBound

vars == <<box, records, pass, wins, requeues>>

\* due: next_attempt_at is NULL or past.
Row == [present : BOOLEAN, delivered : BOOLEAN, dead : BOOLEAN, due : BOOLEAN,
        attempts : Nat]

\* pc names the statement that comes next for the first message of the batch;
\* seen is the attempts column as outbox_mark_failed has read it.
Pass == [pc : {"idle", "handle", "ack", "read", "mark", "gone"},
         batch : SUBSET Messages, seen : Nat]

Idle == [pc |-> "idle", batch |-> {}, seen |-> 0]

Init ==
  /\ box = [m \in Messages |-> [present |-> FALSE, delivered |-> FALSE, dead |-> FALSE,
                                due |-> FALSE, attempts |-> 0]]
  /\ records = {}
  /\ pass = [r \in Relays |-> Idle]
  /\ wins = [m \in Messages |-> 0]
  /\ requeues = 0

Pending(m) == box[m].present /\ ~box[m].delivered /\ ~box[m].dead

-----------------------------------------------------------------------------
(* Producers and operators.                                                *)

\* Ids grow with insertion.  A key seen before inserts nothing.
Enqueue(m) ==
  /\ ~box[m].present
  /\ \A x \in Messages : x < m => box[x].present
  /\ box' = [box EXCEPT ![m].present = TRUE, ![m].due = TRUE]
  /\ UNCHANGED <<records, pass, wins, requeues>>

DeadLetter(m) ==
  /\ box[m].present /\ ~box[m].delivered
  /\ box' = [box EXCEPT ![m].dead = TRUE]
  /\ UNCHANGED <<records, pass, wins, requeues>>

\* Mutant: the attempts are kept.
RequeueDeadCounted(S) ==
  /\ requeues < RequeueBound
  /\ S # {} /\ \A m \in S : box[m].dead
  /\ Cardinality(S) = 1 \/ \A m \in Messages : box[m].dead => m \in S
  /\ box' = [m \in Messages |->
               IF m \in S THEN [box[m] EXCEPT !.dead = FALSE, !.due = TRUE] ELSE box[m]]
  /\ requeues' = requeues + 1
  /\ UNCHANGED <<records, pass, wins>>

\* One dead-lettered message, or all of them.
RequeueDead(S) ==
  /\ requeues < RequeueBound
  /\ S # {} /\ \A m \in S : box[m].dead
  /\ Cardinality(S) = 1 \/ \A m \in Messages : box[m].dead => m \in S
  /\ box' = [m \in Messages |->
               IF m \in S THEN [box[m] EXCEPT !.dead = FALSE, !.due = TRUE, !.attempts = 0]
                          ELSE box[m]]
  /\ requeues' = requeues + 1
  /\ UNCHANGED <<records, pass, wins>>

\* The backoff of a failed message ends.
BackoffEnds(m) ==
  /\ Pending(m) /\ ~box[m].due
  /\ box' = [box EXCEPT ![m].due = TRUE]
  /\ UNCHANGED <<records, pass, wins, requeues>>

-----------------------------------------------------------------------------
(* One pass of drain_once.                                                 *)

Due == {m \in Messages : Pending(m) /\ box[m].due}

OldestDue == {m \in Due : Cardinality({x \in Due : x < m}) < BatchLimit}

At(r, pc, m) == /\ pass[r].pc = pc
                /\ m \in pass[r].batch
                /\ \A x \in pass[r].batch : m <= x

\* Mutant: a pass does not end.
BeyondAgain(r, m) == [pc |-> "handle", batch |-> pass[r].batch \ {m}, seen |-> 0]

\* The pass after it is done with m.
Beyond(r, m) == IF pass[r].batch = {m} THEN Idle
                ELSE [pc |-> "handle", batch |-> pass[r].batch \ {m}, seen |-> 0]

ListPending(r) ==
  /\ pass[r].pc = "idle" /\ OldestDue # {}
  /\ pass' = [pass EXCEPT ![r] = [pc |-> "handle", batch |-> OldestDue, seen |-> 0]]
  /\ UNCHANGED <<box, records, wins, requeues>>

HandleSucceeds(r, m) ==
  /\ At(r, "handle", m) /\ m \notin Poison
  /\ records' = records \cup {m}
  /\ pass' = [pass EXCEPT ![r].pc = "ack"]
  /\ UNCHANGED <<box, wins, requeues>>

\* Mutant: the error of a handler is logged and passed over.
HandleFailsQuietly(r, m) ==
  /\ At(r, "handle", m) /\ (m \in Poison \/ "handler" \in Faults)
  /\ pass' = [pass EXCEPT ![r].pc = "ack"]
  /\ UNCHANGED <<box, records, wins, requeues>>

HandleFails(r, m) ==
  /\ At(r, "handle", m) /\ (m \in Poison \/ "handler" \in Faults)
  /\ pass' = [pass EXCEPT ![r].pc = "read"]
  /\ UNCHANGED <<box, records, wins, requeues>>

\* Mutant: outbox_mark_delivered, which does not look at the row.
AckAlways(r, m) ==
  /\ At(r, "ack", m)
  /\ box' = [box EXCEPT ![m].delivered = TRUE, ![m].attempts = @ + 1, ![m].due = TRUE]
  /\ wins' = [wins EXCEPT ![m] = @ + 1]
  /\ pass' = [pass EXCEPT ![r] = Beyond(r, m)]
  /\ UNCHANGED <<records, requeues>>

\* Mutant: the dead-letter mark is not looked at.
AckUnlessDelivered(r, m) ==
  /\ At(r, "ack", m)
  /\ IF ~box[m].delivered
     THEN /\ box' = [box EXCEPT ![m].delivered = TRUE, ![m].attempts = @ + 1, ![m].due = TRUE]
          /\ wins' = [wins EXCEPT ![m] = @ + 1]
     ELSE UNCHANGED <<box, wins>>
  /\ pass' = [pass EXCEPT ![r] = Beyond(r, m)]
  /\ UNCHANGED <<records, requeues>>

\* outbox_mark_delivered_if_pending: one statement, guarded.
Ack(r, m) ==
  /\ At(r, "ack", m)
  /\ IF Pending(m)
     THEN /\ box' = [box EXCEPT ![m].delivered = TRUE, ![m].attempts = @ + 1, ![m].due = TRUE]
          /\ wins' = [wins EXCEPT ![m] = @ + 1]
     ELSE UNCHANGED <<box, wins>>
  /\ pass' = [pass EXCEPT ![r] = Beyond(r, m)]
  /\ UNCHANGED <<records, requeues>>

\* An acknowledgment that raises counts as a failed delivery.
AckRaises(r, m) ==
  /\ At(r, "ack", m) /\ "store" \in Faults
  /\ pass' = [pass EXCEPT ![r].pc = "read"]
  /\ UNCHANGED <<box, records, wins, requeues>>

ReadAttempts(r, m) ==
  /\ At(r, "read", m)
  /\ pass' = [pass EXCEPT ![r].pc = "mark", ![r].seen = box[m].attempts]
  /\ UNCHANGED <<box, records, wins, requeues>>

\* Mutant: the attempts are written back as they were read.
MarkFailedUncounted(r, m) ==
  /\ At(r, "mark", m)
  /\ LET attempts == pass[r].seen IN
     box' = [box EXCEPT ![m].attempts = attempts,
                        ![m].dead = @ \/ attempts >= MaxAttempts,
                        ![m].due = @ /\ attempts >= MaxAttempts]
  /\ pass' = [pass EXCEPT ![r] = Beyond(r, m)]
  /\ UNCHANGED <<records, wins, requeues>>

\* The second statement of outbox_mark_failed.  It looks neither at the row's
\* attempts nor at whether the message has been delivered meanwhile.
MarkFailed(r, m) ==
  /\ At(r, "mark", m)
  /\ LET attempts == pass[r].seen + 1 IN
     box' = [box EXCEPT ![m].attempts = attempts,
                        ![m].dead = @ \/ attempts >= MaxAttempts,
                        ![m].due = @ /\ attempts >= MaxAttempts]
  /\ pass' = [pass EXCEPT ![r] = Beyond(r, m)]
  /\ UNCHANGED <<records, wins, requeues>>

\* An error of outbox_mark_failed itself ends the pass; _run logs it.
PassFails(r) ==
  /\ pass[r].pc \in {"read", "mark"} /\ "store" \in Faults
  /\ pass' = [pass EXCEPT ![r] = Idle]
  /\ UNCHANGED <<box, records, wins, requeues>>

Die(r) ==
  /\ r \in Mortal /\ pass[r].pc # "gone"
  /\ pass' = [pass EXCEPT ![r] = [Idle EXCEPT !.pc = "gone"]]
  /\ UNCHANGED <<box, records, wins, requeues>>

-----------------------------------------------------------------------------
Operator == \/ \E m \in Messages : DeadLetter(m)
            \/ \E S \in SUBSET Messages : RequeueDead(S)

Deliver(r) == \E m \in Messages :
  HandleSucceeds(r, m) \/ Ack(r, m) \/ ReadAttempts(r, m) \/ MarkFailed(r, m)

Trouble(r) == \/ \E m \in Messages : HandleFails(r, m) \/ AckRaises(r, m)
              \/ PassFails(r) \/ Die(r)

Next == \/ \E m \in Messages : Enqueue(m) \/ BackoffEnds(m)
        \/ Operator
        \/ \E r \in Relays : ListPending(r) \/ Deliver(r) \/ Trouble(r)

Spec == Init /\ [][Next]_vars

\* Relays that do not die keep polling and finish what they start.  A poison
\* message fails by itself; a store that raises does not raise every time.
RelayFairness(r) ==
  /\ WF_vars(ListPending(r))
  /\ WF_vars(Deliver(r))
  /\ WF_vars(\E m \in Poison : HandleFails(r, m))
  /\ \A m \in Messages : SF_vars(ReadAttempts(r, m)) /\ SF_vars(MarkFailed(r, m))

FairSpec == /\ Spec
            /\ \A r \in Relays \ Mortal : RelayFairness(r)
            /\ \A m \in Messages : WF_vars(BackoffEnds(m))

-----------------------------------------------------------------------------
\* Shapes of the rows and of the passes; a relay has a batch exactly while it is
\* inside a pass.
TypeOK ==
  /\ box \in [Messages -> Row]
  /\ records \subseteq Messages
  /\ pass \in [Relays -> Pass]
  /\ wins \in [Messages -> Nat]
  /\ requeues \in Nat
  /\ \A r \in Relays : pass[r].batch = {} <=> pass[r].pc \in {"idle", "gone"}

\* A message counts as delivered only when the sink holds its record, whatever
\* relays, deaths and store errors came between handler and acknowledgment.
DeliveredIsRecorded == \A m \in Messages : box[m].delivered => m \in records

\* Of all relays that delivered a message and its replays, exactly one is told
\* that the acknowledgment was its own (outbox_mark_delivered_if_pending).
OneWinner == \A m \in Messages : wins[m] = (IF box[m].delivered THEN 1 ELSE 0)

\* A message that is still handed out has attempts left: late and repeated
\* failure reports of several relays never leave one queued beyond the limit.
AttemptsLeft == \A m \in Messages : Pending(m) => box[m].attempts < MaxAttempts

Fate(m) == IF ~box[m].present THEN "absent"
           ELSE IF box[m].delivered THEN "delivered"
           ELSE IF box[m].dead THEN "dead" ELSE "pending"

Promise == INSTANCE MessageDelivery WITH fate <- [m \in Messages |-> Fate(m)],
                                         effects <- records

\* The outbox keeps what module MessageDelivery promises: no message is lost,
\* delivered is final and never without its effect, dead letters wait for an
\* operator.
KeepsPromise == Promise!Spec

\* A message that stays queued is delivered or given up: concurrent failure
\* reports may lose counts to each other, but not for ever.
EveryMessageSettles == \A m \in Messages : Pending(m) ~> ~Pending(m)

\* outbox_requeue_dead returns a dead-lettered message to the pending queue.
RequeueReturns ==
  [][\A m \in Messages : box[m].dead /\ ~box'[m].dead => Pending(m)']_vars
=============================================================================
