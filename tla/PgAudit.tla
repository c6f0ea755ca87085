------------------------------- MODULE PgAudit --------------------------------
(***************************************************************************)
(* The audit trail on Postgres: PostgresAuditStore.append and verify of    *)
(* app/storage/pg_store.py, under READ COMMITTED.                          *)
(*                                                                         *)
(* A hash is the sequence of the payloads it commits to; a payload is the  *)
(* seq of its row and what the clock said.                                 *)
(***************************************************************************)
EXTENDS Naturals, Sequences, FiniteSets

CONSTANT Auditors       \* calls of append, each made once

VARIABLES trail,    \* committed audit_events, in the order of seq
          writer    \* call -> where it is, and the hash of the head it has read

pgAuditVars == <<trail, writer>>

Genesis == <<>>

PgAuditInit == /\ trail = <<>>
               /\ writer = [a \in Auditors |-> [pc |-> "new", prev |-> Genesis]]

\* The head row is read and locked.  A second append that meets the lock waits for it,
\* and goes on with the row it had found, not with the one appended meanwhile.
ReadHead(a) ==
  /\ writer[a].pc = "new"
  /\ writer' = [writer EXCEPT ![a] = [pc |-> "read",
                  prev |-> IF trail = <<>> THEN Genesis ELSE trail[Len(trail)].hash]]
  /\ UNCHANGED trail

\* now_ts() is called for the row and called again for the hash: sameTime says whether
\* the two calls agree.
AppendAudit(a, sameTime) ==
  /\ writer[a].pc = "read"
  /\ LET seq == Len(trail) + 1
         hashed == Append(writer[a].prev, <<seq, IF sameTime THEN "ts" ELSE "later">>)
     IN  trail' = Append(trail, [seq |-> seq, prev |-> writer[a].prev, hash |-> hashed])
  /\ writer' = [writer EXCEPT ![a].pc = "done"]

\* verify: every row is linked to the one before and hashed as stored.
TrailVerifies ==
  \A i \in DOMAIN trail :
    LET prev == IF i = 1 THEN Genesis ELSE trail[i - 1].hash
    IN  trail[i].prev = prev /\ trail[i].hash = Append(prev, <<trail[i].seq, "ts">>)

PgAuditNext == \E a \in Auditors : ReadHead(a) \/ \E sameTime \in BOOLEAN : AppendAudit(a, sameTime)

PgAuditSpec == PgAuditInit /\ [][PgAuditNext]_pgAuditVars

-----------------------------------------------------------------------------
\* Types; a row is linked to an earlier one or to none, and no two rows have one hash.
\* TrailVerifies itself is not an invariant: two appends may link to the same head, and
\* the clock may move between the row and its hash.
PgAuditTypeOK ==
  /\ Len(trail) = Cardinality({a \in Auditors : writer[a].pc = "done"})
  /\ \A i \in DOMAIN trail :
       /\ trail[i].seq = i
       /\ trail[i].prev \in {Genesis} \cup {trail[j].hash : j \in 1..i - 1}
       /\ \A j \in 1..i - 1 : trail[j].hash # trail[i].hash
  /\ \A a \in Auditors : writer[a].prev \in {Genesis} \cup {trail[j].hash : j \in DOMAIN trail}
=============================================================================
