------------------------------ MODULE AuditChain ------------------------------
(***************************************************************************)
(* The tamper-evident audit trail: app/tenants/audit.py.                   *)
(*                                                                         *)
(* append and prune are one BEGIN IMMEDIATE transaction each, except that  *)
(* prune writes the archive file before it commits.  verify reads the      *)
(* events over one connection and the anchors over a second one, and any   *)
(* other process may append or prune between the two.                      *)
(*                                                                         *)
(* SHA-256 is injective here: the hash of an event is the sequence of all  *)
(* payloads it commits to, and NULL is the empty sequence, which is what   *)
(* the code hashes for a missing previous hash.                            *)
(***************************************************************************)
EXTENDS Naturals, Sequences, Selection

CONSTANTS EventBound,   \* bound: events appended
          DayBound,     \* bound: days that pass
          Accidents     \* may stored rows be altered or lost?

ASSUME AuditAssumption == /\ EventBound \in Nat /\ DayBound \in Nat
                          /\ Accidents \in BOOLEAN

VARIABLES events,     \* audit_events, in the order of seq
          appended,   \* the AUTOINCREMENT counter
          anchors,    \* audit_chain_anchors: the head hashes
          archive,    \* seq numbers in the archive file
          today,      \* the clock, in days; it does not go back
          verifier,   \* the verify call under way and its verdict
          accidents   \* seq numbers of rows altered or lost outside the store

auditVars == <<events, appended, anchors, archive, today, verifier, accidents>>

EventHash(prev, payload) == Append(prev, payload)

Payload(row) == <<row.seq, row.ts, row.data>>

Idle == [pc |-> "idle", rows |-> <<>>, intact |-> TRUE]

AuditInit == /\ events = <<>> /\ appended = 0
             /\ anchors = {} /\ archive = {} /\ accidents = {}
             /\ today = 0
             /\ verifier = Idle

-----------------------------------------------------------------------------
(* append                                                                  *)

AppendEvent ==
  /\ appended < EventBound
  /\ LET prev == IF events = <<>> THEN <<>> ELSE events[Len(events)].hash
         row  == [seq |-> appended + 1, ts |-> today, data |-> "as written", prev |-> prev]
     IN  events' = Append(events, [seq |-> row.seq, ts |-> row.ts, data |-> row.data,
                                   prev |-> prev, hash |-> EventHash(prev, Payload(row))])
  /\ appended' = appended + 1
  /\ UNCHANGED <<anchors, archive, today, verifier, accidents>>

-----------------------------------------------------------------------------
(* prune                                                                   *)

Old(cutoff)  == SelectAt(events, {i \in DOMAIN events : events[i].ts < cutoff})
Kept(cutoff) == SelectAt(events, {i \in DOMAIN events : events[i].ts >= cutoff})
Seqs(rows)   == {rows[i].seq : i \in DOMAIN rows}

\* Mutant: the boundary is taken from the first row that goes.
PruneAtFirst(cutoff, committed) ==
  /\ Old(cutoff) # <<>>
  /\ archive' = archive \cup Seqs(Old(cutoff))
  /\ IF committed
     THEN /\ events' = Kept(cutoff)
          /\ anchors' = anchors \cup {Old(cutoff)[1].hash}
     ELSE UNCHANGED <<events, anchors>>
  /\ UNCHANGED <<appended, today, verifier, accidents>>

\* Mutant: the archive is written after the commit, which may be the last thing
\* the process does.
PruneBeforeArchive(cutoff, committed) ==
  /\ Old(cutoff) # <<>>
  /\ archive' = IF committed THEN archive ELSE archive \cup Seqs(Old(cutoff))
  /\ events' = Kept(cutoff)
  /\ anchors' = anchors \cup {Old(cutoff)[Len(Old(cutoff))].hash}
  /\ UNCHANGED <<appended, today, verifier, accidents>>

\* The rows older than the cutoff go to the archive, then out of the table, and
\* their head becomes an anchor.  A crash or an error between the two leaves the
\* archive written and the transaction rolled back.
Prune(cutoff, committed) ==
  /\ Old(cutoff) # <<>>
  /\ archive' = archive \cup Seqs(Old(cutoff))
  /\ IF committed
     THEN /\ events' = Kept(cutoff)
          /\ anchors' = anchors \cup {Old(cutoff)[Len(Old(cutoff))].hash}
     ELSE UNCHANGED <<events, anchors>>
  /\ UNCHANGED <<appended, today, verifier, accidents>>

-----------------------------------------------------------------------------
(* verify                                                                  *)

ReadRows ==
  /\ verifier.pc = "idle"
  /\ verifier' = [pc |-> "rows read", rows |-> events, intact |-> TRUE]
  /\ UNCHANGED <<events, appended, anchors, archive, today, accidents>>

\* Mutant: each row is checked against its own idea of the row before it.
LinkedByItself(rows) ==
  \A i \in DOMAIN rows : rows[i].hash = EventHash(rows[i].prev, Payload(rows[i]))

\* The first surviving row may link to an anchor; every other row links to the
\* row before it; every hash is the hash of what the row says.
Linked(rows) ==
  \A i \in DOMAIN rows :
    LET prev == IF i = 1 THEN rows[1].prev ELSE rows[i - 1].hash
    IN  /\ i = 1 => rows[1].prev \in anchors \cup {<<>>}
        /\ rows[i].prev = prev
        /\ rows[i].hash = EventHash(prev, Payload(rows[i]))

ReadAnchors ==
  /\ verifier.pc = "rows read"
  /\ verifier' = [verifier EXCEPT !.pc = "done", !.intact = Linked(verifier.rows)]
  /\ UNCHANGED <<events, appended, anchors, archive, today, accidents>>

VerifyAgain ==
  /\ verifier.pc = "done"
  /\ verifier' = Idle
  /\ UNCHANGED <<events, appended, anchors, archive, today, accidents>>

-----------------------------------------------------------------------------
(* The environment: days pass, rows are damaged.  The last row is spared:   *)
(* nothing links to it yet, and its loss leaves no trace.                  *)

NextDay == /\ today < DayBound /\ today' = today + 1
           /\ UNCHANGED <<events, appended, anchors, archive, verifier, accidents>>

Alter(i) ==
  /\ Accidents /\ i \in DOMAIN events
  /\ events' = [events EXCEPT ![i].data = "altered"]
  /\ accidents' = accidents \cup {events[i].seq}
  /\ UNCHANGED <<appended, anchors, archive, today, verifier>>

Lose(i) ==
  /\ Accidents /\ i \in 1..Len(events) - 1
  /\ events' = SubSeq(events, 1, i - 1) \o SubSeq(events, i + 1, Len(events))
  /\ accidents' = accidents \cup {events[i].seq}
  /\ UNCHANGED <<appended, anchors, archive, today, verifier>>

AuditNext ==
  \/ AppendEvent \/ ReadRows \/ ReadAnchors \/ VerifyAgain \/ NextDay
  \/ \E cutoff \in 1..DayBound, committed \in BOOLEAN :
       cutoff < today /\ Prune(cutoff, committed)
  \/ \E i \in 1..EventBound : Alter(i) \/ Lose(i)

AuditSpec == AuditInit /\ [][AuditNext]_auditVars

-----------------------------------------------------------------------------
(* Properties.                                                             *)

\* The rows are rows, in the order of their seq, and none is newer than the counter
\* (audit_events and its AUTOINCREMENT column).
AuditTypeOK ==
  /\ appended \in 0..EventBound /\ today \in 0..DayBound
  /\ \A i \in DOMAIN events : /\ events[i].seq \in 1..appended
                              /\ events[i].data \in {"as written", "altered"}
                              /\ i > 1 => events[i - 1].seq < events[i].seq
  /\ archive \subseteq 1..appended /\ accidents \subseteq 1..appended
  /\ verifier.pc \in {"idle", "rows read", "done"} /\ verifier.intact \in BOOLEAN

\* A trail nobody damaged is reported intact, whatever was appended or pruned while
\* verify ran: the anchors are read after the rows, and an anchor is never deleted
\* (AuditStore.verify).
NoFalseAlarm == verifier.pc = "done" /\ accidents = {} => verifier.intact

\* A trail reported intact holds no altered row and has no gap between two rows
\* (the claim of the module's docstring, for everything but the last row).
DamageIsSeen ==
  verifier.pc = "done" /\ verifier.intact =>
    \A i \in DOMAIN verifier.rows :
      /\ verifier.rows[i].data = "as written"
      /\ i > 1 => verifier.rows[i].seq = verifier.rows[i - 1].seq + 1

\* Every event ever appended is in the table or in the archive: pruning, also one
\* that fails half way, loses none (AuditStore.prune).
NothingLost == 1..appended \subseteq Seqs(events) \cup archive \cup accidents

=============================================================================
