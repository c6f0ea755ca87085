--------------------------- MODULE OutboxRelayProofs ---------------------------
(***************************************************************************)
(* Theorems about OutboxRelay, for every set of messages, relays and       *)
(* faults and every limit.                                                 *)
(***************************************************************************)
EXTENDS OutboxRelay, TLAPS

\* The rows of ids not yet given, and what passes carry: only accepted messages,
\* and an acknowledgment is next only when the record is in the sink.
Carried ==
  /\ \A m \in Messages : ~box[m].present =>
       ~box[m].delivered /\ ~box[m].dead /\ box[m].attempts = 0
  /\ \A r \in Relays : \A m \in pass[r].batch : box[m].present
  /\ \A r \in Relays, m \in Messages : At(r, "ack", m) => m \in records

Inv == /\ TypeOK
       /\ Carried
       /\ DeliveredIsRecorded
       /\ OneWinner
       /\ AttemptsLeft

\* The pass that is left when the first message is done with.
LEMMA BeyondType ==
  ASSUME NEW r \in Relays, NEW m \in Messages, pass[r] \in Pass, m \in pass[r].batch
  PROVE  /\ Beyond(r, m) \in Pass
         /\ Beyond(r, m).batch = {} <=> Beyond(r, m).pc \in {"idle", "gone"}
         /\ Beyond(r, m).batch \subseteq pass[r].batch
         /\ Beyond(r, m).pc # "ack"
<1>1. CASE pass[r].batch = {m}
  BY <1>1 DEF Beyond, Idle, Pass
<1>2. CASE pass[r].batch # {m}
  <2>1. pass[r].batch \ {m} # {} BY <1>2
  <2> QED BY <1>2, <2>1 DEF Beyond, Pass
<1> QED BY <1>1, <1>2

LEMMA InitInv == Init => Inv
BY OutboxAssumption DEF Init, Inv, TypeOK, Carried, DeliveredIsRecorded, OneWinner,
   AttemptsLeft, Row, Pass, Idle, At, Pending

\* Shapes are kept by every step.
LEMMA TypeStep == TypeOK /\ [Next]_vars => TypeOK'
<1> SUFFICES ASSUME TypeOK, [Next]_vars PROVE TypeOK'
  OBVIOUS
<1> USE OutboxAssumption DEF TypeOK
<1>1. ASSUME NEW m \in Messages, Enqueue(m) PROVE TypeOK'
  BY <1>1 DEF Enqueue, Row
<1>2. ASSUME NEW m \in Messages, BackoffEnds(m) PROVE TypeOK'
  BY <1>2 DEF BackoffEnds, Row
<1>3. ASSUME NEW m \in Messages, DeadLetter(m) PROVE TypeOK'
  BY <1>3 DEF DeadLetter, Row
<1>4. ASSUME NEW S \in SUBSET Messages, RequeueDead(S) PROVE TypeOK'
  <2>1. \A m \in Messages : [box[m] EXCEPT !.dead = FALSE, !.due = TRUE, !.attempts = 0] \in Row
    BY DEF Row
  <2>2. box' \in [Messages -> Row]
    BY <1>4, <2>1 DEF RequeueDead
  <2>3. requeues' = requeues + 1 /\ UNCHANGED <<records, pass, wins>>
    BY <1>4 DEF RequeueDead
  <2> QED BY <2>2, <2>3
<1>5. ASSUME NEW r \in Relays, ListPending(r) PROVE TypeOK'
  <2>1. OldestDue \in SUBSET Messages /\ OldestDue # {}
    BY <1>5 DEF ListPending, OldestDue, Due
  <2> QED BY <1>5, <2>1 DEF ListPending, Pass
<1>6. ASSUME NEW r \in Relays, NEW m \in Messages, HandleSucceeds(r, m) PROVE TypeOK'
  BY <1>6 DEF HandleSucceeds, At, Pass
<1>7. ASSUME NEW r \in Relays, NEW m \in Messages, HandleFails(r, m) PROVE TypeOK'
  BY <1>7 DEF HandleFails, At, Pass
<1>8. ASSUME NEW r \in Relays, NEW m \in Messages, Ack(r, m) PROVE TypeOK'
  <2>1. /\ Beyond(r, m) \in Pass
        /\ Beyond(r, m).batch = {} <=> Beyond(r, m).pc \in {"idle", "gone"}
    BY <1>8, BeyondType DEF Ack, At
  <2>2. box' \in [Messages -> Row] /\ wins' \in [Messages -> Nat]
    BY <1>8 DEF Ack, Row
  <2> QED BY <1>8, <2>1, <2>2 DEF Ack
<1>9. ASSUME NEW r \in Relays, NEW m \in Messages, AckRaises(r, m) PROVE TypeOK'
  BY <1>9 DEF AckRaises, At, Pass
<1>10. ASSUME NEW r \in Relays, NEW m \in Messages, ReadAttempts(r, m) PROVE TypeOK'
  BY <1>10 DEF ReadAttempts, At, Pass, Row
<1>11. ASSUME NEW r \in Relays, NEW m \in Messages, MarkFailed(r, m) PROVE TypeOK'
  <2>1. /\ Beyond(r, m) \in Pass
        /\ Beyond(r, m).batch = {} <=> Beyond(r, m).pc \in {"idle", "gone"}
    BY <1>11, BeyondType DEF MarkFailed, At
  <2>2. box' \in [Messages -> Row]
    <3> DEFINE attempts == pass[r].seen + 1
               dead == box[m].dead \/ attempts >= MaxAttempts
               due == box[m].due /\ attempts >= MaxAttempts
    <3>1. attempts \in Nat
      BY DEF Pass
    <3>2. [box[m] EXCEPT !.attempts = attempts, !.dead = dead, !.due = due] \in Row
      BY <3>1 DEF Row
    <3>3. box' = [box EXCEPT ![m] = [box[m] EXCEPT !.attempts = attempts, !.dead = dead,
                                                   !.due = due]]
      BY <1>11 DEF MarkFailed
    <3> HIDE DEF attempts, dead, due
    <3> QED BY <3>2, <3>3
  <2> QED BY <1>11, <2>1, <2>2 DEF MarkFailed
<1>12. ASSUME NEW r \in Relays, PassFails(r) PROVE TypeOK'
  BY <1>12 DEF PassFails, Idle, Pass
<1>13. ASSUME NEW r \in Relays, Die(r) PROVE TypeOK'
  BY <1>13 DEF Die, Idle, Pass
<1>14. CASE UNCHANGED vars
  BY <1>14 DEF vars
<1> QED
  BY <1>1, <1>2, <1>3, <1>4, <1>5, <1>6, <1>7, <1>8, <1>9, <1>10, <1>11, <1>12, <1>13,
     <1>14 DEF Next, Operator, Deliver, Trouble
\* What a requeue does to each row.
LEMMA RequeuedRows ==
  ASSUME NEW S \in SUBSET Messages, RequeueDead(S), TypeOK
  PROVE  \A x \in Messages : /\ box'[x].present = box[x].present
                             /\ box'[x].delivered = box[x].delivered
                             /\ x \in S => /\ box[x].dead /\ ~box'[x].dead
                                           /\ box'[x].attempts = 0
                             /\ x \notin S => box'[x] = box[x]
<1> SUFFICES ASSUME NEW x \in Messages
             PROVE  /\ box'[x].present = box[x].present
                    /\ box'[x].delivered = box[x].delivered
                    /\ x \in S => /\ box[x].dead /\ ~box'[x].dead
                                  /\ box'[x].attempts = 0
                    /\ x \notin S => box'[x] = box[x]
  OBVIOUS
<1>1. box[x] \in Row
  BY DEF TypeOK
<1>2. CASE x \in S
  <2>1. box'[x] = [box[x] EXCEPT !.dead = FALSE, !.due = TRUE, !.attempts = 0]
    BY <1>2 DEF RequeueDead
  <2>2. box[x].dead
    BY <1>2 DEF RequeueDead
  <2> QED BY <1>1, <1>2, <2>1, <2>2 DEF Row
<1>3. CASE x \notin S
  <2>1. box'[x] = box[x]
    BY <1>3 DEF RequeueDead
  <2> QED BY <1>3, <2>1
<1> QED BY <1>2, <1>3

\* What passes carry, the acknowledgments and the attempts, under every step.
LEMMA InvStep == Inv /\ [Next]_vars => Inv'
<1> SUFFICES ASSUME Inv, [Next]_vars PROVE Inv'
  OBVIOUS
<1>t. TypeOK /\ TypeOK'
  BY TypeStep DEF Inv
<1> SUFFICES Carried' /\ DeliveredIsRecorded' /\ OneWinner' /\ AttemptsLeft'
  BY <1>t DEF Inv
<1> DEFINE Kept == Carried' /\ DeliveredIsRecorded' /\ OneWinner' /\ AttemptsLeft'
<1> USE OutboxAssumption DEF Inv
<1>1. ASSUME NEW m \in Messages, Enqueue(m) PROVE Kept
  <2>1. \A x \in Messages : /\ box[x].present => box'[x].present
                            /\ box'[x].delivered = box[x].delivered
                            /\ box'[x].dead = box[x].dead
                            /\ box'[x].attempts = box[x].attempts
    BY <1>t, <1>1 DEF Enqueue, TypeOK, Row
  <2>2. \A x \in Messages : x # m => box'[x] = box[x]
    BY <1>t, <1>1 DEF Enqueue, TypeOK
  <2>3. UNCHANGED <<records, pass, wins>>
    BY <1>1 DEF Enqueue
  <2>4. Carried'
    BY <1>t, <2>1, <2>2, <2>3 DEF Carried, TypeOK, At, Pass
  <2>5. DeliveredIsRecorded' /\ OneWinner'
    BY <2>1, <2>3 DEF DeliveredIsRecorded, OneWinner
  <2>6. AttemptsLeft'
    <3>1. box'[m].attempts = 0
      BY <1>1, <2>1 DEF Enqueue, Carried
    <3>2. \A x \in Messages : x # m /\ Pending(x)' => Pending(x) /\ box'[x] = box[x]
      BY <2>2 DEF Pending
    <3> QED BY <3>1, <3>2 DEF AttemptsLeft
  <2> QED BY <2>4, <2>5, <2>6
<1>2. ASSUME NEW m \in Messages, BackoffEnds(m) PROVE Kept
  <2>1. \A x \in Messages : /\ box'[x].present = box[x].present
                            /\ box'[x].delivered = box[x].delivered
                            /\ box'[x].dead = box[x].dead
                            /\ box'[x].attempts = box[x].attempts
    BY <1>t, <1>2 DEF BackoffEnds, TypeOK, Row
  <2>2. UNCHANGED <<records, pass, wins>>
    BY <1>2 DEF BackoffEnds
  <2> QED
    BY <1>t, <2>1, <2>2 DEF Carried, DeliveredIsRecorded, OneWinner, AttemptsLeft, Pending,
       At, TypeOK, Pass
<1>3. ASSUME NEW m \in Messages, DeadLetter(m) PROVE Kept
  <2>1. \A x \in Messages : /\ box'[x].present = box[x].present
                            /\ box'[x].delivered = box[x].delivered
                            /\ box'[x].dead = box[x].dead \/ x = m
                            /\ box[x].dead => box'[x].dead
                            /\ box'[x].attempts = box[x].attempts
    BY <1>t, <1>3 DEF DeadLetter, TypeOK, Row
  <2>2. UNCHANGED <<records, pass, wins>> /\ box[m].present
    BY <1>3 DEF DeadLetter
  <2> QED
    BY <1>t, <2>1, <2>2 DEF Carried, DeliveredIsRecorded, OneWinner, AttemptsLeft, Pending,
       At, TypeOK, Pass
<1>4. ASSUME NEW S \in SUBSET Messages, RequeueDead(S) PROVE Kept
  <2>1. \A x \in Messages : /\ box'[x].present = box[x].present
                            /\ box'[x].delivered = box[x].delivered
                            /\ x \in S => ~box'[x].dead /\ box'[x].attempts = 0
                            /\ x \notin S => box'[x] = box[x]
    BY <1>t, <1>4, RequeuedRows
  <2>2. UNCHANGED <<records, pass, wins>>
    BY <1>4 DEF RequeueDead
  <2>3. Carried' /\ DeliveredIsRecorded' /\ OneWinner'
    BY <1>t, <2>1, <2>2 DEF Carried, DeliveredIsRecorded, OneWinner, At, TypeOK, Pass
  <2>4. AttemptsLeft'
    <3>1. \A x \in Messages : x \notin S /\ Pending(x)' => Pending(x) /\ box'[x] = box[x]
      BY <2>1 DEF Pending
    <3> QED BY <2>1, <3>1 DEF AttemptsLeft
  <2> QED BY <2>3, <2>4
<1>5. ASSUME NEW r \in Relays, ListPending(r) PROVE Kept
  <2>1. \A x \in OldestDue : x \in Messages /\ box[x].present
    BY DEF OldestDue, Due, Pending
  <2>2. UNCHANGED <<box, records, wins>>
    BY <1>5 DEF ListPending
  <2>3. \A q \in Relays : /\ q = r => pass'[q].pc = "handle" /\ pass'[q].batch = OldestDue
                          /\ q # r => pass'[q] = pass[q]
    BY <1>t, <1>5 DEF ListPending, TypeOK
  <2>4. Carried'
    BY <2>1, <2>2, <2>3 DEF Carried, At
  <2> QED
    BY <2>2, <2>4 DEF DeliveredIsRecorded, OneWinner, AttemptsLeft, Pending
<1>6. ASSUME NEW r \in Relays, NEW m \in Messages, HandleSucceeds(r, m) PROVE Kept
  <2>1. UNCHANGED <<box, wins>> /\ records' = records \cup {m} /\ At(r, "handle", m)
    BY <1>6 DEF HandleSucceeds
  <2>2. \A q \in Relays : /\ pass'[q].batch = pass[q].batch
                          /\ q # r => pass'[q] = pass[q]
    BY <1>t, <1>6 DEF HandleSucceeds, TypeOK, Pass
  <2>3. ASSUME NEW q \in Relays, NEW x \in Messages, At(q, "ack", x)' PROVE x \in records'
    <3>1. CASE q = r
      <4>1. x \in pass[r].batch /\ m \in pass[r].batch /\ x <= m /\ m <= x
        BY <2>1, <2>2, <2>3, <3>1 DEF At
      <4> QED BY <2>1, <4>1
    <3>2. CASE q # r
      BY <2>1, <2>2, <2>3, <3>2 DEF At, Carried
    <3> QED BY <3>1, <3>2
  <2>4. Carried'
    BY <2>1, <2>2, <2>3 DEF Carried
  <2> QED
    BY <2>1, <2>4 DEF DeliveredIsRecorded, OneWinner, AttemptsLeft, Pending
<1>7. ASSUME NEW r \in Relays, NEW m \in Messages,
             HandleFails(r, m) \/ AckRaises(r, m) \/ ReadAttempts(r, m) PROVE Kept
  <2>1. UNCHANGED <<box, records, wins>>
    BY <1>7 DEF HandleFails, AckRaises, ReadAttempts
  <2>2. \A q \in Relays : /\ pass'[q].batch = pass[q].batch
                          /\ q = r => pass'[q].pc # "ack"
                          /\ q # r => pass'[q] = pass[q]
    BY <1>t, <1>7 DEF HandleFails, AckRaises, ReadAttempts, TypeOK, Pass
  <2>3. Carried'
    BY <2>1, <2>2 DEF Carried, At
  <2> QED
    BY <2>1, <2>3 DEF DeliveredIsRecorded, OneWinner, AttemptsLeft, Pending
<1>8. ASSUME NEW r \in Relays, NEW m \in Messages, Ack(r, m) PROVE Kept
  <2>1. \A q \in Relays : /\ pass'[q].batch \subseteq pass[q].batch
                          /\ q = r => pass'[q].pc # "ack"
                          /\ q # r => pass'[q] = pass[q]
    BY <1>t, <1>8, BeyondType DEF Ack, At, TypeOK
  <2>2. m \in records /\ box[m].present /\ records' = records
    BY <1>8 DEF Ack, Carried, At
  <2>3. CASE Pending(m)
    <3>1. \A x \in Messages :
            /\ box'[x].present = box[x].present /\ box'[x].dead = box[x].dead
            /\ x = m => box'[x].delivered /\ wins'[x] = wins[x] + 1
            /\ x # m => box'[x] = box[x] /\ wins'[x] = wins[x]
      BY <1>t, <1>8, <2>3 DEF Ack, TypeOK, Row
    <3>2. Carried'
      <4>1. \A q \in Relays : \A x \in pass'[q].batch : box'[x].present
        BY <1>t, <2>1, <3>1 DEF Carried, TypeOK, Pass
      <4>2. \A x \in Messages : ~box'[x].present =>
              ~box'[x].delivered /\ ~box'[x].dead /\ box'[x].attempts = 0
        BY <2>2, <3>1 DEF Carried
      <4>3. \A q \in Relays, x \in Messages : At(q, "ack", x)' => x \in records'
        BY <2>1, <2>2 DEF Carried, At
      <4> QED BY <4>1, <4>2, <4>3 DEF Carried
    <3>3. DeliveredIsRecorded'
      BY <2>2, <3>1 DEF DeliveredIsRecorded
    <3>4. OneWinner'
      <4>1. wins[m] = 0 /\ box'[m].delivered /\ wins'[m] = 1
        BY <1>t, <2>3, <3>1 DEF OneWinner, Pending
      <4>2. \A x \in Messages : x # m =>
              wins'[x] = wins[x] /\ box'[x].delivered = box[x].delivered
        BY <3>1
      <4>3. \A x \in Messages : wins'[x] = IF box'[x].delivered THEN 1 ELSE 0
        BY <4>1, <4>2 DEF OneWinner
      <4> QED BY <4>3 DEF OneWinner
    <3>5. AttemptsLeft'
      BY <3>1 DEF AttemptsLeft, Pending
    <3> QED BY <3>2, <3>3, <3>4, <3>5
  <2>4. CASE ~Pending(m)
    <3>1. UNCHANGED <<box, wins>>
      BY <1>8, <2>4 DEF Ack
    <3>2. Carried'
      BY <2>1, <2>2, <3>1 DEF Carried, At
    <3> QED
      BY <2>2, <3>1, <3>2 DEF DeliveredIsRecorded, OneWinner, AttemptsLeft, Pending
  <2> QED BY <2>3, <2>4
<1>9. ASSUME NEW r \in Relays, NEW m \in Messages, MarkFailed(r, m) PROVE Kept
  <2>1. \A q \in Relays : /\ pass'[q].batch \subseteq pass[q].batch
                          /\ q = r => pass'[q].pc # "ack"
                          /\ q # r => pass'[q] = pass[q]
    BY <1>t, <1>9, BeyondType DEF MarkFailed, At, TypeOK
  <2>2. box[m].present /\ UNCHANGED <<records, wins>> /\ pass[r].seen \in Nat
    BY <1>t, <1>9 DEF MarkFailed, Carried, At, TypeOK, Pass
  <2>3. \A x \in Messages :
          /\ box'[x].present = box[x].present /\ box'[x].delivered = box[x].delivered
          /\ x # m => box'[x] = box[x]
    BY <1>t, <1>9 DEF MarkFailed, TypeOK, Row
  <2>4. /\ box'[m].attempts = pass[r].seen + 1
        /\ box'[m].dead <=> box[m].dead \/ pass[r].seen + 1 >= MaxAttempts
    BY <1>t, <1>9 DEF MarkFailed, TypeOK, Row
  <2>5. Carried'
    <3>1. \A q \in Relays : \A x \in pass'[q].batch : box'[x].present
      BY <1>t, <2>1, <2>3 DEF Carried, TypeOK, Pass
    <3>2. \A x \in Messages : ~box'[x].present =>
            ~box'[x].delivered /\ ~box'[x].dead /\ box'[x].attempts = 0
      BY <2>2, <2>3 DEF Carried
    <3>3. \A q \in Relays, x \in Messages : At(q, "ack", x)' => x \in records'
      BY <2>1, <2>2 DEF Carried, At
    <3> QED BY <3>1, <3>2, <3>3 DEF Carried
  <2>6. AttemptsLeft'
    <3>1. \A x \in Messages : x # m /\ Pending(x)' => Pending(x) /\ box'[x] = box[x]
      BY <2>3 DEF Pending
    <3>2. Pending(m)' => box'[m].attempts < MaxAttempts
      BY <2>2, <2>4 DEF Pending
    <3> QED BY <3>1, <3>2 DEF AttemptsLeft
  <2> QED
    BY <2>2, <2>3, <2>5, <2>6 DEF DeliveredIsRecorded, OneWinner
<1>10. ASSUME NEW r \in Relays, PassFails(r) \/ Die(r) PROVE Kept
  <2>1. UNCHANGED <<box, records, wins>>
    BY <1>10 DEF PassFails, Die
  <2>2. \A q \in Relays : /\ q = r => pass'[q].batch = {}
                          /\ q # r => pass'[q] = pass[q]
    BY <1>t, <1>10 DEF PassFails, Die, Idle, TypeOK
  <2>3. Carried'
    BY <2>1, <2>2 DEF Carried, At
  <2> QED
    BY <2>1, <2>3 DEF DeliveredIsRecorded, OneWinner, AttemptsLeft, Pending
<1>11. CASE UNCHANGED vars
  BY <1>11 DEF vars, Carried, DeliveredIsRecorded, OneWinner, AttemptsLeft, Pending, At
<1> QED
  BY <1>1, <1>2, <1>3, <1>4, <1>5, <1>6, <1>7, <1>8, <1>9, <1>10, <1>11
     DEF Next, Operator, Deliver, Trouble

\* The inductive invariant holds throughout.
LEMMA InvAlways == Spec => []Inv
BY InitInv, InvStep, PTL DEF Spec

\* Rows and passes keep their shapes.
THEOREM OutboxTypes == Spec => []TypeOK
BY InvAlways, PTL DEF Inv

\* No message counts as delivered without its record in the sink, for any number of
\* relays, handler failures, store errors and deaths (outbox_relay.py _deliver).
THEOREM DeliveryIsSound == Spec => []DeliveredIsRecorded
BY InvAlways, PTL DEF Inv

\* Of all relays that deliver a message, and of its replays, exactly one is told that it
\* delivered it (outbox_mark_delivered_if_pending, sqlite_store.py).
THEOREM OneRelayWins == Spec => []OneWinner
BY InvAlways, PTL DEF Inv

\* A message at its attempt limit is not handed out, however the failure reports
\* of several relays overwrite each other.
THEOREM RetriesEnd == Spec => []AttemptsLeft
BY InvAlways, PTL DEF Inv

-----------------------------------------------------------------------------
(* The outbox implements MessageDelivery.                                  *)

Fates == [m \in Messages |-> Fate(m)]

\* A step that changes the fate of one message at most.
LEMMA OneFate ==
  ASSUME NEW m \in Messages, \A x \in Messages : x # m => box'[x] = box[x]
  PROVE  Fates' = [Fates EXCEPT ![m] = Fate(m)']
<1>1. \A x \in Messages : x # m => Fate(x)' = Fate(x)
  BY DEF Fate
<1> QED BY <1>1 DEF Fates

\* Rows whose marks do not change leave the fates alone.
LEMMA SameFates ==
  ASSUME \A x \in Messages : /\ box'[x].present = box[x].present
                             /\ box'[x].delivered = box[x].delivered
                             /\ box'[x].dead = box[x].dead
  PROVE  Fates' = Fates
<1>1. \A x \in Messages : Fate(x)' = Fate(x)
  BY DEF Fate
<1> QED BY <1>1 DEF Fates

LEMMA InitKeeps == Init => Promise!Init
BY DEF Init, Promise!Init, Fate

\* Every step is a step of MessageDelivery or leaves fates and records alone.
LEMMA StepKeeps == Inv /\ [Next]_vars => [Promise!Next]_<<Fates, records>>
<1> SUFFICES ASSUME Inv, [Next]_vars PROVE [Promise!Next]_<<Fates, records>>
  OBVIOUS
<1> DEFINE Stays == Fates' = Fates /\ records' = records
<1>t. TypeOK /\ Carried /\ OneWinner
  BY DEF Inv
<1>a. \A m \in Messages : Promise!Become(m, "absent", "pending") => Promise!Next
  BY DEF Promise!Next, Promise!Accept
<1>d. \A m \in Messages : m \in records /\ Promise!Become(m, "pending", "delivered")
                           => Promise!Next
  BY DEF Promise!Next, Promise!Deliver
<1>g. \A m \in Messages : Promise!Become(m, "pending", "dead") => Promise!Next
  BY DEF Promise!Next, Promise!GiveUp
<1>b. ASSUME NEW m \in Messages, NEW old, NEW new,
             Fate(m) = old, Fate(m)' = new, records' = records,
             \A x \in Messages : x # m => box'[x] = box[x]
      PROVE  Promise!Become(m, old, new)
  <2>1. Fates' = [Fates EXCEPT ![m] = new] /\ Fates[m] = old
    BY <1>b, OneFate DEF Fates
  <2> QED BY <1>b, <2>1 DEF Promise!Become, Fates
<1>1. ASSUME NEW m \in Messages, Enqueue(m) PROVE Promise!Next
  <2>1. Fate(m) = "absent" /\ Fate(m)' = "pending"
    BY <1>t, <1>1 DEF Enqueue, Fate, TypeOK, Row, Carried
  <2>2. records' = records /\ \A x \in Messages : x # m => box'[x] = box[x]
    BY <1>t, <1>1 DEF Enqueue, TypeOK
  <2> QED BY <1>a, <1>b, <2>1, <2>2
<1>2. ASSUME NEW m \in Messages, BackoffEnds(m) PROVE Stays
  BY <1>t, <1>2, SameFates DEF BackoffEnds, TypeOK, Row
<1>3. ASSUME NEW m \in Messages, DeadLetter(m) PROVE Promise!Next \/ Stays
  <2>1. /\ records' = records
        /\ \A x \in Messages : x # m => box'[x] = box[x]
        /\ box'[m].present = box[m].present /\ box'[m].delivered = box[m].delivered
        /\ box'[m].dead /\ box[m].present /\ ~box[m].delivered
    BY <1>t, <1>3 DEF DeadLetter, TypeOK, Row
  <2>2. CASE box[m].dead
    <3>1. Fates' = Fates
      BY <2>1, <2>2, OneFate DEF Fate, Fates
    <3> QED BY <2>1, <3>1
  <2>3. CASE ~box[m].dead
    <3>1. Fate(m) = "pending" /\ Fate(m)' = "dead"
      BY <2>1, <2>3 DEF Fate
    <3> QED BY <1>b, <1>g, <2>1, <3>1
  <2> QED BY <2>2, <2>3

<1>4. ASSUME NEW S \in SUBSET Messages, RequeueDead(S) PROVE Promise!Next
  <2> DEFINE T == {x \in S : ~box[x].delivered}
  <2>1. \A x \in Messages : /\ box'[x].present = box[x].present
                            /\ box'[x].delivered = box[x].delivered
                            /\ x \in S => ~box'[x].dead /\ box[x].dead
                            /\ x \notin S => box'[x].dead = box[x].dead
    BY <1>4, RequeuedRows, <1>t
  <2>2. \A x \in S : box[x].present
    BY <1>t, <2>1 DEF Carried
  <2>3. \A x \in Messages : Fate(x)' = IF x \in T THEN "pending" ELSE Fate(x)
    BY <2>1, <2>2 DEF Fate
  <2>4. \A x \in T : Fate(x) = "dead"
    BY <2>1, <2>2 DEF Fate
  <2>5. records' = records
    BY <1>4 DEF RequeueDead
  <2>6. T \in SUBSET Messages
    OBVIOUS
  <2>7. Fates' = [x \in Messages |-> IF x \in T THEN "pending" ELSE Fates[x]]
    BY <2>3 DEF Fates
  <2>8. \A x \in T : Fates[x] = "dead"
    BY <2>4, <2>6 DEF Fates
  <2> HIDE DEF T
  <2> QED BY <2>5, <2>6, <2>7, <2>8 DEF Promise!Next, Promise!BringBack, Fates
<1>5. ASSUME NEW r \in Relays, NEW m \in Messages, HandleSucceeds(r, m) PROVE Promise!Next
  <2>1. Fate(m) # "absent"
    BY <1>t, <1>5 DEF HandleSucceeds, At, Carried, Fate
  <2>2. Fates' = Fates /\ records' = records \cup {m}
    BY <1>5, SameFates DEF HandleSucceeds
  <2> QED BY <2>1, <2>2 DEF Promise!Next, Promise!TakeEffect, Fates
<1>6. ASSUME NEW r \in Relays, NEW m \in Messages, Ack(r, m) PROVE Promise!Next \/ Stays
  <2>1. m \in records /\ records' = records
    BY <1>t, <1>6 DEF Ack, Carried
  <2>2. CASE Pending(m)
    <3>1. Fate(m) = "pending" /\ Fate(m)' = "delivered"
      BY <1>t, <1>6, <2>2 DEF Ack, Pending, Fate, TypeOK, Row
    <3>2. \A x \in Messages : x # m => box'[x] = box[x]
      BY <1>t, <1>6, <2>2 DEF Ack, TypeOK
    <3> QED BY <1>b, <1>d, <2>1, <3>1, <3>2
  <2>3. CASE ~Pending(m)
    BY <1>6, <2>1, <2>3, SameFates DEF Ack
  <2> QED BY <2>2, <2>3
<1>7. ASSUME NEW r \in Relays, NEW m \in Messages, MarkFailed(r, m)
      PROVE  Promise!Next \/ Stays
  <2>1. /\ records' = records
        /\ \A x \in Messages : x # m => box'[x] = box[x]
        /\ box'[m].present = box[m].present /\ box'[m].delivered = box[m].delivered
        /\ box[m].dead => box'[m].dead
        /\ box[m].present
    BY <1>t, <1>7 DEF MarkFailed, At, Carried, TypeOK, Row
  <2>2. CASE box[m].delivered \/ box[m].dead \/ ~box'[m].dead
    <3>1. Fate(m)' = Fate(m)
      BY <2>1, <2>2 DEF Fate
    <3>2. Fates' = Fates
      BY <2>1, <3>1, OneFate DEF Fates
    <3> QED BY <2>1, <3>2
  <2>3. CASE ~box[m].delivered /\ ~box[m].dead /\ box'[m].dead
    <3>1. Fate(m) = "pending" /\ Fate(m)' = "dead"
      BY <2>1, <2>3 DEF Fate
    <3> QED BY <1>b, <1>g, <2>1, <3>1
  <2> QED BY <2>2, <2>3
<1>8. ASSUME NEW r \in Relays, NEW m \in Messages,
             HandleFails(r, m) \/ AckRaises(r, m) \/ ReadAttempts(r, m)
      PROVE  Stays
  <2>1. UNCHANGED <<box, records>>
    BY <1>8 DEF HandleFails, AckRaises, ReadAttempts
  <2> QED BY <2>1, SameFates
<1>9. CASE UNCHANGED vars
  BY <1>9, SameFates DEF vars
<1>10. ASSUME NEW r \in Relays, ListPending(r) \/ PassFails(r) \/ Die(r) PROVE Stays
  <2>1. UNCHANGED <<box, records>>
    BY <1>10 DEF ListPending, PassFails, Die
  <2> QED BY <2>1, SameFates
<1> QED
  BY <1>1, <1>2, <1>3, <1>4, <1>5, <1>6, <1>7, <1>8, <1>9, <1>10
     DEF Next, Operator, Deliver, Trouble

\* The outbox keeps its promise: an accepted message is never lost, delivered is
\* final and comes after the effect, and only an operator revives a dead letter.
THEOREM OutboxKeepsPromise == Spec => KeepsPromise
<1>1. Init => Promise!Init
  BY InitKeeps
<1>2. Inv /\ [Next]_vars => [Promise!Next]_<<Fates, records>>
  BY StepKeeps
<1> QED BY <1>1, <1>2, InvAlways, PTL DEF Spec, KeepsPromise, Promise!Spec, Fates
=============================================================================
