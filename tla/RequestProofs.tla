----------------------------- MODULE RequestProofs -----------------------------
(***************************************************************************)
(* Who may ask, how often, and what asking twice does, for any number of   *)
(* requests, identities, keys and goals: proofs of the properties of       *)
(* MCPlatform about rate limits, identity and submission.  The parts of    *)
(* the platform share no state, so a step of the whole is a step or a      *)
(* stutter of each of them.                                                *)
(***************************************************************************)
EXTENDS MCPlatform, TLAPS

LEMMA RequestSteps ==
  ASSUME [Next]_vars
  PROVE  [RateNext]_rateVars /\ [IdentityNext]_identityVars /\ [SubmissionNext]_submissionVars
  BY DEF Next, vars

-----------------------------------------------------------------------------
(* Rate limiter.                                                           *)

\* What was granted and what is left in the bucket never exceed the burst and what
\* the time up to the bucket's date has brought.
BucketIsBacked ==
  IF stored THEN granted + tokens <= Burst + Refill * (updatedAt + rewound) ELSE granted = 0

RateInv ==
  /\ tokens \in 0..Burst /\ time \in Nat /\ updatedAt \in 0..time
  /\ granted \in Nat /\ rewound \in Nat
  /\ readAt \in [Callers -> {<<>>} \cup {<<t>> : t \in 0..time}]
  /\ BucketIsBacked

LEMMA RefillTimes == \A x, y \in Nat : /\ Refill * x \in Nat
                                       /\ Refill * (x + y) = Refill * x + Refill * y
                                       /\ x * Refill = Refill * x
                                       /\ x <= y => Refill * x <= Refill * y
  BY RateAssumption

LEMMA TakeKeeps ==
  ASSUME RateInv, NEW c \in Callers, Take(c)
  PROVE  RateInv'
<1> DEFINE now == readAt[c][1]
           level == Level(now)
           back == IF stored /\ now < updatedAt THEN updatedAt - now ELSE 0
<1>1. now \in Nat /\ now <= time /\ time' = time
  BY DEF RateInv, Take
<1>2. /\ tokens \in Nat /\ tokens <= Burst /\ time \in Nat /\ updatedAt \in Nat
      /\ Burst \in Nat /\ Refill \in Nat /\ granted \in Nat /\ rewound \in Nat
  BY RateAssumption DEF RateInv
<1>3. /\ updatedAt' = now /\ rewound' = rewound + back /\ stored' = TRUE
      /\ readAt' = [readAt EXCEPT ![c] = <<>>]
      /\ IF level >= 1 THEN tokens' = level - 1 /\ granted' = granted + 1
                       ELSE tokens' = level /\ granted' = granted
  BY DEF Take
<1>4. Elapsed(now) \in Nat /\ (stored => updatedAt + Elapsed(now) = now + back)
  BY <1>1, <1>2 DEF Elapsed
<1>5. /\ level \in Nat /\ level <= Burst
      /\ stored => level <= tokens + Refill * Elapsed(now)
  BY <1>1, <1>2, <1>4, RefillTimes DEF Level, Least
<1>6. back \in Nat
  BY <1>1, <1>2
<1>7. granted + level <= Burst + Refill * (now + rewound + back)
  <2>1. CASE stored
    <3>1. granted + tokens <= Burst + Refill * (updatedAt + rewound)
      BY <2>1 DEF RateInv, BucketIsBacked
    <3>2. Refill * (updatedAt + rewound) + Refill * Elapsed(now) = Refill * (now + rewound + back)
      <4>1. now + rewound + back = (updatedAt + rewound) + Elapsed(now)
        BY <1>1, <1>2, <1>4, <1>6, <2>1
      <4> QED BY <1>2, <1>4, <4>1, RefillTimes
    <3>3. Refill * (updatedAt + rewound) \in Nat /\ Refill * Elapsed(now) \in Nat
      BY <1>2, <1>4, RefillTimes
    <3> QED BY <1>2, <1>5, <2>1, <3>1, <3>2, <3>3
  <2>2. CASE ~stored
    <3>1. granted = 0
      BY <2>2 DEF RateInv, BucketIsBacked
    <3>2. Refill * (now + rewound + back) \in Nat
      BY <1>1, <1>2, <1>6, RefillTimes
    <3> QED BY <1>2, <1>5, <3>1, <3>2
  <2> QED BY <2>1, <2>2
<1> HIDE DEF level, now, back
<1>8. /\ tokens' \in 0..Burst /\ granted' \in Nat /\ rewound' \in Nat
      /\ granted' + tokens' = granted + level
  BY <1>2, <1>3, <1>5, <1>6
<1>9. BucketIsBacked'
  <2>1. updatedAt' + rewound' = now + rewound + back
    BY <1>1, <1>2, <1>3, <1>6
  <2> QED BY <1>3, <1>7, <1>8, <2>1 DEF BucketIsBacked
<1>10. readAt' \in [Callers -> {<<>>} \cup {<<t>> : t \in 0..time'}]
  BY <1>1, <1>3 DEF RateInv
<1> QED BY <1>1, <1>2, <1>3, <1>8, <1>9, <1>10 DEF RateInv

LEMMA RateStep == RateInv /\ [RateNext]_rateVars => RateInv'
<1> SUFFICES ASSUME RateInv, [RateNext]_rateVars  PROVE RateInv'
  OBVIOUS
<1>1. CASE Tick
  <2>1. /\ time' = time + 1 /\ readAt' = readAt /\ tokens' = tokens /\ updatedAt' = updatedAt
        /\ stored' = stored /\ granted' = granted /\ rewound' = rewound
    BY <1>1 DEF Tick
  <2>2. readAt \in [Callers -> {<<>>} \cup {<<t>> : t \in 0..time'}]
    BY <2>1 DEF RateInv
  <2> QED BY <2>1, <2>2 DEF RateInv, BucketIsBacked
<1>2. ASSUME NEW c \in Callers, ReadClock(c)  PROVE RateInv'
  BY <1>2 DEF ReadClock, RateInv, BucketIsBacked
<1>3. ASSUME NEW c \in Callers, Take(c)  PROVE RateInv'
  BY <1>3, TakeKeeps
<1>4. CASE UNCHANGED rateVars
  BY <1>4 DEF rateVars, RateInv, BucketIsBacked
<1> QED BY <1>1, <1>2, <1>3, <1>4 DEF RateNext

LEMMA RateInitInv == RateInit => RateInv
<1> SUFFICES ASSUME RateInit  PROVE RateInv
  OBVIOUS
<1>1. readAt \in [Callers -> {<<>>} \cup {<<t>> : t \in 0..time}]
  BY DEF RateInit
<1>2. /\ time = 0 /\ tokens = 0 /\ updatedAt = 0 /\ ~stored
      /\ granted = 0 /\ rewound = 0
  BY DEF RateInit
<1>3. BucketIsBacked
  BY <1>2 DEF BucketIsBacked
<1> QED BY <1>1, <1>2, <1>3, RateAssumption DEF RateInv

LEMMA RateBounded == RateInv => BurstBounded
<1> SUFFICES ASSUME RateInv, stored  PROVE granted <= Burst + Refill * (time + rewound)
  BY DEF BurstBounded
<1>1. granted + tokens <= Burst + Refill * (updatedAt + rewound)
  BY DEF RateInv, BucketIsBacked
<1> DEFINE x == updatedAt + rewound
           y == time + rewound
<1>2. x \in Nat /\ y \in Nat /\ x <= y
  BY DEF RateInv
<1> HIDE DEF x, y
<1>3. Refill * x <= Refill * y /\ Refill * x \in Nat /\ Refill * y \in Nat
  BY <1>2, RefillTimes
<1> QED BY <1>1, <1>3, RateAssumption DEF RateInv, x, y

-----------------------------------------------------------------------------
(* Identity.                                                               *)

Answers == Roles \cup {"nobody", "none", "client", "superadmin", "local-dev", "401", "503", "500"}

Places == {"idle", "admins?", "clients?", "open?", "resolved", "to audit", "answered"}

RequestRecord == [pc : Places,
                  key : Keys, who : Answers, closed : BOOLEAN, dead : BOOLEAN]

\* What a request remembers of its arrival still holds, for keys and surfaces only
\* grow: closed is closed for good, and a superseded key has a newer one after it.
RequestSafe(q) ==
  /\ q \in RequestRecord
  /\ q.closed => (~LocalProfile \/ AdminSurface) /\ q.who # "local-dev"
  /\ q.dead => /\ q.key.kind = "admin" /\ q.key.name \in AdminNames
               /\ q.key.number \in Nat /\ q.key.number < admin[q.key.name].key
               /\ q.who \notin Roles \cup {"local-dev"}

IdentityInv ==
  /\ admin \in [AdminNames -> AdminRow]
  /\ request \in [Requests -> RequestRecord]
  /\ \A r \in Requests : RequestSafe(request[r])

AdminKeys  == {Key("admin", a, n) : a \in AdminNames, n \in 1..KeyBound}
ClientKeys == {Key("client", c, 1) : c \in ClientNames}
OtherKeys  == {Key("shared", "", 1), NoKey}

LEMMA KeyFields ==
  /\ NoKey \in Keys
  /\ \A k \in Keys : k.kind = "admin" => k.name \in AdminNames /\ k.number \in 1..KeyBound
<1>1. Keys = AdminKeys \cup ClientKeys \cup OtherKeys
  BY DEF Keys, AdminKeys, ClientKeys, OtherKeys
<1>2. NoKey \in OtherKeys /\ NoKey.kind = "none"
  BY DEF OtherKeys, NoKey, Key
<1>3. Key("shared", "", 1).kind = "shared"
  BY DEF Key
<1>4. ASSUME NEW k \in OtherKeys  PROVE k.kind # "admin"
  <2>1. k = Key("shared", "", 1) \/ k = NoKey
    BY DEF OtherKeys
  <2> QED BY <1>2, <1>3, <2>1
<1>5. ASSUME NEW k \in ClientKeys  PROVE k.kind # "admin"
  BY <1>5 DEF ClientKeys, Key
<1>6. ASSUME NEW k \in AdminKeys  PROVE k.name \in AdminNames /\ k.number \in 1..KeyBound
  BY <1>6 DEF AdminKeys, Key
<1> QED BY <1>1, <1>2, <1>4, <1>5, <1>6

LEMMA AnswersApart == {"nobody", "client", "401", "503", "500", "none"} \cap (Roles \cup {"local-dev"}) = {}
  BY IdentityAssumption

LEMMA SettledRecord ==
  ASSUME NEW q \in RequestRecord,
         NEW pc \in Places,
         NEW who \in Answers
  PROVE  /\ [[q EXCEPT !.pc = pc] EXCEPT !.who = who] \in RequestRecord
         /\ [[q EXCEPT !.pc = pc] EXCEPT !.who = who].who = who
         /\ [[q EXCEPT !.pc = pc] EXCEPT !.who = who].key = q.key
         /\ [[q EXCEPT !.pc = pc] EXCEPT !.who = who].closed = q.closed
         /\ [[q EXCEPT !.pc = pc] EXCEPT !.who = who].dead = q.dead
<1> DEFINE p == [q EXCEPT !.pc = pc]
<1>1. p \in RequestRecord /\ p.key = q.key /\ p.closed = q.closed /\ p.dead = q.dead
  BY DEF RequestRecord, Places
<1> HIDE DEF p
<1>2. /\ [p EXCEPT !.who = who] \in RequestRecord /\ [p EXCEPT !.who = who].who = who
      /\ [p EXCEPT !.who = who].key = p.key
      /\ [p EXCEPT !.who = who].closed = p.closed /\ [p EXCEPT !.who = who].dead = p.dead
  BY <1>1 DEF RequestRecord, Places
<1> QED BY <1>1, <1>2 DEF p

\* A request is settled with something that does not open what is closed or dead.
LEMMA SettleKeeps ==
  ASSUME IdentityInv, NEW r \in Requests, UNCHANGED admin,
         NEW pc \in Places,
         NEW who \in Answers, Settle(r, pc, who),
         request[r].closed => who # "local-dev",
         request[r].dead => who \notin Roles \cup {"local-dev"}
  PROVE  IdentityInv'
<1> DEFINE old == request[r]
           q   == [[old EXCEPT !.pc = pc] EXCEPT !.who = who]
<1>1. old \in RequestRecord /\ RequestSafe(old)
  BY DEF IdentityInv
<1>2. request' = [request EXCEPT ![r] = q]
  BY DEF Settle, IdentityInv
<1>3. (old.closed => who # "local-dev") /\ (old.dead => who \notin Roles \cup {"local-dev"})
  OBVIOUS
<1> HIDE DEF old
<1>4. /\ q \in RequestRecord /\ q.who = who /\ q.key = old.key
      /\ q.closed = old.closed /\ q.dead = old.dead
  BY <1>1, SettledRecord
<1> HIDE DEF q
<1>5. RequestSafe(q)
  BY <1>1, <1>3, <1>4 DEF RequestSafe
<1>6. /\ request' \in [Requests -> RequestRecord]
      /\ \A x \in Requests : RequestSafe(request'[x])
  BY <1>2, <1>4, <1>5 DEF IdentityInv
<1>7. \A x \in Requests : RequestSafe(request[x])'
  BY <1>6 DEF RequestSafe, AdminSurface, AnyAdmin
<1> QED BY <1>6, <1>7 DEF IdentityInv

\* The table of the admins only grows: a row comes, a key gets a successor.
AdminsGrow ==
  /\ admin' \in [AdminNames -> AdminRow]
  /\ \A a \in AdminNames : admin[a].key <= admin'[a].key

\* A change of the tables, with the request that makes it on its way to the trail.
LEMMA ChangedKeeps ==
  ASSUME IdentityInv, NEW r \in Requests, AdminsGrow, Changed(r)
  PROVE  IdentityInv'
<1> DEFINE old == request[r]
           q   == [[old EXCEPT !.pc = "to audit"] EXCEPT !.who = old.who]
<1>1. old \in RequestRecord /\ RequestSafe(old)
  BY DEF IdentityInv
<1>2. request' = [request EXCEPT ![r] = q]
  BY DEF Changed, Settle, IdentityInv
<1> HIDE DEF old
<1>3. old.who \in Answers
  BY <1>1 DEF RequestRecord, Places
<1>4. /\ q \in RequestRecord /\ q.who = old.who /\ q.key = old.key
      /\ q.closed = old.closed /\ q.dead = old.dead
  BY <1>1, <1>3, SettledRecord DEF Places
<1> HIDE DEF q
<1>5. RequestSafe(q)
  BY <1>1, <1>4 DEF RequestSafe
<1>6. /\ request' \in [Requests -> RequestRecord]
      /\ \A x \in Requests : RequestSafe(request'[x])
  BY <1>2, <1>4, <1>5 DEF IdentityInv
<1>7. ASSUME NEW x \in Requests  PROVE RequestSafe(request[x])'
  <2> DEFINE n == request'[x]
  <2>1. RequestSafe(n)
    BY <1>6
  <2> HIDE DEF n
  <2>2. /\ n.closed => ~LocalProfile \/ AdminSurface'
        /\ n.dead => n.key.number < admin'[n.key.name].key
    <3>1. \A a \in AdminNames : admin[a].key \in Nat /\ admin'[a].key \in Nat
      BY IdentityAssumption DEF IdentityInv, AdminsGrow, AdminRow
    <3>2. AdminSurface => AdminSurface'
      BY <3>1 DEF AdminSurface, AnyAdmin, AdminsGrow
    <3>3. n.dead => n.key.number < admin'[n.key.name].key
      BY <2>1, <3>1 DEF RequestSafe, AdminsGrow
    <3> QED BY <2>1, <3>2, <3>3 DEF RequestSafe
  <2>3. /\ n \in RequestRecord
        /\ n.closed => (~LocalProfile \/ AdminSurface') /\ n.who # "local-dev"
        /\ n.dead => /\ n.key.kind = "admin" /\ n.key.name \in AdminNames
                     /\ n.key.number \in Nat /\ n.key.number < admin'[n.key.name].key
                     /\ n.who \notin Roles \cup {"local-dev"}
    BY <2>1, <2>2 DEF RequestSafe
  <2> QED BY <2>3 DEF n, RequestSafe
<1> QED BY <1>6, <1>7 DEF IdentityInv, AdminsGrow

LEMMA IdentityStep == IdentityInv /\ [IdentityNext]_identityVars => IdentityInv'
<1> SUFFICES ASSUME IdentityInv, [IdentityNext]_identityVars  PROVE IdentityInv'
  OBVIOUS
<1> USE DEF Places
<1>1. \A r \in Requests : RequestSafe(request[r]) /\ request[r] \in RequestRecord
  BY DEF IdentityInv
<1>2. \A a \in AdminNames : admin[a].key \in 0..KeyBound /\ admin[a].role \in Answers
  BY DEF IdentityInv, AdminRow, Answers
<1>3. ASSUME NEW yes \in BOOLEAN, StoreReadable(yes)  PROVE IdentityInv'
  BY <1>3 DEF StoreReadable, IdentityInv, RequestSafe, AdminSurface, AnyAdmin
<1>4. ASSUME NEW r \in Requests, NEW key \in Keys, Arrive(r, key)  PROVE IdentityInv'
  <2> DEFINE q == [pc |-> IF key = NoKey THEN "open?" ELSE "admins?", key |-> key, who |-> "nobody",
                   closed |-> ~LocalProfile \/ AdminSurface,
                   dead |-> key.kind = "admin" /\ key.number < admin[key.name].key]
  <2>1. request' = [request EXCEPT ![r] = q] /\ admin' = admin
    BY <1>4 DEF Arrive
  <2>2. /\ q.key = key /\ q.who = "nobody"
        /\ q.closed => (~LocalProfile \/ AdminSurface)
        /\ q.dead => (key.kind = "admin" /\ key.number < admin[key.name].key)
    OBVIOUS
  <2>3. q \in RequestRecord
    BY DEF RequestRecord, Answers
  <2> HIDE DEF q
  <2>4. RequestSafe(q)
    <3>1. key.kind = "admin" => key.name \in AdminNames /\ key.number \in Nat
      BY KeyFields, IdentityAssumption
    <3>2. "nobody" \notin Roles \cup {"local-dev"}
      BY AnswersApart
    <3> QED BY <2>2, <2>3, <3>1, <3>2 DEF RequestSafe
  <2>5. /\ request' \in [Requests -> RequestRecord]
        /\ \A x \in Requests : RequestSafe(request'[x])
    BY <2>1, <2>3, <2>4 DEF IdentityInv
  <2>6. \A x \in Requests : RequestSafe(request[x])'
    BY <2>1, <2>5 DEF RequestSafe, AdminSurface, AnyAdmin
  <2> QED BY <2>1, <2>5, <2>6 DEF IdentityInv
<1>5. ASSUME NEW r \in Requests, ReadAdmins(r)  PROVE IdentityInv'
  <2>1. admin' = admin
    BY <1>5 DEF ReadAdmins
  <2>2. CASE Settle(r, "answered", "503")
    BY <2>1, <2>2, SettleKeeps, AnswersApart DEF Answers
  <2>3. ASSUME NEW a \in AdminNames, Opens(request[r].key, a), Settle(r, "resolved", admin[a].role)
        PROVE  IdentityInv'
    <3>1. ~request[r].dead
      BY <1>1, <1>2, <2>3 DEF Opens, RequestSafe
    <3>2. admin[a].role # "local-dev" /\ admin[a].role \in Answers
      BY <1>2, AnswersApart, IdentityAssumption DEF IdentityInv, AdminRow
    <3> QED BY <2>1, <2>3, <3>1, <3>2, SettleKeeps
  <2>4. CASE Settle(r, "clients?", "nobody")
    BY <2>1, <2>4, SettleKeeps, AnswersApart DEF Answers
  <2> QED BY <1>5, <2>2, <2>3, <2>4 DEF ReadAdmins
<1>6. ASSUME NEW r \in Requests, ReadClients(r)  PROVE IdentityInv'
  <2>1. admin' = admin
    BY <1>6 DEF ReadClients
  <2>2. CASE Settle(r, "answered", "503")
    BY <2>1, <2>2, SettleKeeps, AnswersApart DEF Answers
  <2>3. CASE Settle(r, "resolved", "client")
    BY <2>1, <2>3, SettleKeeps, AnswersApart DEF Answers
  <2>4. CASE request[r].key.kind = "shared" /\ Settle(r, "resolved", "superadmin")
    <3>1. ~request[r].dead
      BY <1>1, <2>4 DEF RequestSafe
    <3> QED BY <2>1, <2>4, <3>1, SettleKeeps DEF Answers
  <2>5. CASE Settle(r, "open?", "nobody")
    BY <2>1, <2>5, SettleKeeps, AnswersApart DEF Answers
  <2> QED BY <1>6, <2>2, <2>3, <2>4, <2>5 DEF ReadClients
<1>7. ASSUME NEW r \in Requests, OpenDevMode(r)  PROVE IdentityInv'
  <2>1. admin' = admin
    BY <1>7 DEF OpenDevMode
  <2>2. CASE Settle(r, "answered", "401")
    BY <2>1, <2>2, SettleKeeps, AnswersApart DEF Answers
  <2>3. CASE Settle(r, "answered", "503")
    BY <2>1, <2>3, SettleKeeps, AnswersApart DEF Answers
  <2>4. CASE LocalProfile /\ ~AdminSurface /\ Settle(r, "resolved", "local-dev")
    <3>1. ~request[r].closed
      BY <1>1, <2>4 DEF RequestSafe
    <3>2. ~request[r].dead
      BY <1>1, <1>2, <2>4 DEF RequestSafe, AdminSurface, AnyAdmin
    <3> QED BY <2>1, <2>4, <3>1, <3>2, SettleKeeps DEF Answers
  <2> QED BY <1>7, <2>2, <2>3, <2>4 DEF OpenDevMode
<1>8. ASSUME NEW r \in Requests, Answer(r)  PROVE IdentityInv'
  BY <1>1, <1>8, SettleKeeps DEF Answer, RequestSafe, RequestRecord
<1>9. ASSUME NEW r \in Requests, Leave(r)  PROVE IdentityInv'
  <2>1. NoRequest \in RequestRecord /\ ~NoRequest.closed /\ ~NoRequest.dead
    BY KeyFields DEF NoRequest, RequestRecord, Answers
  <2>2. RequestSafe(NoRequest)
    BY <2>1 DEF RequestSafe
  <2>3. request' = [request EXCEPT ![r] = NoRequest] /\ admin' = admin
    BY <1>9 DEF Leave
  <2>4. /\ request' \in [Requests -> RequestRecord]
        /\ \A x \in Requests : RequestSafe(request'[x])
    BY <2>1, <2>2, <2>3 DEF IdentityInv
  <2>5. \A x \in Requests : RequestSafe(request[x])'
    BY <2>3, <2>4 DEF RequestSafe, AdminSurface, AnyAdmin
  <2> QED BY <2>3, <2>4, <2>5 DEF IdentityInv
<1>10. ASSUME NEW r \in Requests, NEW written \in BOOLEAN, AuditChange(r, written)
       PROVE  IdentityInv'
  <2>1. admin' = admin
    BY <1>10 DEF AuditChange
  <2>2. CASE Settle(r, "answered", request[r].who)
    BY <1>1, <2>1, <2>2, SettleKeeps DEF RequestSafe, RequestRecord
  <2>3. CASE Settle(r, "answered", "500")
    BY <2>1, <2>3, SettleKeeps, AnswersApart DEF Answers
  <2> QED BY <1>10, <2>2, <2>3 DEF AuditChange
<1>11. ASSUME NEW r \in Requests, NEW a \in AdminNames, RotateKey(r, a)  PROVE IdentityInv'
  <2>1. admin' = [admin EXCEPT ![a] = [admin[a] EXCEPT !.key = admin[a].key + 1]]
    BY <1>11 DEF RotateKey, IdentityInv
  <2>2. [admin[a] EXCEPT !.key = admin[a].key + 1] \in AdminRow
    BY <1>11, IdentityAssumption DEF RotateKey, IdentityInv, AdminRow
  <2>3. AdminsGrow
    BY <1>2, <2>1, <2>2, IdentityAssumption DEF AdminsGrow, IdentityInv, AdminRow
  <2> QED BY <1>11, <2>3, ChangedKeeps DEF RotateKey
<1>12. ASSUME NEW r \in Requests, NEW a \in AdminNames, NEW role \in Roles, CreateAdmin(r, a, role)
       PROVE  IdentityInv'
  <2>1. AdminsGrow
    BY <1>2, <1>12, IdentityAssumption DEF CreateAdmin, AdminsGrow, IdentityInv, AdminRow
  <2> QED BY <1>12, <2>1, ChangedKeeps DEF CreateAdmin
<1>13. ASSUME NEW r \in Requests, NEW a \in AdminNames, NEW role \in Roles, SetRole(r, a, role)
       PROVE  IdentityInv'
  <2>1. AdminsGrow
    BY <1>2, <1>13, IdentityAssumption DEF SetRole, AdminsGrow, IdentityInv, AdminRow
  <2> QED BY <1>13, <2>1, ChangedKeeps DEF SetRole
<1>14. ASSUME NEW r \in Requests, NEW a \in AdminNames, NEW disabled \in BOOLEAN,
              SetAdminDisabled(r, a, disabled)
       PROVE  IdentityInv'
  <2>1. AdminsGrow
    BY <1>2, <1>14, IdentityAssumption DEF SetAdminDisabled, AdminsGrow, IdentityInv, AdminRow
  <2> QED BY <1>14, <2>1, ChangedKeeps DEF SetAdminDisabled
<1>15. ASSUME NEW r \in Requests, NEW c \in ClientNames, NEW state \in {"enabled", "disabled"},
              SetClient(r, c, state)
       PROVE  IdentityInv'
  <2>1. AdminsGrow
    BY <1>2, <1>15, IdentityAssumption DEF SetClient, AdminsGrow, IdentityInv
  <2> QED BY <1>15, <2>1, ChangedKeeps DEF SetClient
<1>16. CASE UNCHANGED identityVars
  BY <1>16 DEF identityVars, IdentityInv, RequestSafe, AdminSurface, AnyAdmin
<1> QED BY <1>3, <1>4, <1>5, <1>6, <1>7, <1>8, <1>9, <1>10, <1>11, <1>12, <1>13, <1>14, <1>15,
           <1>16 DEF IdentityNext

LEMMA IdentityInitInv == IdentityInit => IdentityInv
<1> SUFFICES ASSUME IdentityInit  PROVE IdentityInv
  OBVIOUS
<1>1. NoRequest \in RequestRecord /\ ~NoRequest.closed /\ ~NoRequest.dead
  BY KeyFields DEF NoRequest, RequestRecord, Answers, Places
<1>2. RequestSafe(NoRequest)
  BY <1>1 DEF RequestSafe
<1>3. admin \in [AdminNames -> AdminRow]
  BY IdentityAssumption DEF IdentityInit, AdminRow
<1> QED BY <1>1, <1>2, <1>3 DEF IdentityInit, IdentityInv

LEMMA AdmissionSound == IdentityInv => AdmissionIsSound
  BY DEF IdentityInv, RequestSafe, AdmissionIsSound, ClosedForGood, OldKeyIsDead

-----------------------------------------------------------------------------
(* Submission.                                                             *)

Stages == {"new", "lookup", "submit", "retry", "reply", "answered", "lost"}
Stored == Active \cup Ended

PostRecord == [pc : Stages, key : IdKeys \cup {"none"}, goal : Goals \cup {"none"}, dry : BOOLEAN,
               source : Calls \cup {"none"}, answer : Calls \cup {"none", "409"}]
MissionRow == [status : Stored \cup {"absent"}, goal : Goals \cup {"none"},
               key : IdKeys \cup {"none"}, attempts : 1..MaxAttempts]

\* A call c that is at p makes its mission once: there is none before the transaction;
\* there is one, with the key of the call, after it; and what was answered is what the
\* table holds for the key.
Progress(c, p) ==
  /\ p.pc \in {"new", "lookup", "submit", "retry"} => row[c] = NoRow
  /\ p.pc = "lookup" => p.key \in IdKeys
  /\ p.pc = "retry" => /\ p.key = "none" /\ p.source \in Calls
                       /\ Known(p.source) /\ row[p.source].attempts < MaxAttempts
  /\ p.pc = "reply" => Known(c) /\ (p.key # "none" => row[c].key = p.key)
  /\ p.answer \in Calls => Known(p.answer) /\ (p.key # "none" => mapping[p.key] = p.answer)

KeysLeadHome ==
  \A m \in Calls : row[m].key # "none" => Known(m) /\ mapping[row[m].key] = m

SubmissionInv ==
  /\ posted \in [Calls -> PostRecord]
  /\ row \in [Calls -> MissionRow]
  /\ mapping \in [IdKeys -> Calls \cup {"none", "legacy"}]
  /\ \A c \in Calls : Progress(c, posted[c])
  /\ KeysLeadHome
  /\ OneActivePerGoal

LEMMA NoMission == NoRow \in MissionRow /\ NoRow.status = "absent" /\ NoRow.key = "none" /\ NoRow.attempts = 1
  BY SubmissionAssumption DEF NoRow, MissionRow, Stored

\* A step of one call that touches neither missions nor keys.
LEMMA CallKeeps ==
  ASSUME SubmissionInv, NEW c \in Calls, NEW p \in PostRecord, Progress(c, p),
         posted' = [posted EXCEPT ![c] = p], UNCHANGED <<row, mapping>>
  PROVE  SubmissionInv'
<1>1. /\ posted' \in [Calls -> PostRecord]
      /\ \A d \in Calls : Progress(d, posted'[d])
  BY DEF SubmissionInv
<1>2. \A d \in Calls : Progress(d, posted[d])'
  BY <1>1 DEF Progress, Known
<1> QED BY <1>1, <1>2 DEF SubmissionInv, KeysLeadHome, OneActivePerGoal, Known

\* A call moves on, or is answered, without touching what it was called with.
LEMMA MovedCall ==
  ASSUME NEW p \in PostRecord, NEW pc \in Stages
  PROVE  /\ [p EXCEPT !.pc = pc] \in PostRecord
         /\ [p EXCEPT !.pc = pc].pc = pc /\ [p EXCEPT !.pc = pc].key = p.key
         /\ [p EXCEPT !.pc = pc].answer = p.answer
  BY DEF PostRecord

LEMMA AnsweredCall ==
  ASSUME NEW p \in PostRecord, NEW ans \in Calls \cup {"none", "409"}
  PROVE  /\ [p EXCEPT !.answer = ans] \in PostRecord
         /\ [p EXCEPT !.answer = ans].pc = p.pc /\ [p EXCEPT !.answer = ans].key = p.key
         /\ [p EXCEPT !.answer = ans].answer = ans
  BY DEF PostRecord

LEMMA ReplyKeeps ==
  ASSUME SubmissionInv, NEW c \in Calls, NEW ans \in Calls \cup {"none", "409"},
         Reply(c, ans), UNCHANGED <<row, mapping>>,
         ans \in Calls => Known(ans) /\ (posted[c].key # "none" => mapping[posted[c].key] = ans)
  PROVE  SubmissionInv'
<1> DEFINE old == posted[c]
           mid == [old EXCEPT !.pc = "answered"]
           q   == [mid EXCEPT !.answer = ans]
<1>1. old \in PostRecord
  BY DEF SubmissionInv
<1>2. posted' = [posted EXCEPT ![c] = q]
  BY DEF Reply, SubmissionInv
<1>3. ans \in Calls => Known(ans) /\ (old.key # "none" => mapping[old.key] = ans)
  OBVIOUS
<1> HIDE DEF old
<1>4. q \in PostRecord /\ q.pc = "answered" /\ q.key = old.key /\ q.answer = ans
  <2>1. "answered" \in Stages
    BY DEF Stages
  <2>2. mid \in PostRecord /\ mid.pc = "answered" /\ mid.key = old.key
    BY <1>1, <2>1, MovedCall
  <2> HIDE DEF mid
  <2> QED BY <2>2, AnsweredCall
<1> HIDE DEF q
<1>5. Progress(c, q)
  BY <1>3, <1>4 DEF Progress
<1> QED BY <1>2, <1>4, <1>5, CallKeeps

LEMMA MoveKeeps ==
  ASSUME SubmissionInv, NEW c \in Calls, NEW pc \in Stages,
         To(c, pc), UNCHANGED <<row, mapping>>,
         pc = "lost" \/ (pc = "submit" /\ posted[c].pc = "lookup")
  PROVE  SubmissionInv'
<1> DEFINE old == posted[c]
           q   == [old EXCEPT !.pc = pc]
<1>1. old \in PostRecord /\ Progress(c, old)
  BY DEF SubmissionInv
<1>2. posted' = [posted EXCEPT ![c] = q]
  BY DEF To, SubmissionInv
<1>3. pc = "lost" \/ (pc = "submit" /\ old.pc = "lookup")
  OBVIOUS
<1> HIDE DEF old
<1>4. q \in PostRecord /\ q.pc = pc /\ q.key = old.key /\ q.answer = old.answer
  BY <1>1, MovedCall
<1> HIDE DEF q
<1>5. Progress(c, q)
  BY <1>1, <1>3, <1>4 DEF Progress
<1> QED BY <1>2, <1>4, <1>5, CallKeeps

\* A mission is made: where there was none, with the key of the call in the table, and
\* queued only when no other mission of its goal is active.
LEMMA InsertKeeps ==
  ASSUME SubmissionInv, NEW c \in Calls, posted[c].pc \in {"submit", "retry"}, To(c, "reply"),
         NEW n \in MissionRow, row' = [row EXCEPT ![c] = n],
         n.status \in Stored, n.goal = posted[c].goal, n.key = posted[c].key,
         n.status \in Active => ~Duplicate(c),
         \/ (n.key = "none" /\ mapping' = mapping)
         \/ /\ n.key \in IdKeys /\ mapping' = [mapping EXCEPT ![n.key] = c]
            /\ ~(mapping[n.key] \in Calls /\ Known(mapping[n.key]))
  PROVE  SubmissionInv'
<1> DEFINE old == posted[c]
           q   == [old EXCEPT !.pc = "reply"]
<1>1. old \in PostRecord /\ Progress(c, old) /\ old.pc \in {"submit", "retry"}
  BY DEF SubmissionInv
<1>2. posted' = [posted EXCEPT ![c] = q]
  BY DEF To, SubmissionInv
<1>3. q \in PostRecord /\ q.pc = "reply" /\ q.key = old.key /\ q.answer = old.answer
  <2> HIDE DEF old
  <2> QED BY <1>1, MovedCall DEF Stages
<1> HIDE DEF q
<1>4. row[c] = NoRow /\ ~Known(c)
  BY <1>1, NoMission DEF Progress, Known, Active, Ended
<1>5. \A m \in Calls : Known(m) => m # c /\ row'[m] = row[m] /\ row'[m].status \in Stored
  BY <1>4 DEF Known, Stored, SubmissionInv
<1>6. row'[c] = n /\ row'[c].status \in Stored
  BY DEF Known, Stored, SubmissionInv
<1>7. \A k \in IdKeys : mapping[k] \in Calls /\ Known(mapping[k]) => mapping'[k] = mapping[k]
  BY DEF SubmissionInv
<1>8. /\ posted' \in [Calls -> PostRecord] /\ row' \in [Calls -> MissionRow]
      /\ mapping' \in [IdKeys -> Calls \cup {"none", "legacy"}]
  BY <1>2, <1>3 DEF SubmissionInv
<1>9. ASSUME NEW d \in Calls  PROVE Progress(d, posted[d])'
  <2> DEFINE p == posted'[d]
             b == posted[d]
  <2>1. p \in PostRecord /\ b \in PostRecord /\ Progress(d, b)
    BY <1>8 DEF SubmissionInv
  <2>2. p.key = b.key /\ p.answer = b.answer
    BY <1>2, <1>3 DEF SubmissionInv
  <2>3. d # c => p = b
    BY <1>2 DEF SubmissionInv
  <2>4. d = c => p.pc = "reply" /\ p.key = n.key
    BY <1>2, <1>3 DEF SubmissionInv
  <2> HIDE DEF p, b
  <2>5. p.answer \in Calls => row'[p.answer].status \in Stored /\ (p.key # "none" => mapping'[p.key] = p.answer)
    <3> SUFFICES ASSUME p.answer \in Calls
                 PROVE  row'[p.answer].status \in Stored /\ (p.key # "none" => mapping'[p.key] = p.answer)
      OBVIOUS
    <3>1. Known(p.answer) /\ (p.key # "none" => mapping[p.key] = p.answer)
      BY <2>1, <2>2 DEF Progress
    <3>2. p.key # "none" => p.key \in IdKeys
      BY <2>1 DEF PostRecord
    <3> QED BY <1>5, <1>7, <3>1, <3>2
  <2>6. CASE d = c
    <3>1. p.pc = "reply" /\ p.key = n.key /\ row'[d] = n
      BY <1>6, <2>4, <2>6
    <3>2. /\ p.pc \notin {"new", "lookup", "submit", "retry"}
          /\ p.pc = "reply" => row'[d].status \in Stored /\ (p.key # "none" => row'[d].key = p.key)
      BY <1>6, <2>6, <3>1
    <3> QED BY <2>5, <3>2 DEF Progress, Known, Stored, p
  <2>7. CASE d # c
    <3>1. row'[d] = row[d] /\ p = b /\ (Known(d) => row'[d].status \in Stored)
      BY <1>5, <2>3, <2>7 DEF SubmissionInv
    <3>2. /\ p.pc \in {"new", "lookup", "submit", "retry"} => row'[d] = NoRow
          /\ p.pc = "lookup" => p.key \in IdKeys
          /\ p.pc = "retry" => /\ p.key = "none" /\ p.source \in Calls
                               /\ row'[p.source].status \in Stored /\ row'[p.source].attempts < MaxAttempts
          /\ p.pc = "reply" => row'[d].status \in Stored /\ (p.key # "none" => row'[d].key = p.key)
      BY <1>5, <2>1, <3>1 DEF Progress
    <3> QED BY <2>5, <3>2 DEF Progress, Known, Stored, p
  <2> QED BY <2>6, <2>7
<1>10. KeysLeadHome'
  <2> SUFFICES ASSUME NEW m \in Calls, row'[m].key # "none"
               PROVE  row'[m].status \in Stored /\ mapping'[row'[m].key] = m
    BY DEF KeysLeadHome, Known, Stored
  <2>1. CASE m = c
    BY <1>6, <2>1 DEF SubmissionInv
  <2>2. CASE m # c
    <3>1. row'[m] = row[m] /\ Known(m) /\ mapping[row[m].key] = m
      BY <2>2 DEF SubmissionInv, KeysLeadHome
    <3>2. row[m].key \in IdKeys
      BY <3>1 DEF SubmissionInv, MissionRow
    <3> QED BY <1>5, <1>7, <3>1, <3>2
  <2> QED BY <2>1, <2>2
<1>11. OneActivePerGoal'
  <2> SUFFICES ASSUME NEW m \in Calls, NEW o \in Calls, m # o,
                      row'[m].status \in Active, row'[o].status \in Active
               PROVE  row'[m].goal # row'[o].goal
    BY DEF OneActivePerGoal, Active
  <2>1. \A x \in Calls \ {c} : row'[x] = row[x]
    BY DEF SubmissionInv
  <2>2. CASE m # c /\ o # c
    BY <2>1, <2>2 DEF SubmissionInv, OneActivePerGoal
  <2>3. CASE m = c \/ o = c
    BY <1>6, <2>1, <2>3 DEF Duplicate
  <2> QED BY <2>2, <2>3
<1> QED BY <1>8, <1>9, <1>10, <1>11 DEF SubmissionInv

LEMMA StoredRow ==
  ASSUME SubmissionInv, NEW c \in Calls, posted[c].pc = "submit"
  PROVE  \A st \in Stored :
           [status |-> st, goal |-> posted[c].goal, key |-> posted[c].key,
            attempts |-> row[c].attempts] \in MissionRow
<1>1. row[c].attempts \in 1..MaxAttempts
  BY DEF SubmissionInv, MissionRow
<1>2. posted[c].goal \in Goals \cup {"none"} /\ posted[c].key \in IdKeys \cup {"none"}
  BY DEF SubmissionInv, PostRecord
<1> QED BY <1>1, <1>2 DEF MissionRow

\* A call is posted field by field.
LEMMA FilledCall ==
  ASSUME NEW p \in PostRecord
  PROVE  /\ \A key \in IdKeys \cup {"none"} :
              /\ [p EXCEPT !.key = key] \in PostRecord
              /\ [p EXCEPT !.key = key].key = key /\ [p EXCEPT !.key = key].answer = p.answer
         /\ \A goal \in Goals \cup {"none"} :
              /\ [p EXCEPT !.goal = goal] \in PostRecord
              /\ [p EXCEPT !.goal = goal].key = p.key /\ [p EXCEPT !.goal = goal].answer = p.answer
         /\ \A source \in Calls :
              /\ [p EXCEPT !.source = source] \in PostRecord
              /\ [p EXCEPT !.source = source].source = source
              /\ [p EXCEPT !.source = source].key = p.key
              /\ [p EXCEPT !.source = source].answer = p.answer
         /\ \A pc \in Stages : [p EXCEPT !.pc = pc].source = p.source
  BY DEF PostRecord

LEMMA DriedCall ==
  ASSUME NEW p \in PostRecord, NEW dry \in BOOLEAN
  PROVE  /\ [p EXCEPT !.dry = dry] \in PostRecord
         /\ [p EXCEPT !.dry = dry].key = p.key /\ [p EXCEPT !.dry = dry].answer = p.answer
  BY DEF PostRecord

LEMMA BlankCall ==
  /\ Unposted \in PostRecord
  /\ Unposted.pc = "new" /\ Unposted.key = "none" /\ Unposted.answer = "none"
  BY DEF Unposted, PostRecord, Stages

LEMMA PostKeeps ==
  ASSUME SubmissionInv, NEW c \in Calls, NEW key \in IdKeys \cup {"none"}, NEW goal \in Goals,
         NEW dry \in BOOLEAN, Post(c, key, goal, dry)
  PROVE  SubmissionInv'
<1> DEFINE pc == IF key = "none" THEN "submit" ELSE "lookup"
           p1 == [Unposted EXCEPT !.key = key]
           p2 == [p1 EXCEPT !.goal = goal]
           p3 == [p2 EXCEPT !.dry = dry]
           p4 == [p3 EXCEPT !.pc = pc]
<1>1. posted' = [posted EXCEPT ![c] = p4] /\ UNCHANGED <<row, mapping>>
  BY DEF Post
<1>2. pc \in {"submit", "lookup"} /\ (pc = "lookup" => key \in IdKeys)
  OBVIOUS
<1>3. pc \in Stages
  BY DEF Stages
<1> HIDE DEF pc
<1>4. p1 \in PostRecord /\ p1.key = key /\ p1.answer = "none"
  BY BlankCall, FilledCall
<1> HIDE DEF p1
<1>5. p2 \in PostRecord /\ p2.key = key /\ p2.answer = "none"
  BY <1>4, FilledCall
<1> HIDE DEF p2
<1>6. p3 \in PostRecord /\ p3.key = key /\ p3.answer = "none"
  BY <1>5, DriedCall
<1> HIDE DEF p3
<1>7. p4 \in PostRecord /\ p4.pc = pc /\ p4.key = key /\ p4.answer = "none"
  BY <1>3, <1>6, MovedCall
<1>8. row[c] = NoRow
  BY DEF Post, SubmissionInv, Progress
<1> HIDE DEF p4
<1>9. Progress(c, p4)
  BY <1>2, <1>7, <1>8, SubmissionAssumption DEF Progress
<1> QED BY <1>1, <1>7, <1>9, CallKeeps

LEMMA PostRetryKeeps ==
  ASSUME SubmissionInv, NEW c \in Calls, NEW m \in Calls, PostRetry(c, m)
  PROVE  SubmissionInv'
<1> DEFINE goal == row[m].goal
           p1 == [Unposted EXCEPT !.goal = goal]
           p2 == [p1 EXCEPT !.source = m]
           p3 == [p2 EXCEPT !.pc = "retry"]
<1>1. posted' = [posted EXCEPT ![c] = p3] /\ UNCHANGED <<row, mapping>>
  BY DEF PostRetry
<1>2. goal \in Goals \cup {"none"} /\ "retry" \in Stages
  BY DEF SubmissionInv, MissionRow, Stages
<1>3. row[c] = NoRow /\ Known(m) /\ row[m].attempts < MaxAttempts
  BY DEF PostRetry, SubmissionInv, Progress, Known, Ended
<1> HIDE DEF goal
<1>4. p1 \in PostRecord /\ p1.key = "none" /\ p1.answer = "none"
  BY <1>2, BlankCall, FilledCall
<1> HIDE DEF p1
<1>5. p2 \in PostRecord /\ p2.key = "none" /\ p2.answer = "none" /\ p2.source = m
  BY <1>4, FilledCall
<1> HIDE DEF p2
<1>6. p3 \in PostRecord /\ p3.pc = "retry" /\ p3.key = "none" /\ p3.answer = "none" /\ p3.source = m
  BY <1>2, <1>5, MovedCall, FilledCall
<1> HIDE DEF p3
<1>7. Progress(c, p3)
  BY <1>3, <1>6, SubmissionAssumption DEF Progress
<1> QED BY <1>1, <1>6, <1>7, CallKeeps

LEMMA SubmitKeyedKeeps ==
  ASSUME SubmissionInv, NEW c \in Calls, SubmitKeyed(c)
  PROVE  SubmissionInv'
<1> DEFINE key    == posted[c].key
           m      == mapping[key]
           st == IF posted[c].dry THEN "PASS" ELSE "QUEUED"
           n      == [status |-> st, goal |-> posted[c].goal, key |-> key,
                      attempts |-> row[c].attempts]
<1>1. posted[c].pc = "submit" /\ key # "none"
  BY DEF SubmitKeyed
<1>2. key \in IdKeys
  BY <1>1 DEF SubmissionInv, PostRecord
<1>3. CASE m \in Calls /\ Known(m) /\ Reply(c, m) /\ UNCHANGED <<row, mapping>>
  BY <1>3, ReplyKeeps
<1>4. CASE Reply(c, "409") /\ UNCHANGED <<row, mapping>>
  BY <1>4, ReplyKeeps, SubmissionAssumption
<1>5. CASE /\ ~(m \in Calls /\ Known(m)) /\ ~Duplicate(c) /\ Insert(c, st)
           /\ mapping' = [mapping EXCEPT ![key] = c] /\ To(c, "reply")
  <2>1. row' = [row EXCEPT ![c] = n]
    BY <1>5 DEF Insert, SubmissionInv
  <2>2. st \in Stored
    BY DEF Stored, Active, Ended
  <2>3. n \in MissionRow
    <3> HIDE DEF st
    <3> QED BY <1>1, <2>2, StoredRow
  <2>4. n.status = st /\ n.goal = posted[c].goal /\ n.key = posted[c].key
    OBVIOUS
  <2>5. ~(mapping[n.key] \in Calls /\ Known(mapping[n.key])) /\ mapping' = [mapping EXCEPT ![n.key] = c]
    BY <1>5
  <2>6. n.key \in IdKeys /\ posted[c].pc \in {"submit", "retry"} /\ n.status \in Stored
    BY <1>1, <1>2, <2>2
  <2>7. ~Duplicate(c) /\ To(c, "reply")
    BY <1>5
  <2> HIDE DEF n, st
  <2> QED BY <2>1, <2>3, <2>4, <2>5, <2>6, <2>7, InsertKeeps
<1> QED BY <1>3, <1>4, <1>5 DEF SubmitKeyed

LEMMA SubmitUnkeyedKeeps ==
  ASSUME SubmissionInv, NEW c \in Calls, SubmitUnkeyed(c)
  PROVE  SubmissionInv'
<1> DEFINE st == IF posted[c].dry THEN "PASS" ELSE "QUEUED"
           n      == [status |-> st, goal |-> posted[c].goal, key |-> posted[c].key,
                      attempts |-> row[c].attempts]
<1>1. posted[c].pc = "submit" /\ posted[c].key = "none" /\ mapping' = mapping
  BY DEF SubmitUnkeyed
<1>2. CASE Reply(c, "409") /\ UNCHANGED row
  BY <1>1, <1>2, ReplyKeeps, SubmissionAssumption
<1>3. CASE (posted[c].dry \/ ~Duplicate(c)) /\ Insert(c, st) /\ To(c, "reply")
  <2>1. row' = [row EXCEPT ![c] = n]
    BY <1>3 DEF Insert, SubmissionInv
  <2>2. st \in Stored /\ (st \in Active => ~Duplicate(c))
    BY <1>3 DEF Stored, Active, Ended
  <2>3. n \in MissionRow
    <3> HIDE DEF st
    <3> QED BY <1>1, <2>2, StoredRow
  <2>4. n.status = st /\ n.goal = posted[c].goal /\ n.key = posted[c].key
    OBVIOUS
  <2>5. n.key = "none" /\ posted[c].pc \in {"submit", "retry"} /\ n.status \in Stored
    BY <1>1, <2>2
  <2>6. n.status \in Active => ~Duplicate(c)
    BY <2>2
  <2> HIDE DEF n, st
  <2> QED BY <1>1, <1>3, <2>1, <2>3, <2>4, <2>5, <2>6, InsertKeeps
<1> QED BY <1>2, <1>3 DEF SubmitUnkeyed

LEMMA EnqueueRetryKeeps ==
  ASSUME SubmissionInv, NEW c \in Calls, EnqueueRetry(c)
  PROVE  SubmissionInv'
<1> DEFINE again == row[posted[c].source].attempts + 1
           n     == [status |-> "QUEUED", goal |-> posted[c].goal, key |-> "none", attempts |-> again]
<1>1. posted[c].pc = "retry" /\ mapping' = mapping
  BY DEF EnqueueRetry
<1>2. posted[c].key = "none" /\ posted[c].source \in Calls /\ row[posted[c].source].attempts < MaxAttempts
  BY <1>1 DEF SubmissionInv, Progress
<1>3. CASE Reply(c, "409") /\ UNCHANGED row
  BY <1>1, <1>3, ReplyKeeps, SubmissionAssumption
<1>4. CASE ~Duplicate(c) /\ row' = [row EXCEPT ![c] = n] /\ To(c, "reply")
  <2>1. again \in 1..MaxAttempts
    BY <1>2, SubmissionAssumption DEF SubmissionInv, MissionRow
  <2>2. posted[c].goal \in Goals \cup {"none"}
    BY DEF SubmissionInv, PostRecord
  <2>3. n \in MissionRow
    <3> HIDE DEF again
    <3> QED BY <2>1, <2>2 DEF MissionRow, Stored, Active
  <2>4. n.status \in Stored /\ n.goal = posted[c].goal /\ n.key = posted[c].key /\ n.key = "none"
    BY <1>2 DEF Stored, Active
  <2>5. posted[c].pc \in {"submit", "retry"} /\ ~Duplicate(c) /\ row' = [row EXCEPT ![c] = n]
    BY <1>1, <1>4
  <2> HIDE DEF n
  <2> QED BY <1>1, <1>4, <2>3, <2>4, <2>5, InsertKeeps
<1> QED BY <1>3, <1>4 DEF EnqueueRetry

\* The coordinator ends a mission: it keeps its key, its goal and its attempts.
LEMMA EndKeeps ==
  ASSUME SubmissionInv, NEW m \in Calls, NEW st \in Ended, End(m, st)
  PROVE  SubmissionInv'
<1> DEFINE n == [row[m] EXCEPT !.status = st]
<1>1. row' = [row EXCEPT ![m] = n] /\ row[m].status \in Active /\ UNCHANGED <<posted, mapping>>
  BY DEF End, SubmissionInv
<1>2. row[m] \in MissionRow
  BY DEF SubmissionInv
<1>3. /\ n \in MissionRow /\ n.status = st /\ n.goal = row[m].goal
      /\ n.key = row[m].key /\ n.attempts = row[m].attempts
  BY <1>2 DEF MissionRow, Stored
<1> HIDE DEF n
<1>4. \A x \in Calls : /\ row'[x].key = row[x].key /\ row'[x].goal = row[x].goal
                       /\ row'[x].attempts = row[x].attempts
                       /\ (Known(x) => row'[x].status \in Stored)
                       /\ (row'[x].status \in Active => row[x].status \in Active)
                       /\ (row[x] = NoRow => row'[x] = row[x])
  BY <1>1, <1>3, NoMission DEF SubmissionInv, Known, Stored, Active, Ended
<1>5. row' \in [Calls -> MissionRow]
  BY <1>1, <1>3 DEF SubmissionInv
<1>6. ASSUME NEW c \in Calls  PROVE Progress(c, posted[c])'
  <2>1. Progress(c, posted[c]) /\ posted' = posted /\ mapping' = mapping
    BY <1>1 DEF SubmissionInv
  <2> QED BY <1>4, <2>1 DEF Progress, Known, Stored
<1>7. KeysLeadHome'
  BY <1>1, <1>4 DEF SubmissionInv, KeysLeadHome, Known, Stored
<1>8. OneActivePerGoal'
  BY <1>4 DEF SubmissionInv, OneActivePerGoal
<1> QED BY <1>1, <1>5, <1>6, <1>7, <1>8 DEF SubmissionInv

LEMMA SubmissionStep == SubmissionInv /\ [SubmissionNext]_submissionVars => SubmissionInv'
<1> SUFFICES ASSUME SubmissionInv, [SubmissionNext]_submissionVars  PROVE SubmissionInv'
  OBVIOUS
<1>1. ASSUME NEW c \in Calls, LookUp(c)  PROVE SubmissionInv'
  <2> DEFINE m == mapping[posted[c].key]
  <2>1. CASE m \in Calls /\ Known(m) /\ Reply(c, m)
    BY <1>1, <2>1, ReplyKeeps DEF LookUp
  <2>2. CASE To(c, "submit")
    <3>1. "submit" \in Stages
      BY DEF Stages
    <3> QED BY <1>1, <2>2, <3>1, MoveKeeps DEF LookUp
  <2> QED BY <1>1, <2>1, <2>2 DEF LookUp
<1>2. ASSUME NEW c \in Calls, Return(c)  PROVE SubmissionInv'
  <2>1. Known(c) /\ (posted[c].key # "none" => row[c].key = posted[c].key)
    BY <1>2 DEF Return, SubmissionInv, Progress
  <2>2. posted[c].key # "none" => mapping[posted[c].key] = c
    BY <2>1 DEF SubmissionInv, KeysLeadHome
  <2> QED BY <1>2, <2>1, <2>2, ReplyKeeps DEF Return
<1>3. ASSUME NEW c \in Calls, Lost(c)  PROVE SubmissionInv'
  <2>1. "lost" \in Stages
    BY DEF Stages
  <2> QED BY <1>3, <2>1, MoveKeeps DEF Lost
<1>4. CASE UNCHANGED submissionVars
  BY <1>4 DEF submissionVars, SubmissionInv, Progress, Known, KeysLeadHome, OneActivePerGoal
<1> QED BY <1>1, <1>2, <1>3, <1>4, PostKeeps, PostRetryKeeps, SubmitKeyedKeeps, SubmitUnkeyedKeeps,
           EnqueueRetryKeeps, EndKeeps DEF SubmissionNext

LEMMA SubmissionInitInv == SubmissionInit => SubmissionInv
<1> SUFFICES ASSUME SubmissionInit  PROVE SubmissionInv
  OBVIOUS
<1>1. \A c \in Calls : Progress(c, Unposted)
  BY BlankCall, SubmissionAssumption DEF SubmissionInit, Progress
<1>2. OneActivePerGoal
  BY NoMission DEF SubmissionInit, OneActivePerGoal, Active
<1> QED BY <1>1, <1>2, BlankCall, NoMission DEF SubmissionInit, SubmissionInv, KeysLeadHome

LEMMA SubmissionSound == SubmissionInv => SubmittedOnce
<1> SUFFICES ASSUME SubmissionInv  PROVE SubmittedOnce
  OBVIOUS
<1>1. OneMissionPerKey
  BY DEF SubmissionInv, KeysLeadHome, OneMissionPerKey
<1>2. SameAnswer
  BY DEF SubmissionInv, Progress, SameAnswer
<1> QED BY <1>1, <1>2 DEF SubmittedOnce, SubmissionInv

-----------------------------------------------------------------------------
(* The requests, together.                                                 *)

RequestInv == RateInv /\ IdentityInv /\ SubmissionInv

LEMMA RequestsKeep == Spec => []RequestInv
<1>1. Init => RequestInv
  BY RateInitInv, IdentityInitInv, SubmissionInitInv DEF Init, RequestInv
<1>2. RequestInv /\ [Next]_vars => RequestInv'
  BY RequestSteps, RateStep, IdentityStep, SubmissionStep DEF RequestInv
<1> QED BY <1>1, <1>2, PTL DEF Spec

\* However many threads read the clock early and take late, a bucket never hands out more
\* than its burst and what the elapsed time refills, with what the clock was set back
\* (RateLimiter._take, app/api/rate_limit.py).
THEOREM BurstIsBounded == Spec => []BurstBounded
<1>1. RequestInv => BurstBounded
  BY RateBounded DEF RequestInv
<1> QED BY <1>1, RequestsKeep, PTL

\* With any number of admins, keys and requests in flight, nobody is the anonymous
\* superadmin who arrived after a credential existed, and no superseded key opens
\* (resolve_principal, app/api/auth.py; AdminStore, app/tenants/admins.py).
THEOREM NobodySlipsIn == Spec => []AdmissionIsSound
<1>1. RequestInv => AdmissionIsSound
  BY AdmissionSound DEF RequestInv
<1> QED BY <1>1, RequestsKeep, PTL

\* With any number of calls, keys and goals, a key makes one mission and every answer for
\* it names that mission, also when calls are lost and sent again, and a goal has at most
\* one active mission (submit_idempotent_mission, app/storage/sqlite_store.py).
THEOREM SubmittingIsIdempotent == Spec => []SubmittedOnce
<1>1. RequestInv => SubmittedOnce
  BY SubmissionSound DEF RequestInv
<1> QED BY <1>1, RequestsKeep, PTL

\* No chain of retries outgrows its budget, whatever is retried at once
\* (retry_allowed, app/mission/facade.py).
THEOREM RetriesStayInBudget == Spec => [](\A c \in Calls : row[c].attempts \in 1..MaxAttempts)
<1>1. RequestInv => \A c \in Calls : row[c].attempts \in 1..MaxAttempts
  BY DEF RequestInv, SubmissionInv, MissionRow
<1> QED BY <1>1, RequestsKeep, PTL

-----------------------------------------------------------------------------
(* Types of who asks.                                                      *)

\* The clock has a bound of its own; the rest is in RateInv.
LEMMA RateTypes ==
  /\ RateInit => RateTypeOK
  /\ RateInv /\ RateInv' /\ RateTypeOK /\ [RateNext]_rateVars => RateTypeOK'
<1>1. RateInit => RateTypeOK
  BY RateAssumption DEF RateInit, RateTypeOK
<1>2. ASSUME RateInv, RateInv', RateTypeOK, [RateNext]_rateVars  PROVE RateTypeOK'
  <2>1. time' \in 0..TimeBound
    <3>1. CASE Tick
      BY <1>2, <3>1, RateAssumption DEF Tick, RateTypeOK
    <3>2. CASE time' = time
      BY <1>2, <3>2 DEF RateTypeOK
    <3> QED BY <1>2, <3>1, <3>2 DEF RateNext, ReadClock, Take, rateVars
  <2> QED BY <1>2, <2>1 DEF RateInv, RateTypeOK
<1> QED BY <1>1, <1>2

\* A row of an admin has a key and a role, or neither.
LEMMA IdentityTypes ==
  /\ IdentityInit => IdentityTypeOK
  /\ IdentityInv /\ IdentityInv' /\ IdentityTypeOK /\ [IdentityNext]_identityVars => IdentityTypeOK'
<1>1. ASSUME IdentityInit  PROVE IdentityTypeOK
  <2>1. admin \in [AdminNames -> AdminRow] /\ \A a \in AdminNames : admin[a].key = 0 /\ admin[a].role = "none"
    BY <1>1, IdentityAssumption DEF IdentityInit, AdminRow
  <2>2. \A r \in Requests : request[r].pc = "idle" /\ request[r].key \in Keys
    BY <1>1, KeyFields DEF IdentityInit, NoRequest
  <2>3. client \in [ClientNames -> {"absent", "enabled", "disabled"}] /\ unaudited \in 0..1
    BY <1>1 DEF IdentityInit
  <2>4. readable \in BOOLEAN
    BY <1>1 DEF IdentityInit
  <2> QED BY <2>1, <2>2, <2>3, <2>4 DEF IdentityTypeOK
<1>2. ASSUME IdentityInv, IdentityInv', IdentityTypeOK, [IdentityNext]_identityVars  PROVE IdentityTypeOK'
  <2>1. /\ \A a \in AdminNames : admin[a].key = 0 <=> admin[a].role = "none"
        /\ admin \in [AdminNames -> AdminRow] /\ KeyBound \in Nat
        /\ client \in [ClientNames -> {"absent", "enabled", "disabled"}]
        /\ readable \in BOOLEAN /\ unaudited \in 0..1
    BY <1>2, IdentityAssumption DEF IdentityTypeOK
  <2>2. \A r \in Requests : request'[r].pc \in Places /\ request'[r].key \in Keys
    BY <1>2 DEF IdentityInv, RequestRecord
  <2>3. \A a \in AdminNames : admin'[a].key = 0 <=> admin'[a].role = "none"
    <3>1. CASE admin' = admin
      BY <2>1, <3>1
    <3>2. ASSUME NEW r \in Requests, NEW a \in AdminNames, RotateKey(r, a)
          PROVE  \A b \in AdminNames : admin'[b].key = 0 <=> admin'[b].role = "none"
      <4>1. /\ admin[a].key \in 1..(KeyBound - 1) /\ admin[a].role # "none"
            /\ admin' = [admin EXCEPT ![a].key = @ + 1]
        BY <2>1, <3>2 DEF RotateKey
      <4>2. /\ admin'[a].key = admin[a].key + 1 /\ admin'[a].role = admin[a].role
            /\ \A b \in AdminNames \ {a} : admin'[b] = admin[b]
        BY <2>1, <4>1 DEF AdminRow
      <4> QED BY <2>1, <4>1, <4>2
    <3>3. ASSUME NEW r \in Requests, NEW a \in AdminNames, NEW role \in Roles, CreateAdmin(r, a, role)
          PROVE  \A b \in AdminNames : admin'[b].key = 0 <=> admin'[b].role = "none"
      <4>1. /\ admin'[a].key = 1 /\ admin'[a].role = role /\ role # "none"
            /\ \A b \in AdminNames \ {a} : admin'[b] = admin[b]
        BY <2>1, <3>3, IdentityAssumption DEF CreateAdmin
      <4> QED BY <2>1, <4>1
    <3>4. ASSUME NEW r \in Requests, NEW a \in AdminNames, NEW role \in Roles, SetRole(r, a, role)
          PROVE  \A b \in AdminNames : admin'[b].key = 0 <=> admin'[b].role = "none"
      <4>1. /\ admin[a].key > 0 /\ admin'[a].key = admin[a].key /\ admin'[a].role = role /\ role # "none"
            /\ \A b \in AdminNames \ {a} : admin'[b] = admin[b]
        BY <2>1, <3>4, IdentityAssumption DEF SetRole, AdminRow
      <4> QED BY <2>1, <4>1 DEF AdminRow
    <3>5. ASSUME NEW r \in Requests, NEW a \in AdminNames, NEW off \in BOOLEAN, SetAdminDisabled(r, a, off)
          PROVE  \A b \in AdminNames : admin'[b].key = 0 <=> admin'[b].role = "none"
      <4>1. \A b \in AdminNames : admin'[b].key = admin[b].key /\ admin'[b].role = admin[b].role
        BY <2>1, <3>5 DEF SetAdminDisabled, AdminRow
      <4> QED BY <2>1, <4>1
    <3> QED BY <1>2, <3>1, <3>2, <3>3, <3>4, <3>5
            DEF IdentityNext, StoreReadable, Arrive, ReadAdmins, ReadClients, OpenDevMode, Answer, Leave,
                AuditChange, SetClient, identityVars
  <2>4. client' \in [ClientNames -> {"absent", "enabled", "disabled"}]
    <3>1. CASE client' = client
      BY <2>1, <3>1
    <3>2. ASSUME NEW r \in Requests, NEW c \in ClientNames, NEW state \in {"enabled", "disabled"},
                 SetClient(r, c, state)
          PROVE  client' \in [ClientNames -> {"absent", "enabled", "disabled"}]
      BY <2>1, <3>2 DEF SetClient
    <3> QED BY <1>2, <3>1, <3>2
            DEF IdentityNext, StoreReadable, Arrive, ReadAdmins, ReadClients, OpenDevMode, Answer, Leave,
                AuditChange, CreateAdmin, RotateKey, SetRole, SetAdminDisabled, identityVars
  <2>5. readable' \in BOOLEAN /\ unaudited' \in 0..1
    <3>1. \/ readable' = readable /\ unaudited' = unaudited
          \/ \E yes \in BOOLEAN : StoreReadable(yes)
          \/ \E r \in Requests, written \in BOOLEAN : AuditChange(r, written)
      BY <1>2 DEF IdentityNext, Arrive, ReadAdmins, ReadClients, OpenDevMode, Answer, Leave,
                SetClient, CreateAdmin, RotateKey, SetRole, SetAdminDisabled, Changed, identityVars
    <3>2. ASSUME NEW yes \in BOOLEAN, StoreReadable(yes)  PROVE readable' \in BOOLEAN /\ unaudited' \in 0..1
      BY <2>1, <3>2 DEF StoreReadable
    <3>3. ASSUME NEW r \in Requests, NEW written \in BOOLEAN, AuditChange(r, written)
          PROVE  readable' \in BOOLEAN /\ unaudited' \in 0..1
      <4>1. readable' = readable /\ (unaudited' = unaudited \/ unaudited' = 1)
        BY <3>3 DEF AuditChange
      <4> QED BY <2>1, <4>1
    <3> QED BY <2>1, <3>1, <3>2, <3>3
  <2> QED BY <1>2, <2>2, <2>3, <2>4, <2>5 DEF IdentityInv, IdentityTypeOK, Places
<1> QED BY <1>1, <1>2

LEMMA SubmissionTypes == SubmissionInv => SubmissionTypeOK
  BY DEF SubmissionInv, SubmissionTypeOK, PostRecord, MissionRow, Stages, Stored

RequestTypes == RateTypeOK /\ IdentityTypeOK /\ SubmissionTypeOK

LEMMA RequestTypesKeep == Spec => []RequestTypes
<1>1. Init => RequestInv /\ RateTypeOK /\ IdentityTypeOK
  BY RateInitInv, IdentityInitInv, SubmissionInitInv, RateTypes, IdentityTypes DEF Init, RequestInv
<1>2. RequestInv /\ [Next]_vars => RequestInv'
  BY RequestSteps, RateStep, IdentityStep, SubmissionStep DEF RequestInv
<1>3. RequestInv /\ RequestInv' /\ RateTypeOK /\ [Next]_vars => RateTypeOK'
  BY RequestSteps, RateTypes DEF RequestInv
<1>4. RequestInv /\ RequestInv' /\ IdentityTypeOK /\ [Next]_vars => IdentityTypeOK'
  BY RequestSteps, IdentityTypes DEF RequestInv
<1>5. RequestInv => SubmissionTypeOK
  BY SubmissionTypes DEF RequestInv
<1> QED BY <1>1, <1>2, <1>3, <1>4, <1>5, PTL DEF Spec, RequestTypes
=============================================================================
