---------------------------- MODULE ServiceProofs ------------------------------
(***************************************************************************)
(* What records missions and serves models, for any number of rows, days,  *)
(* coordinators, commands and keys: proofs of the properties of MCPlatform *)
(* about the audit trail, the Postgres store, the gateway, and the models  *)
(* that answer chats, evaluation cases and agents.                         *)
(***************************************************************************)
EXTENDS RequestProofs, ChangeProofs, SelectionProofs

LEMMA ServiceSteps ==
  ASSUME [Next]_vars
  PROVE  [AuditNext]_auditVars /\ [PgNext]_pgVars /\ [GatewayNext]_gatewayVars
  BY DEF Next, vars

-----------------------------------------------------------------------------
(* Gateway.                                                                *)

KeyRecord == [key : Nat, accepted : BOOLEAN]
SetupSteps == {"new", "wait", "admin", "existing", "list", "prove", "delete", "mint", "nodes", "node",
               "links", "link", "done", "failed"}
SetupRecord == [step : SetupSteps, key : Nat, doubt : BOOLEAN, node : Nat]

\* KeyAccepted, for the records before a step or after it.
AcceptedIn(ks, k) == \E i \in DOMAIN ks : ks[i].key = k /\ ks[i].accepted

\* No key in hand is newer than the last one minted, and what is about to be deleted is
\* not accepted: once refused, a key is refused for good.
GatewayInv ==
  /\ minted \in Nat /\ keys \in Seq(KeyRecord) /\ nodes \in Seq(Nat)
  /\ \A i \in DOMAIN keys : keys[i].key <= minted
  /\ prov \in [Provisioners -> SetupRecord]
  /\ \A p \in Provisioners : /\ prov[p].key <= minted
                             /\ prov[p].step = "delete" => ~AcceptedIn(keys, prov[p].key)

\* What Step, Holds and OnNode make of the record of a command.
Stepped(q, st) == [q EXCEPT !.step = st]
Held(q, st, k, d) == [q EXCEPT !.step = st, !.key = k, !.doubt = d]
Placed(q, st, n) == [q EXCEPT !.step = st, !.node = n]

LEMMA SetupFields ==
  ASSUME NEW q \in SetupRecord, NEW st \in SetupSteps
  PROVE  Stepped(q, st) \in SetupRecord /\ Stepped(q, st).step = st /\ Stepped(q, st).key = q.key
  BY DEF SetupRecord, Stepped

LEMMA HeldFields ==
  ASSUME NEW q \in SetupRecord, NEW st \in SetupSteps, NEW k \in Nat, NEW d \in BOOLEAN
  PROVE  Held(q, st, k, d) \in SetupRecord /\ Held(q, st, k, d).step = st /\ Held(q, st, k, d).key = k
  BY DEF SetupRecord, Held

LEMMA PlacedFields ==
  ASSUME NEW q \in SetupRecord, NEW st \in SetupSteps, NEW n \in Nat
  PROVE  /\ Placed(q, st, n) \in SetupRecord
         /\ Placed(q, st, n).step = st /\ Placed(q, st, n).key = q.key
  BY DEF SetupRecord, Placed

\* What the gateway does not forget: a key it accepts is there, and one it refuses stays
\* refused.
KeysKept ==
  /\ keys' \in Seq(KeyRecord) /\ minted' \in Nat /\ minted <= minted'
  /\ \A i \in DOMAIN keys' : keys'[i].key <= minted'
  /\ \A k \in Nat : k <= minted /\ AcceptedIn(keys', k) => AcceptedIn(keys, k)
  /\ \A i \in DOMAIN keys : keys[i].accepted => \E j \in DOMAIN keys' : keys'[j].key = keys[i].key

LEMMA SameKeys == GatewayInv /\ UNCHANGED <<keys, minted>> => KeysKept
  BY DEF GatewayInv, KeysKept

LEMMA OldKeys ==
  ASSUME GatewayInv, KeysKept
  PROVE  \A p \in Provisioners : prov[p].key \in Nat /\ prov[p].key <= minted'
<1> TAKE p \in Provisioners
<1>1. prov[p].key \in Nat
  BY DEF GatewayInv, SetupRecord
<1>2. minted \in Nat /\ minted' \in Nat /\ minted <= minted' /\ prov[p].key <= minted
  BY DEF GatewayInv, KeysKept
<1> QED BY <1>1, <1>2

\* One command goes on.
LEMMA SetupKeeps ==
  ASSUME GatewayInv, KeysKept, nodes' \in Seq(Nat), NEW p \in Provisioners, NEW q \in SetupRecord,
         q.key <= minted', q.step = "delete" => ~AcceptedIn(keys', q.key),
         prov' = [prov EXCEPT ![p] = q]
  PROVE  GatewayInv'
<1>1. prov' \in [Provisioners -> SetupRecord]
  BY DEF GatewayInv
<1>2. \A x \in Provisioners : prov'[x] = IF x = p THEN q ELSE prov[x]
  BY DEF GatewayInv
<1>3. ASSUME NEW x \in Provisioners
      PROVE  prov'[x].key <= minted' /\ (prov'[x].step = "delete" => ~AcceptedIn(keys', prov'[x].key))
  <2>1. CASE x = p
    BY <1>2, <2>1
  <2>2. CASE x # p
    <3>1. prov'[x] = prov[x] /\ prov[x].key \in Nat /\ prov[x].key <= minted /\ minted \in Nat
      BY <1>2, <2>2 DEF GatewayInv, SetupRecord
    <3>2. minted' \in Nat /\ minted <= minted'
      BY DEF KeysKept
    <3>3. prov[x].step = "delete" => ~AcceptedIn(keys', prov[x].key)
      BY <3>1 DEF GatewayInv, KeysKept
    <3> QED BY <3>1, <3>2, <3>3
  <2> QED BY <2>1, <2>2
<1> QED BY <1>1, <1>3 DEF GatewayInv, KeysKept

\* A command takes a step without a new key or node in hand.
LEMMA StepKeeps ==
  ASSUME GatewayInv, KeysKept, nodes' \in Seq(Nat), NEW p \in Provisioners, NEW st \in SetupSteps,
         prov' = [prov EXCEPT ![p] = Stepped(prov[p], st)], st # "delete"
  PROVE  GatewayInv'
<1> DEFINE q == Stepped(prov[p], st)
<1>1. prov[p] \in SetupRecord
  BY DEF GatewayInv
<1>2. q \in SetupRecord /\ q.step = st /\ q.key = prov[p].key
  BY <1>1, SetupFields
<1>3. prov' = [prov EXCEPT ![p] = q]
  OBVIOUS
<1> HIDE DEF q
<1>4. q.key <= minted'
  BY <1>1, <1>2, OldKeys
<1>5. q.step # "delete" /\ q \in SetupRecord
  BY <1>2
<1> QED BY <1>3, <1>4, <1>5, SetupKeeps

\* A command takes a key.
LEMMA HoldsKeeps ==
  ASSUME GatewayInv, KeysKept, nodes' \in Seq(Nat), NEW p \in Provisioners, NEW st \in SetupSteps,
         NEW k \in Nat, NEW d \in BOOLEAN, k <= minted',
         prov' = [prov EXCEPT ![p] = Held(prov[p], st, k, d)], st = "delete" => ~AcceptedIn(keys', k)
  PROVE  GatewayInv'
<1> DEFINE q == Held(prov[p], st, k, d)
<1>1. prov[p] \in SetupRecord
  BY DEF GatewayInv
<1>2. q \in SetupRecord /\ q.step = st /\ q.key = k
  BY <1>1, HeldFields
<1>3. prov' = [prov EXCEPT ![p] = q]
  OBVIOUS
<1> HIDE DEF q
<1> QED BY <1>2, <1>3, SetupKeeps

\* A command takes a node.
LEMMA OnNodeKeeps ==
  ASSUME GatewayInv, KeysKept, nodes' \in Seq(Nat), NEW p \in Provisioners, NEW st \in SetupSteps,
         NEW n \in Nat, prov' = [prov EXCEPT ![p] = Placed(prov[p], st, n)], st # "delete"
  PROVE  GatewayInv'
<1> DEFINE q == Placed(prov[p], st, n)
<1>1. prov[p] \in SetupRecord
  BY DEF GatewayInv
<1>2. q \in SetupRecord /\ q.step = st /\ q.key = prov[p].key
  BY <1>1, PlacedFields
<1>3. prov' = [prov EXCEPT ![p] = q]
  OBVIOUS
<1> HIDE DEF q
<1>4. q.key <= minted'
  BY <1>1, <1>2, OldKeys
<1>5. q.step # "delete" /\ q \in SetupRecord
  BY <1>2
<1> QED BY <1>3, <1>4, <1>5, SetupKeeps

\* A dead record goes: the keys that are accepted stay.
LEMMA DeleteKeeps ==
  ASSUME GatewayInv, NEW p \in Provisioners, DeleteMatch(p)
  PROVE  GatewayInv' /\ KeysKept
<1> DEFINE P == {i \in DOMAIN keys : keys[i].key # prov[p].key}
<1>0. keys \in Seq(KeyRecord) /\ DOMAIN keys = 1..Len(keys) /\ minted \in Nat
  BY DEF GatewayInv
<1>1. KeysKept
  <2>1. CASE keys' = SelectAt(keys, P)
    <3>1. P \in SUBSET (1..Len(keys))
      BY <1>0
    <3>2. \A i \in 1..Len(keys) : keys[i].key # prov[p].key => i \in P
      BY <1>0
    <3> HIDE DEF P
    <3>3. keys' \in Seq(KeyRecord)
      BY <1>0, <2>1, <3>1, Selected
    <3>4. \A j \in DOMAIN keys' : \E i \in 1..Len(keys) : keys'[j] = keys[i]
      <4>1. DOMAIN keys' = 1..Len(keys')
        BY <3>3
      <4>2. \A j \in 1..Len(SelectAt(keys, P)) :
              NthOf(P, j) \in P /\ SelectAt(keys, P)[j] = keys[NthOf(P, j)]
        BY <1>0, <3>1, Selected
      <4> QED BY <2>1, <3>1, <4>1, <4>2
    <3>5. \A i \in P : \E j \in DOMAIN keys' : keys'[j] = keys[i]
      <4>1. DOMAIN keys' = 1..Len(keys')
        BY <3>3
      <4>2. \A i \in P : /\ PlaceOf(P, i) \in 1..Len(SelectAt(keys, P))
                         /\ SelectAt(keys, P)[PlaceOf(P, i)] = keys[i]
        BY <1>0, <3>1, Selected
      <4> QED BY <2>1, <4>1, <4>2
    <3>6. \A k \in Nat : AcceptedIn(keys', k) => AcceptedIn(keys, k)
      BY <1>0, <3>4 DEF AcceptedIn
    <3>7. \A i \in 1..Len(keys) : keys[i].accepted => i \in P
      BY <1>0, <3>2 DEF GatewayInv, DeleteMatch, AcceptedIn
    <3>8. minted' = minted
      BY DEF DeleteMatch
    <3>9. \A j \in DOMAIN keys' : keys'[j].key <= minted'
      <4>1. \A i \in 1..Len(keys) : keys[i].key <= minted
        BY <1>0 DEF GatewayInv
      <4> QED BY <3>4, <3>8, <4>1
    <3> QED BY <1>0, <3>3, <3>5, <3>6, <3>7, <3>8, <3>9 DEF KeysKept
  <2>2. CASE keys' = keys
    BY <2>2, SameKeys DEF DeleteMatch
  <2> QED BY <2>1, <2>2 DEF DeleteMatch
<1>2. nodes' \in Seq(Nat)
  BY DEF DeleteMatch, GatewayInv
<1>3. prov' = [prov EXCEPT ![p] = Stepped(prov[p], "mint")]
  BY DEF DeleteMatch, Step, Stepped
<1>4. "mint" \in SetupSteps
  BY DEF SetupSteps
<1>5. "mint" # "delete"
  OBVIOUS
<1> QED BY <1>1, <1>2, <1>3, <1>4, <1>5, StepKeeps

LEMMA MintKeeps ==
  ASSUME GatewayInv, NEW p \in Provisioners, Mint(p)
  PROVE  GatewayInv' /\ KeysKept
<1>0. keys \in Seq(KeyRecord) /\ DOMAIN keys = 1..Len(keys) /\ minted \in Nat
  BY DEF GatewayInv
<1>1. nodes' \in Seq(Nat)
  BY DEF Mint, GatewayInv
<1>2. CASE Step(p, "failed") /\ UNCHANGED <<keys, minted, nodes>>
  <2>1. prov' = [prov EXCEPT ![p] = Stepped(prov[p], "failed")]
    BY <1>2 DEF Step, Stepped
  <2>2. KeysKept
    BY <1>2, SameKeys
  <2>3. "failed" \in SetupSteps
    BY DEF SetupSteps
  <2>4. "failed" # "delete"
    OBVIOUS
  <2> QED BY <1>1, <2>1, <2>2, <2>3, <2>4, StepKeeps
<1>3. CASE /\ minted' = minted + 1
           /\ keys' = Append(keys, [key |-> minted', accepted |-> TRUE])
           /\ Holds(p, "nodes", minted', FALSE)
  <2> DEFINE r == [key |-> minted', accepted |-> TRUE]
  <2>1. r \in KeyRecord /\ r.key = minted + 1 /\ minted' \in Nat /\ minted <= minted'
    BY <1>0, <1>3 DEF KeyRecord
  <2>2. keys' = Append(keys, r)
    BY <1>3
  <2> HIDE DEF r
  <2>3. keys' \in Seq(KeyRecord) /\ Len(keys') = Len(keys) + 1 /\ DOMAIN keys' = 1..Len(keys')
    BY <1>0, <2>1, <2>2
  <2>4. (\A i \in 1..Len(keys) : keys'[i] = keys[i]) /\ keys'[Len(keys) + 1] = r
    BY <1>0, <2>1, <2>2
  <2>5. ASSUME NEW k \in Nat, k <= minted, AcceptedIn(keys', k)  PROVE AcceptedIn(keys, k)
    <3>1. PICK i \in DOMAIN keys' : keys'[i].key = k /\ keys'[i].accepted
      BY <2>5 DEF AcceptedIn
    <3>2. i # Len(keys) + 1
      BY <1>0, <2>1, <2>4, <2>5, <3>1
    <3>3. i \in 1..Len(keys)
      BY <1>0, <2>3, <3>1, <3>2
    <3> QED BY <1>0, <2>4, <3>1, <3>3 DEF AcceptedIn
  <2>6. \A i \in DOMAIN keys : i \in DOMAIN keys' /\ keys'[i] = keys[i]
    BY <1>0, <2>3, <2>4
  <2>12. ASSUME NEW i \in DOMAIN keys'  PROVE keys'[i].key <= minted'
    <3>1. CASE i = Len(keys) + 1
      BY <1>0, <1>3, <2>1, <2>4, <3>1
    <3>2. CASE i # Len(keys) + 1
      <4>1. i \in 1..Len(keys)
        BY <1>0, <2>3, <3>2
      <4>2. keys'[i] = keys[i] /\ keys[i] \in KeyRecord
        BY <1>0, <2>4, <4>1
      <4>3. keys[i].key \in Nat
        BY <4>2 DEF KeyRecord
      <4>4. keys[i].key <= minted
        BY <1>0, <4>1 DEF GatewayInv
      <4> QED BY <1>0, <2>1, <4>2, <4>3, <4>4
    <3> QED BY <3>1, <3>2
  <2>7. KeysKept
    BY <2>1, <2>3, <2>5, <2>6, <2>12 DEF KeysKept
  <2>8. prov' = [prov EXCEPT ![p] = Held(prov[p], "nodes", minted', FALSE)]
    BY <1>3 DEF Holds, Held
  <2>9. "nodes" \in SetupSteps
    BY DEF SetupSteps
  <2>11. "nodes" # "delete"
    OBVIOUS
  <2>10. minted' <= minted'
    BY <2>1
  <2> QED BY <1>1, <2>1, <2>7, <2>8, <2>9, <2>10, <2>11, HoldsKeeps
<1> QED BY <1>2, <1>3 DEF Mint

\* The steps that leave the keys alone.
LEMMA QuietStep ==
  ASSUME GatewayInv, UNCHANGED <<keys, minted>>, nodes' \in Seq(Nat), NEW p \in Provisioners,
         NEW st \in SetupSteps \ {"delete"}, prov' = [prov EXCEPT ![p] = Stepped(prov[p], st)]
  PROVE  GatewayInv' /\ KeysKept
  BY SameKeys, StepKeeps

LEMMA KeySteps ==
  ASSUME GatewayInv, NEW p \in Provisioners, ProveExisting(p) \/ ListKeys(p) \/ ProveMatch(p)
  PROVE  GatewayInv' /\ KeysKept
<1>0. /\ nodes' \in Seq(Nat) /\ UNCHANGED <<keys, minted>> /\ KeysKept /\ minted \in Nat /\ minted' \in Nat
      /\ prov[p] \in SetupRecord /\ prov[p].key \in Nat /\ prov[p].key <= minted'
  BY SameKeys DEF GatewayInv, SetupRecord, ProveExisting, ListKeys, ProveMatch
<1>1. ASSUME NEW v \in Verdicts(prov[p].key)
      PROVE  v.doubt \in BOOLEAN /\ (~v.good => ~AcceptedIn(keys', prov[p].key))
  <2>1. keys' = keys /\ (KeyAccepted(prov[p].key) <=> AcceptedIn(keys, prov[p].key))
    BY <1>0 DEF KeyAccepted, AcceptedIn
  <2>2. CASE v = [good |-> TRUE, doubt |-> TRUE]
    BY <2>2
  <2>3. CASE v = [good |-> KeyAccepted(prov[p].key), doubt |-> FALSE]
    <3>1. v.doubt = FALSE /\ v.good = KeyAccepted(prov[p].key)
      BY <2>3
    <3>2. ~v.good => ~KeyAccepted(prov[p].key)
      BY <3>1 DEF KeyAccepted
    <3> QED BY <2>1, <3>1, <3>2
  <2> QED BY <2>2, <2>3 DEF Verdicts
<1>3. ASSUME NEW st \in SetupSteps \ {"delete"}, prov' = [prov EXCEPT ![p] = Stepped(prov[p], st)]
      PROVE  GatewayInv'
  BY <1>0, <1>3, QuietStep
<1>4. ASSUME NEW st \in SetupSteps, NEW d \in BOOLEAN, NEW k \in Nat, k <= minted',
             prov' = [prov EXCEPT ![p] = Held(prov[p], st, k, d)],
             st = "delete" => ~AcceptedIn(keys', k)
      PROVE  GatewayInv'
  BY <1>0, <1>4, HoldsKeeps
<1>5. CASE ProveExisting(p)
  <2>1. CASE Step(p, "list")
    <3>1. PICK st \in SetupSteps \ {"delete"} : prov' = [prov EXCEPT ![p] = Stepped(prov[p], st)]
      BY <2>1 DEF Step, Stepped, SetupSteps
    <3> QED BY <1>0, <1>3, <3>1
  <2>2. CASE Holds(p, "list", 0, FALSE)
    <3>1. 0 <= minted'
      BY <1>0
    <3>2. PICK st \in SetupSteps :
            st # "delete" /\ prov' = [prov EXCEPT ![p] = Held(prov[p], st, 0, FALSE)]
      BY <2>2 DEF Holds, Held, SetupSteps
    <3> QED BY <1>0, <1>4, <3>1, <3>2
  <2>3. ASSUME NEW v \in Verdicts(prov[p].key), Holds(p, "nodes", prov[p].key, v.doubt)
        PROVE  GatewayInv'
    <3>1. PICK st \in SetupSteps :
            st # "delete" /\ prov' = [prov EXCEPT ![p] = Held(prov[p], st, prov[p].key, v.doubt)]
      BY <2>3 DEF Holds, Held, SetupSteps
    <3> QED BY <1>0, <1>1, <1>4, <3>1
  <2>4. \/ Step(p, "list")
        \/ \E v \in Verdicts(prov[p].key) :
              Holds(p, "nodes", prov[p].key, v.doubt) \/ Holds(p, "list", 0, FALSE)
    BY <1>5 DEF ProveExisting
  <2> QED BY <1>0, <2>1, <2>2, <2>3, <2>4
<1>6. CASE ListKeys(p)
  <2>1. CASE Step(p, "failed") \/ Step(p, "mint")
    <3>1. PICK st \in SetupSteps \ {"delete"} : prov' = [prov EXCEPT ![p] = Stepped(prov[p], st)]
      BY <2>1 DEF Step, Stepped, SetupSteps
    <3> QED BY <1>0, <1>3, <3>1
  <2>2. CASE keys # <<>> /\ Holds(p, "prove", keys[1].key, FALSE)
    <3>1. 1 \in DOMAIN keys /\ keys[1] \in KeyRecord
      BY <2>2 DEF GatewayInv
    <3>2. keys[1].key \in Nat
      BY <3>1 DEF KeyRecord
    <3>3. keys[1].key <= minted'
      BY <1>0, <3>1 DEF GatewayInv
    <3>4. PICK st \in SetupSteps :
            st # "delete" /\ prov' = [prov EXCEPT ![p] = Held(prov[p], st, keys[1].key, FALSE)]
      BY <2>2 DEF Holds, Held, SetupSteps
    <3> QED BY <1>0, <1>4, <3>2, <3>3, <3>4
  <2> QED BY <1>6, <2>1, <2>2 DEF ListKeys
<1>7. CASE ProveMatch(p)
  <2>1. PICK v \in Verdicts(prov[p].key) :
               Holds(p, IF v.good THEN "nodes" ELSE "delete", prov[p].key, v.doubt)
    BY <1>7 DEF ProveMatch
  <2>2. PICK st \in {"nodes", "delete"} :
               /\ prov' = [prov EXCEPT ![p] = Held(prov[p], st, prov[p].key, v.doubt)]
               /\ st = "delete" => ~v.good
    BY <2>1 DEF Holds, Held
  <2>3. st \in SetupSteps
    BY DEF SetupSteps
  <2> QED BY <1>0, <1>1, <1>4, <2>2, <2>3
<1> QED BY <1>0, <1>5, <1>6, <1>7

\* A replacement in a sequence, in a row that is there or not.
LEMMA PutInRow ==
  ASSUME NEW T, NEW s \in Seq(T), NEW i, NEW v, i \in DOMAIN s => v \in T
  PROVE  [s EXCEPT ![i] = v] \in Seq(T)
<1>1. Len(s) \in Nat /\ DOMAIN s = 1..Len(s) /\ \A k \in 1..Len(s) : s[k] \in T
  OBVIOUS
<1>2. \A k \in 1..Len(s) : (IF k = i THEN v ELSE s[k]) \in T
  BY <1>1
<1>3. [k \in 1..Len(s) |-> IF k = i THEN v ELSE s[k]] \in Seq(T)
  BY <1>1, <1>2
<1>4. [s EXCEPT ![i] = v] = [k \in DOMAIN s |-> IF k = i THEN v ELSE s[k]]
  BY Zenon
<1> QED BY <1>1, <1>3, <1>4

LEMMA NodeSteps ==
  ASSUME GatewayInv, NEW p \in Provisioners,
         \/ FindDaemon(p) \/ AwaitDaemon(p) \/ ResolveAdmin(p)
         \/ ListNodes(p) \/ MakeNode(p) \/ ListConnections(p) \/ MakeConnection(p)
  PROVE  GatewayInv' /\ KeysKept
<1>0. UNCHANGED <<keys, minted>> /\ nodes \in Seq(Nat) /\ KeysKept
  BY SameKeys DEF GatewayInv, FindDaemon, AwaitDaemon, ResolveAdmin, ListNodes, MakeNode, ListConnections,
                  MakeConnection
<1>2. ASSUME nodes' \in Seq(Nat),
             \E st \in SetupSteps \ {"delete"} : prov' = [prov EXCEPT ![p] = Stepped(prov[p], st)]
      PROVE  GatewayInv'
  BY <1>0, <1>2, QuietStep
<1>3. ASSUME NEW n \in Nat, OnNode(p, "links", n), nodes' \in Seq(Nat)
      PROVE  GatewayInv'
  <2>1. PICK st \in SetupSteps : st # "delete" /\ prov' = [prov EXCEPT ![p] = Placed(prov[p], st, n)]
    BY <1>3 DEF OnNode, Placed, SetupSteps
  <2> QED BY <1>0, <1>3, <2>1, OnNodeKeeps
<1>4. CASE FindDaemon(p) \/ AwaitDaemon(p) \/ ResolveAdmin(p) \/ ListConnections(p)
  <2>1. nodes' = nodes
    BY <1>4 DEF FindDaemon, AwaitDaemon, ResolveAdmin, ListConnections
  <2>2. \E st \in {"wait", "admin", "existing", "link", "done", "failed"} : Step(p, st)
    BY <1>4 DEF FindDaemon, AwaitDaemon, ResolveAdmin, ListConnections
  <2>3. \E st \in SetupSteps \ {"delete"} : prov' = [prov EXCEPT ![p] = Stepped(prov[p], st)]
    BY <2>2 DEF Step, Stepped, SetupSteps
  <2> QED BY <1>0, <1>2, <2>1, <2>3
<1>5. CASE ListNodes(p)
  <2>1. nodes' \in Seq(Nat)
    BY <1>0, <1>5 DEF ListNodes
  <2>2. CASE Step(p, "failed") \/ Step(p, "node")
    <3>1. \E st \in SetupSteps \ {"delete"} : prov' = [prov EXCEPT ![p] = Stepped(prov[p], st)]
      BY <2>2 DEF Step, Stepped, SetupSteps
    <3> QED BY <1>0, <1>2, <2>1, <3>1
  <2>4. CASE \E n \in Nat : OnNode(p, "links", n)
    BY <1>0, <1>3, <2>1, <2>4
  <2>5. 1 \in Nat
    OBVIOUS
  <2> QED BY <1>5, <2>2, <2>4, <2>5 DEF ListNodes
<1>6. CASE MakeNode(p)
  <2>1. CASE Step(p, "failed") /\ UNCHANGED nodes
    <3>1. \E st \in SetupSteps \ {"delete"} : prov' = [prov EXCEPT ![p] = Stepped(prov[p], st)]
      BY <2>1 DEF Step, Stepped, SetupSteps
    <3> QED BY <1>0, <1>2, <2>1, <3>1
  <2>2. CASE nodes' = Append(nodes, 0) /\ OnNode(p, "links", Len(nodes'))
    <3>1. nodes' \in Seq(Nat)
      BY <1>0, <2>2
    <3>2. Len(nodes') \in Nat
      BY <3>1
    <3> QED BY <1>0, <1>3, <2>2, <3>1, <3>2
  <2> QED BY <1>6, <2>1, <2>2 DEF MakeNode
<1>7. CASE MakeConnection(p)
  <2>1. CASE Step(p, "failed") /\ UNCHANGED nodes
    <3>1. \E st \in SetupSteps \ {"delete"} : prov' = [prov EXCEPT ![p] = Stepped(prov[p], st)]
      BY <2>1 DEF Step, Stepped, SetupSteps
    <3> QED BY <1>0, <1>2, <2>1, <3>1
  <2>2. CASE nodes' = [nodes EXCEPT ![prov[p].node] = @ + 1] /\ Step(p, "done")
    <3>1. nodes' \in Seq(Nat)
      <4> DEFINE n == nodes[prov[p].node] + 1
      <4>1. nodes' = [nodes EXCEPT ![prov[p].node] = n]
        BY <2>2
      <4>2. prov[p].node \in DOMAIN nodes => n \in Nat
        BY <1>0
      <4> HIDE DEF n
      <4> QED BY <1>0, <4>1, <4>2, PutInRow
    <3>2. \E st \in SetupSteps \ {"delete"} : prov' = [prov EXCEPT ![p] = Stepped(prov[p], st)]
      BY <2>2 DEF Step, Stepped, SetupSteps
    <3> QED BY <1>0, <1>2, <3>1, <3>2
  <2> QED BY <1>7, <2>1, <2>2 DEF MakeConnection
<1> QED BY <1>0, <1>4, <1>5, <1>6, <1>7

LEMMA OwnerSteps ==
  ASSUME GatewayInv,
         \/ DaemonComesUp
         \/ \E i \in DOMAIN keys : Revoke(i)
         \/ \E i \in DOMAIN nodes : EndConnections(i)
         \/ UNCHANGED gatewayVars
  PROVE  GatewayInv' /\ KeysKept
<1>0. prov' = prov /\ minted' = minted /\ minted \in Nat /\ keys \in Seq(KeyRecord) /\ nodes \in Seq(Nat)
  BY DEF GatewayInv, DaemonComesUp, Revoke, EndConnections, gatewayVars
<1>1. nodes' \in Seq(Nat)
  <2>1. ASSUME NEW i \in DOMAIN nodes, nodes' = [nodes EXCEPT ![i] = 0]  PROVE nodes' \in Seq(Nat)
    BY <1>0, <2>1
  <2> QED BY <1>0, <2>1 DEF DaemonComesUp, Revoke, EndConnections, gatewayVars
<1>2. KeysKept
  <2>1. CASE keys' = keys
    BY <1>0, <2>1, SameKeys
  <2>2. ASSUME NEW i \in DOMAIN keys, keys' = [keys EXCEPT ![i].accepted = FALSE]  PROVE KeysKept
    <3>1. keys' \in Seq(KeyRecord) /\ DOMAIN keys' = DOMAIN keys
      <4> DEFINE k == [keys[i] EXCEPT !.accepted = FALSE]
      <4>1. k \in KeyRecord
        <5>1. keys[i] \in KeyRecord
          BY <1>0
        <5> QED BY <5>1 DEF KeyRecord
      <4>2. keys' = [keys EXCEPT ![i] = k]
        BY <2>2
      <4> HIDE DEF k
      <4> QED BY <1>0, <4>1, <4>2
    <3>2. \A j \in DOMAIN keys : keys'[j].key = keys[j].key /\ (keys'[j].accepted => keys[j].accepted)
      BY <1>0, <2>2 DEF KeyRecord
    <3>3. \A k \in Nat : AcceptedIn(keys', k) => AcceptedIn(keys, k)
      BY <3>1, <3>2 DEF AcceptedIn
    <3> QED BY <1>0, <3>1, <3>2, <3>3 DEF KeysKept, GatewayInv
  <2> QED BY <2>1, <2>2 DEF DaemonComesUp, Revoke, EndConnections, gatewayVars
<1> QED BY <1>0, <1>1, <1>2, OldKeys DEF GatewayInv, KeysKept, SetupRecord

LEMMA GatewayStep == GatewayInv /\ [GatewayNext]_gatewayVars => GatewayInv' /\ KeysKept
  BY DeleteKeeps, MintKeeps, KeySteps, NodeSteps, OwnerSteps DEF GatewayNext

LEMMA GatewayBegins == GatewayInit => GatewayInv
  BY GatewayAssumption DEF GatewayInit, GatewayInv, SetupRecord, SetupSteps, KeyRecord

\* A key the gateway accepts is never deleted by a setup command, however many run at once
\* (provision_gateway_key, ninerouter.py:1200-1240).
THEOREM LiveKeysAreKept == Spec => LiveKeysStay
<1>1. Init => GatewayInv
  BY GatewayBegins DEF Init
<1>2. GatewayInv /\ [Next]_vars => GatewayInv' /\ KeysKept
  BY ServiceSteps, GatewayStep
<1>3. KeysKept => \A i \in DOMAIN keys : keys[i].accepted => \E j \in DOMAIN keys' : keys'[j].key = keys[i].key
  BY DEF KeysKept
<1> QED BY <1>1, <1>2, <1>3, PTL DEF Spec, LiveKeysStay

-----------------------------------------------------------------------------
(* The Postgres store.                                                     *)

PgStatuses == {"absent", "QUEUED"} \cup Executing \cup Final
PgRecord == [status : PgStatuses, owner : Coordinators \cup {"nobody"}, cancel : BOOLEAN, told : BOOLEAN,
             attempt : Nat]
ClaimRecord == [pc : {"none", "judge", "commit"}, rows : Seq(PgMissions), at : Nat]

\* Rows of claims under way are queued and are held by one claim each, and what is queued
\* or not there yet is nobody's.
PgInv ==
  /\ pgRow \in [PgMissions -> PgRecord] /\ txn \in [Coordinators -> ClaimRecord]
  /\ order \in Seq(PgMissions) /\ inserting \subseteq PgMissions
  /\ \A m \in PgMissions :
       pgRow[m].status \in {"absent", "QUEUED"} \/ m \in inserting => pgRow[m].owner = "nobody"
  /\ \A m \in inserting : pgRow[m].status # "QUEUED"
  /\ \A c \in Coordinators : /\ txn[c].pc # "none" => txn[c].at \in DOMAIN txn[c].rows
                             /\ \A i \in DOMAIN txn[c].rows : pgRow[txn[c].rows[i]].status = "QUEUED"
  /\ \A c, d \in Coordinators : c # d =>
       \A i \in DOMAIN txn[c].rows, j \in DOMAIN txn[d].rows : txn[c].rows[i] # txn[d].rows[j]

OwnersStay == \A m \in PgMissions : pgRow[m].owner # "nobody" => pgRow'[m].owner = pgRow[m].owner

LEMMA HeldRows ==
  ASSUME PgInv, NEW c \in Coordinators, NEW i \in DOMAIN txn[c].rows
  PROVE  txn[c].rows[i] \in PgMissions
<1>1. txn[c].rows \in Seq(PgMissions)
  BY DEF PgInv, ClaimRecord
<1> QED BY <1>1

\* One row is written, and queued still if a claim holds it.
LEMMA RowWritten ==
  ASSUME PgInv, UNCHANGED txn, order' \in Seq(PgMissions), inserting' \subseteq inserting, NEW m \in PgMissions,
         NEW r \in PgRecord, pgRow' = [pgRow EXCEPT ![m] = r],
         r.status \in {"absent", "QUEUED"} \/ m \in inserting' => r.owner = "nobody",
         Locked(m) => r.status = "QUEUED", m \in inserting' => r.status # "QUEUED",
         pgRow[m].owner # "nobody" => r.owner = pgRow[m].owner
  PROVE  PgInv' /\ OwnersStay
<1>1. pgRow' \in [PgMissions -> PgRecord] /\ \A n \in PgMissions : pgRow'[n] = IF n = m THEN r ELSE pgRow[n]
  BY DEF PgInv
<1>2. ASSUME NEW c \in Coordinators, NEW i \in DOMAIN txn[c].rows
      PROVE  pgRow'[txn[c].rows[i]].status = "QUEUED"
  <2>1. txn[c].rows[i] \in PgMissions /\ pgRow[txn[c].rows[i]].status = "QUEUED"
    BY HeldRows DEF PgInv
  <2>2. txn[c].rows[i] = m => Locked(m)
    BY DEF Locked
  <2> QED BY <1>1, <2>1, <2>2
<1>3. \A n \in PgMissions :
        pgRow'[n].status \in {"absent", "QUEUED"} \/ n \in inserting' => pgRow'[n].owner = "nobody"
  BY <1>1 DEF PgInv
<1>4. OwnersStay
  BY <1>1 DEF OwnersStay
<1>5. \A n \in inserting' : pgRow'[n].status # "QUEUED"
  BY <1>1 DEF PgInv
<1> QED BY <1>1, <1>2, <1>3, <1>4, <1>5 DEF PgInv

\* A claim is given up, or goes on to another of its rows.
LEMMA ClaimMoves ==
  ASSUME PgInv, UNCHANGED <<order, pgRow, inserting>>, NEW c \in Coordinators, NEW q \in ClaimRecord,
         txn' = [txn EXCEPT ![c] = q], q.pc # "none" => q.at \in DOMAIN q.rows,
         q.rows = txn[c].rows \/ q.rows = <<>>
  PROVE  PgInv' /\ OwnersStay
<1>1. txn' \in [Coordinators -> ClaimRecord] /\ \A d \in Coordinators : txn'[d] = IF d = c THEN q ELSE txn[d]
  BY DEF PgInv
<1>2. \A d \in Coordinators : txn'[d].rows = txn[d].rows \/ txn'[d].rows = <<>>
  BY <1>1
<1>3. DOMAIN <<>> = {}
  OBVIOUS
<1>4. \A d \in Coordinators : txn'[d].pc # "none" => txn'[d].at \in DOMAIN txn'[d].rows
  BY <1>1 DEF PgInv
<1>5. \A d \in Coordinators : \A i \in DOMAIN txn'[d].rows :
        i \in DOMAIN txn[d].rows /\ txn'[d].rows[i] = txn[d].rows[i]
  BY <1>2, <1>3
<1>6. \A d \in Coordinators : \A i \in DOMAIN txn'[d].rows : pgRow'[txn'[d].rows[i]].status = "QUEUED"
  BY <1>5 DEF PgInv
<1>7. \A d, e \in Coordinators : d # e =>
        \A i \in DOMAIN txn'[d].rows, j \in DOMAIN txn'[e].rows : txn'[d].rows[i] # txn'[e].rows[j]
  BY <1>5 DEF PgInv
<1>8. OwnersStay
  BY DEF OwnersStay
<1> QED BY <1>1, <1>4, <1>6, <1>7, <1>8 DEF PgInv

LEMMA NoClaim == NoTxn \in ClaimRecord /\ NoTxn.pc = "none" /\ NoTxn.rows = <<>>
  BY DEF NoTxn, ClaimRecord

\* The scan takes free rows only.
LEMMA ScanTakesFreeRows ==
  ASSUME PgInv, NEW c \in Coordinators, NEW skip, ScanQueue(c, skip)
  PROVE  PgInv' /\ OwnersStay
<1> DEFINE F == Free(skip)
           n == IF Len(F) < ScanRows THEN Len(F) ELSE ScanRows
           q == [pc |-> "judge", at |-> 1, rows |-> SubSeq(F, 1, n)]
<1>1. F \in Seq(PgMissions) /\ \A k \in 1..Len(F) : pgRow[F[k]].status = "QUEUED" /\ ~Locked(F[k])
  <2> DEFINE P == {i \in DOMAIN order : /\ pgRow[order[i]].status = "QUEUED"
                                        /\ ~Locked(order[i]) /\ order[i] \notin skip}
  <2>1. order \in Seq(PgMissions) /\ P \in SUBSET (1..Len(order)) /\ F = SelectAt(order, P)
    BY DEF PgInv, Free
  <2>2. \A i \in P : pgRow[order[i]].status = "QUEUED" /\ ~Locked(order[i])
    OBVIOUS
  <2> HIDE DEF P, F
  <2>3. SelectAt(order, P) \in Seq(PgMissions)
    BY <2>1, Selected
  <2>4. \A k \in 1..Len(SelectAt(order, P)) :
          NthOf(P, k) \in P /\ SelectAt(order, P)[k] = order[NthOf(P, k)]
    BY <2>1, Selected
  <2> QED BY <2>1, <2>2, <2>3, <2>4
<1>2. F # <<>> /\ txn' = [txn EXCEPT ![c] = q] /\ UNCHANGED <<pgRow, order, inserting>>
  BY DEF ScanQueue
<1> HIDE DEF F
<1>3. n \in 1..Len(F)
  BY <1>1, <1>2, PgAssumption
<1> HIDE DEF n
<1>4. /\ SubSeq(F, 1, n) \in Seq(PgMissions) /\ DOMAIN SubSeq(F, 1, n) = 1..n
      /\ \A k \in 1..n : SubSeq(F, 1, n)[k] = F[k] /\ k \in 1..Len(F)
  BY <1>1, <1>3
<1>5. q \in ClaimRecord /\ q.at \in DOMAIN q.rows
  BY <1>3, <1>4 DEF ClaimRecord
<1>6. \A i \in DOMAIN q.rows : pgRow[q.rows[i]].status = "QUEUED" /\ ~Locked(q.rows[i])
  BY <1>1, <1>4
<1> HIDE DEF q
<1>7. txn' \in [Coordinators -> ClaimRecord] /\ \A d \in Coordinators : txn'[d] = IF d = c THEN q ELSE txn[d]
  BY <1>2, <1>5 DEF PgInv
<1>8. \A d \in Coordinators : /\ txn'[d].pc # "none" => txn'[d].at \in DOMAIN txn'[d].rows
                              /\ \A i \in DOMAIN txn'[d].rows : pgRow'[txn'[d].rows[i]].status = "QUEUED"
  BY <1>2, <1>5, <1>6, <1>7 DEF PgInv
<1>9. ASSUME NEW d \in Coordinators, NEW e \in Coordinators, d # e,
             NEW i \in DOMAIN txn'[d].rows, NEW j \in DOMAIN txn'[e].rows
      PROVE  txn'[d].rows[i] # txn'[e].rows[j]
  BY <1>6, <1>7, <1>9 DEF PgInv, Locked
<1>10. OwnersStay
  BY <1>2 DEF OwnersStay
<1> QED BY <1>2, <1>7, <1>8, <1>9, <1>10 DEF PgInv

LEMMA Claimed ==
  ASSUME NEW q \in PgRecord, NEW c \in Coordinators
  PROVE  LET r == [q EXCEPT !.status = "RUNNING", !.owner = c, !.attempt = q.attempt + 1]
         IN  r \in PgRecord /\ r.status = "RUNNING"
<1>1. q.attempt + 1 \in Nat
  <2>1. q.attempt \in Nat
    BY DEF PgRecord
  <2> QED BY <2>1
<1> DEFINE n == q.attempt + 1
<1>2. n \in Nat
  BY <1>1
<1>3. "RUNNING" \in PgStatuses
  BY DEF PgStatuses, Executing
<1> HIDE DEF n
<1>4. LET r == [q EXCEPT !.status = "RUNNING", !.owner = c, !.attempt = n]
      IN  r \in PgRecord /\ r.status = "RUNNING"
  BY <1>2, <1>3 DEF PgRecord
<1> QED BY <1>4 DEF n

\* The mission of a claim is still queued when the claim commits.
LEMMA CommitTakesItsRow ==
  ASSUME PgInv, NEW c \in Coordinators, CommitClaim(c)
  PROVE  PgInv' /\ OwnersStay
<1> DEFINE m == txn[c].rows[txn[c].at]
           r == [pgRow[m] EXCEPT !.status = "RUNNING", !.owner = c, !.attempt = pgRow[m].attempt + 1]
<1>1. txn[c].at \in DOMAIN txn[c].rows
  BY DEF PgInv, CommitClaim
<1>2. m \in PgMissions /\ pgRow[m].status = "QUEUED" /\ pgRow[m].owner = "nobody"
  BY <1>1, HeldRows DEF PgInv
<1>3. pgRow' = [pgRow EXCEPT ![m] = r]
  BY <1>2 DEF CommitClaim
<1>4. r \in PgRecord /\ r.status = "RUNNING"
  <2> HIDE DEF m
  <2>1. pgRow[m] \in PgRecord
    BY <1>2 DEF PgInv
  <2> QED BY <2>1, Claimed
<1>5. txn' = [txn EXCEPT ![c] = NoTxn] /\ UNCHANGED <<order, inserting>>
  <2>1. [NoTxn EXCEPT !.rows = <<>>] = NoTxn
    BY DEF NoTxn
  <2> QED BY <2>1 DEF CommitClaim
<1>6. \A d \in Coordinators : d # c => \A i \in DOMAIN txn[d].rows : txn[d].rows[i] # m
  BY <1>1 DEF PgInv
<1> HIDE DEF m, r
<1>7. pgRow' \in [PgMissions -> PgRecord] /\ \A n \in PgMissions : pgRow'[n] = IF n = m THEN r ELSE pgRow[n]
  BY <1>2, <1>3, <1>4 DEF PgInv
<1>8. txn' \in [Coordinators -> ClaimRecord] /\ \A d \in Coordinators : txn'[d] = IF d = c THEN NoTxn ELSE txn[d]
  BY <1>5, NoClaim DEF PgInv
<1>9. NoTxn.pc = "none" /\ DOMAIN NoTxn.rows = {}
  BY NoClaim
<1>10. ASSUME NEW d \in Coordinators, NEW i \in DOMAIN txn'[d].rows
       PROVE  /\ d # c /\ i \in DOMAIN txn[d].rows /\ txn'[d].rows[i] = txn[d].rows[i]
              /\ pgRow'[txn'[d].rows[i]].status = "QUEUED"
  <2>1. d # c /\ i \in DOMAIN txn[d].rows /\ txn'[d].rows[i] = txn[d].rows[i]
    BY <1>8, <1>9
  <2>2. txn[d].rows[i] \in PgMissions /\ pgRow[txn[d].rows[i]].status = "QUEUED"
    BY <2>1, HeldRows DEF PgInv
  <2> QED BY <1>6, <1>7, <2>1, <2>2
<1>11. \A d \in Coordinators : txn'[d].pc # "none" => txn'[d].at \in DOMAIN txn'[d].rows
  BY <1>8, <1>9 DEF PgInv
<1>12. ASSUME NEW d \in Coordinators, NEW e \in Coordinators, d # e,
              NEW i \in DOMAIN txn'[d].rows, NEW j \in DOMAIN txn'[e].rows
       PROVE  txn'[d].rows[i] # txn'[e].rows[j]
  BY <1>10, <1>12 DEF PgInv
<1>13. m \notin inserting
  BY <1>2 DEF PgInv
<1>14. /\ OwnersStay /\ \A n \in inserting' : pgRow'[n].status # "QUEUED"
       /\ \A n \in PgMissions :
            pgRow'[n].status \in {"absent", "QUEUED"} \/ n \in inserting' => pgRow'[n].owner = "nobody"
  BY <1>2, <1>4, <1>5, <1>7, <1>13 DEF PgInv, OwnersStay
<1> QED BY <1>5, <1>7, <1>8, <1>10, <1>11, <1>12, <1>14 DEF PgInv

\* The other statements write one row.
LEMMA RowStep ==
  ASSUME PgInv, NEW m \in PgMissions,
         \/ InsertMission(m) \/ RequestCancel(m)
         \/ \E c \in Coordinators :
              \/ Heartbeat(c, m)
              \/ \E s \in {"VERIFYING", "RECOVERING"}, knew \in BOOLEAN : SaveOwned(c, m, s, knew)
              \/ \E s \in {"PASS", "FAIL"} : Finalize(c, m, s)
  PROVE  PgInv' /\ OwnersStay
<1>1. pgRow[m] \in PgRecord /\ pgRow[m].cancel \in BOOLEAN /\ pgRow[m].told \in BOOLEAN
  BY DEF PgInv, PgRecord
<1>2. inserting' \subseteq inserting /\ order' \in Seq(PgMissions)
  <2>1. order \in Seq(PgMissions) /\ inserting \subseteq PgMissions
    BY DEF PgInv
  <2>2. CASE InsertMission(m)
    BY <2>1, <2>2 DEF InsertMission
  <2>3. CASE UNCHANGED <<order, inserting>>
    BY <2>1, <2>3
  <2> QED BY <2>2, <2>3 DEF RequestCancel, Heartbeat, SaveOwned, Finalize
<1>3. CASE InsertMission(m)
  <2> DEFINE r == [pgRow[m] EXCEPT !.status = "QUEUED"]
  <2>1. r \in PgRecord /\ r.status = "QUEUED" /\ r.owner = pgRow[m].owner
    BY <1>1 DEF PgRecord, PgStatuses
  <2>2. pgRow' = [pgRow EXCEPT ![m] = r] /\ UNCHANGED txn /\ m \in inserting /\ m \notin inserting'
    BY <1>3 DEF InsertMission
  <2>3. pgRow[m].owner = "nobody"
    BY <2>2 DEF PgInv
  <2> HIDE DEF r
  <2> QED BY <1>2, <2>1, <2>2, <2>3, RowWritten
<1>4. CASE RequestCancel(m)
  <2> DEFINE s == IF pgRow[m].status = "QUEUED" THEN "CANCELLED" ELSE pgRow[m].status
             r == [pgRow[m] EXCEPT !.cancel = TRUE, !.told = TRUE, !.status = s]
  <2>1. s \in PgStatuses
    BY <1>1 DEF PgStatuses, Final, PgRecord
  <2>2. s # "QUEUED" /\ s # "absent"
    BY <1>4 DEF RequestCancel, Executing
  <2> HIDE DEF s
  <2>3. r \in PgRecord /\ r.status = s /\ r.owner = pgRow[m].owner
    BY <1>1, <2>1 DEF PgRecord
  <2>4. pgRow' = [pgRow EXCEPT ![m] = r] /\ UNCHANGED <<order, txn, inserting>> /\ ~Locked(m)
    BY <1>4 DEF RequestCancel, s
  <2>5. m \in inserting => pgRow[m].owner = "nobody"
    BY DEF PgInv
  <2> HIDE DEF r
  <2> QED BY <1>2, <2>2, <2>3, <2>4, <2>5, RowWritten
<1>5. ASSUME NEW c \in Coordinators, Heartbeat(c, m)  PROVE PgInv' /\ OwnersStay
  <2> DEFINE b == pgRow[m].told \/ pgRow[m].cancel
             r == [pgRow[m] EXCEPT !.told = b]
  <2>1. b \in BOOLEAN
    BY <1>1
  <2>2. pgRow' = [pgRow EXCEPT ![m] = r]
    BY <1>5 DEF Heartbeat
  <2> HIDE DEF b
  <2>3. r \in PgRecord /\ r.status = pgRow[m].status /\ r.owner = pgRow[m].owner
    BY <1>1, <2>1 DEF PgRecord
  <2>4. /\ UNCHANGED <<order, txn, inserting>> /\ ~Locked(m)
        /\ pgRow[m].status # "QUEUED" /\ pgRow[m].status # "absent"
    BY <1>5 DEF Heartbeat, Executing
  <2>5. m \in inserting => pgRow[m].owner = "nobody"
    BY DEF PgInv
  <2> HIDE DEF r
  <2> QED BY <1>2, <2>2, <2>3, <2>4, <2>5, RowWritten
<1>6. ASSUME NEW c \in Coordinators, NEW s \in {"VERIFYING", "RECOVERING"}, NEW knew \in BOOLEAN,
             SaveOwned(c, m, s, knew)
      PROVE  PgInv' /\ OwnersStay
  <2> DEFINE r == [pgRow[m] EXCEPT !.status = s, !.told = knew]
  <2>1. s \in PgStatuses /\ s # "QUEUED" /\ s # "absent"
    BY DEF PgStatuses, Executing
  <2>2. r \in PgRecord /\ r.status = s /\ r.owner = pgRow[m].owner
    BY <1>1, <2>1 DEF PgRecord
  <2>3. pgRow' = [pgRow EXCEPT ![m] = r] /\ UNCHANGED <<order, txn, inserting>> /\ ~Locked(m)
    BY <1>6 DEF SaveOwned
  <2>4. m \in inserting => pgRow[m].owner = "nobody"
    BY DEF PgInv
  <2> HIDE DEF r
  <2> QED BY <1>2, <2>1, <2>2, <2>3, <2>4, RowWritten
<1>7. ASSUME NEW c \in Coordinators, NEW s \in {"PASS", "FAIL"}, Finalize(c, m, s)
      PROVE  PgInv' /\ OwnersStay
  <2> DEFINE r == [pgRow[m] EXCEPT !.status = s]
  <2>1. s \in PgStatuses /\ s # "QUEUED" /\ s # "absent"
    BY DEF PgStatuses, Final
  <2>2. r \in PgRecord /\ r.status = s /\ r.owner = pgRow[m].owner
    BY <1>1, <2>1 DEF PgRecord
  <2>3. /\ pgRow' = [pgRow EXCEPT ![m] = r] /\ UNCHANGED <<order, txn, inserting>>
        /\ pgRow[m].status # "QUEUED"
    BY <1>7 DEF Finalize, Executing
  <2>4. m \in inserting => pgRow[m].owner = "nobody"
    BY DEF PgInv
  <2>5. ~Locked(m)
    BY <2>3 DEF Locked, PgInv
  <2> HIDE DEF r
  <2> QED BY <1>2, <2>1, <2>2, <2>3, <2>4, <2>5, RowWritten
<1> QED BY <1>3, <1>4, <1>5, <1>6, <1>7

\* A claim reads on or is given up.
LEMMA ClaimStep ==
  ASSUME PgInv, NEW c \in Coordinators, JudgeClaim(c) \/ LoseConnection(c)
  PROVE  PgInv' /\ OwnersStay
<1>1. txn[c] \in ClaimRecord /\ txn[c].at \in Nat /\ txn[c].rows \in Seq(PgMissions)
  BY DEF PgInv, ClaimRecord
<1>2. UNCHANGED <<order, pgRow, inserting>>
  BY DEF JudgeClaim, LoseConnection
<1>3. CASE txn' = [txn EXCEPT ![c] = NoTxn]
  BY <1>2, <1>3, NoClaim, ClaimMoves
<1>4. CASE JudgeClaim(c) /\ txn' = [txn EXCEPT ![c].pc = "commit"]
  <2> DEFINE q == [txn[c] EXCEPT !.pc = "commit"]
  <2>1. q \in ClaimRecord /\ q.at = txn[c].at /\ q.rows = txn[c].rows
    BY <1>1 DEF ClaimRecord
  <2>2. txn[c].at \in DOMAIN txn[c].rows /\ txn' = [txn EXCEPT ![c] = q]
    BY <1>4 DEF PgInv, JudgeClaim
  <2> HIDE DEF q
  <2> QED BY <1>2, <2>1, <2>2, ClaimMoves
<1>5. CASE txn[c].at < Len(txn[c].rows) /\ txn' = [txn EXCEPT ![c].at = @ + 1]
  <2> DEFINE n == txn[c].at + 1
             q == [txn[c] EXCEPT !.at = n]
  <2>1. n \in Nat /\ n \in DOMAIN txn[c].rows
    BY <1>1, <1>5
  <2>2. txn' = [txn EXCEPT ![c] = q]
    BY <1>5
  <2> HIDE DEF n
  <2>3. q \in ClaimRecord /\ q.at = n /\ q.rows = txn[c].rows
    BY <1>1, <2>1 DEF ClaimRecord
  <2> HIDE DEF q
  <2> QED BY <1>2, <2>1, <2>2, <2>3, ClaimMoves
<1>6. CASE JudgeClaim(c)
  BY <1>3, <1>4, <1>5, <1>6 DEF JudgeClaim
<1> QED BY <1>3, <1>6 DEF LoseConnection

LEMMA PgStep == PgInv /\ [PgNext]_pgVars => PgInv' /\ OwnersStay
<1> SUFFICES ASSUME PgInv, [PgNext]_pgVars  PROVE PgInv' /\ OwnersStay
  OBVIOUS
<1>1. CASE UNCHANGED pgVars
  BY <1>1 DEF PgInv, OwnersStay, pgVars
<1>2. ASSUME NEW m \in PgMissions, CheckDuplicate(m)  PROVE PgInv' /\ OwnersStay
  BY <1>2 DEF PgInv, OwnersStay, CheckDuplicate
<1> QED BY <1>1, <1>2, RowStep, ScanTakesFreeRows, CommitTakesItsRow, ClaimStep DEF PgNext

LEMMA PgBegins == PgInit => PgInv
  BY NoClaim DEF PgInit, PgInv, PgRecord, PgStatuses, NewRow

\* A mission is claimed exactly once: a claim under way still has its mission queued when
\* it comes to be committed, and a claimed mission keeps its owner (claim_next,
\* pg_store.py:470-579).
THEOREM PgClaimsAreExact == Spec => ClaimsAreExact
<1>1. Init => PgInv
  BY PgBegins DEF Init
<1>2. PgInv /\ [Next]_vars => PgInv' /\ OwnersStay
  BY ServiceSteps, PgStep
<1>3. PgInv => \A c \in Coordinators :
                 txn[c].pc # "none" => pgRow[txn[c].rows[txn[c].at]].status = "QUEUED"
  BY DEF PgInv
<1>4. OwnersStay => \A m \in PgMissions : pgRow[m].owner # "nobody" => pgRow'[m].owner = pgRow[m].owner
  BY DEF OwnersStay
<1> QED BY <1>1, <1>2, <1>3, <1>4, PTL DEF Spec, ClaimsAreExact

-----------------------------------------------------------------------------
(* The audit trail.                                                        *)

Payloads == Nat \X Nat \X {"as written", "altered"}
TrailRow == [seq : Nat, ts : Nat, data : {"as written", "altered"}, prev : Seq(Payloads), hash : Seq(Payloads)]

\* The hash of a row says what was written, and its link names the row before it.
SoundRow(r) ==
  /\ r.hash = Append(r.prev, <<r.seq, r.ts, "as written">>)
  /\ r.prev # <<>> => r.prev[Len(r.prev)][1] + 1 = r.seq

\* Rows nobody damaged.
Undamaged(rows, as) ==
  /\ \A i \in DOMAIN rows : rows[i].data = "as written"
  /\ \A i \in DOMAIN rows : i > 1 => rows[i].prev = rows[i - 1].hash
  /\ rows # <<>> => rows[1].prev \in as \cup {<<>>}

RowsAreSound ==
  /\ events \in Seq(TrailRow) /\ \A i \in DOMAIN events : SoundRow(events[i])
  /\ appended \in Nat /\ today \in Nat
  /\ events # <<>> => events[Len(events)].seq = appended
  /\ \A i \in DOMAIN events : events[i].ts <= today
  /\ \A i, j \in DOMAIN events : i <= j => events[i].ts <= events[j].ts
  /\ accidents = {} => Undamaged(events, anchors)

VerdictIsSound ==
  /\ verifier \in [pc : {"idle", "rows read", "done"}, rows : Seq(TrailRow), intact : BOOLEAN]
  /\ \A i \in DOMAIN verifier.rows : SoundRow(verifier.rows[i])
  /\ verifier.pc = "rows read" /\ accidents = {} => Undamaged(verifier.rows, anchors)
  /\ NoFalseAlarm /\ DamageIsSeen

AuditInv == RowsAreSound /\ VerdictIsSound /\ NothingLost

LEMMA LastOfAppend ==
  ASSUME NEW T, NEW s \in Seq(T), NEW v
  PROVE  /\ Append(s, v) # <<>> /\ Append(s, v)[Len(Append(s, v))] = v
         /\ \A w : Append(s, v) = Append(s, w) => v = w
<1>1. \A w : Len(Append(s, w)) = Len(s) + 1 /\ Append(s, w)[Len(s) + 1] = w
  OBVIOUS
<1>2. Append(s, v) # <<>>
  <2>1. Len(s) \in Nat /\ Len(<<>>) = 0
    OBVIOUS
  <2> QED BY <1>1, <2>1
<1> QED BY <1>1, <1>2

\* Time goes on along the trail, so what is pruned is its beginning.
LEMMA PruneSplits ==
  ASSUME RowsAreSound, NEW cutoff \in Nat
  PROVE  \E m \in 0..Len(events) : /\ Old(cutoff) = SubSeq(events, 1, m)
                                   /\ Kept(cutoff) = SubSeq(events, m + 1, Len(events))
<1> DEFINE n == Len(events)
           P == {i \in DOMAIN events : events[i].ts >= cutoff}
           Q == {i \in DOMAIN events : events[i].ts < cutoff}
<1>1. events \in Seq(TrailRow) /\ n \in Nat /\ DOMAIN events = 1..n
  BY DEF RowsAreSound
<1>2. \A i \in 1..n : events[i].ts \in Nat
  <2>1. \A i \in 1..n : events[i] \in TrailRow
    BY <1>1
  <2> QED BY <2>1 DEF TrailRow
<1>3. \A i, j \in 1..n : i <= j => events[i].ts <= events[j].ts
  BY <1>1 DEF RowsAreSound
<1>4. \E m \in 0..n : P = (m + 1)..n /\ Q = 1..m
  <2>1. CASE P = {}
    <3>1. \A i \in 1..n : events[i].ts < cutoff
      BY <1>1, <1>2, <2>1
    <3>2. Q = 1..n /\ P = (n + 1)..n
      BY <1>1, <2>1, <3>1
    <3> QED BY <1>1, <3>2
  <2>2. CASE P # {}
    <3>1. PICK k \in P : \A i \in P : k <= i
      <4>1. P \subseteq Nat
        BY <1>1
      <4> HIDE DEF P
      <4> QED BY <2>2, <4>1, LeastMember
    <3>2. k \in 1..n /\ events[k].ts >= cutoff
      BY <1>1, <3>1
    <3>3. \A i \in 1..n : i >= k => events[i].ts >= cutoff
      BY <1>2, <1>3, <3>2
    <3>4. \A i \in 1..n : i < k => ~(events[i].ts >= cutoff)
      <4> SUFFICES ASSUME NEW i \in 1..n, i < k, events[i].ts >= cutoff  PROVE FALSE
        OBVIOUS
      <4>1. i \in P
        BY <1>1
      <4> QED BY <1>1, <3>1, <3>2, <4>1
    <3>5. P = k..n
      BY <1>1, <3>2, <3>3, <3>4
    <3>6. Q = 1..(k - 1)
      BY <1>1, <1>2, <3>2, <3>3, <3>4
    <3>7. k - 1 \in 0..n /\ (k - 1) + 1 = k
      BY <1>1, <3>2
    <3> QED BY <3>5, <3>6, <3>7
  <2> QED BY <2>1, <2>2
<1>5. PICK m \in 0..n : P = (m + 1)..n /\ Q = 1..m
  BY <1>4
<1>6. Old(cutoff) = SelectAt(events, 1..m) /\ Kept(cutoff) = SelectAt(events, (m + 1)..n)
  BY <1>5 DEF Old, Kept
<1> HIDE DEF P, Q
<1>7. m \in Nat /\ m <= n /\ 0 \in Nat /\ 0 <= m
  BY <1>1, <1>5
<1>8. SelectAt(events, (m + 1)..n) = SubSeq(events, m + 1, n)
  BY <1>1, <1>7, SelectedPart
<1>9. SelectAt(events, 1..m) = SubSeq(events, 1, m)
  <2>1. 0 + 1 = 1
    OBVIOUS
  <2> QED BY <1>1, <1>7, <2>1, SelectedPart
<1> QED BY <1>6, <1>8, <1>9

LEMMA UndamagedPart ==
  ASSUME NEW s \in Seq(TrailRow), NEW as, Undamaged(s, as), NEW m \in 0..Len(s)
  PROVE  Undamaged(SubSeq(s, m + 1, Len(s)), as \cup (IF m = 0 THEN {} ELSE {s[m].hash}))
<1> DEFINE q == SubSeq(s, m + 1, Len(s))
<1>1. Len(s) \in Nat /\ m \in Nat /\ DOMAIN s = 1..Len(s)
  OBVIOUS
<1>2. /\ q \in Seq(TrailRow) /\ Len(q) = Len(s) - m /\ DOMAIN q = 1..(Len(s) - m)
      /\ \A i \in 1..(Len(s) - m) : q[i] = s[i + m]
  BY PartRows
<1>3. \A i \in 1..(Len(s) - m) : i + m \in 1..Len(s)
  BY <1>1
<1> HIDE DEF q
<1>4. ASSUME NEW i \in DOMAIN q  PROVE q[i].data = "as written"
  <2>1. q[i] = s[i + m] /\ i + m \in DOMAIN s
    BY <1>1, <1>2, <1>3
  <2> QED BY <2>1 DEF Undamaged
<1>5. ASSUME NEW i \in DOMAIN q, i > 1  PROVE q[i].prev = q[i - 1].hash
  <2>1. i - 1 \in 1..(Len(s) - m) /\ i + m \in 1..Len(s) /\ i + m > 1 /\ (i - 1) + m = (i + m) - 1
    BY <1>1, <1>2, <1>5
  <2>2. s[i + m].prev = s[(i + m) - 1].hash
    BY <1>1, <2>1 DEF Undamaged
  <2> QED BY <1>2, <2>1, <2>2
<1>6. ASSUME q # <<>>  PROVE q[1].prev \in (as \cup (IF m = 0 THEN {} ELSE {s[m].hash})) \cup {<<>>}
  <2>1. 1 \in 1..(Len(s) - m)
    <3>1. Len(q) \in Nat /\ Len(q) # 0
      BY <1>2, <1>6
    <3>2. 1 \in 1..Len(q)
      BY <3>1
    <3> QED BY <1>2, <3>2
  <2>2. q[1] = s[1 + m]
    BY <1>2, <2>1
  <2>3. CASE m = 0
    <3>1. q[1] = s[1] /\ s # <<>>
      BY <1>1, <2>1, <2>2, <2>3
    <3> QED BY <2>3, <3>1 DEF Undamaged
  <2>4. CASE m # 0
    <3>1. 1 + m \in 1..Len(s) /\ 1 + m > 1 /\ (1 + m) - 1 = m
      BY <1>1, <2>1, <2>4
    <3>2. s[1 + m].prev = s[m].hash
      BY <1>1, <3>1 DEF Undamaged
    <3> QED BY <2>2, <2>4, <3>2
  <2> QED BY <2>3, <2>4
<1> QED BY <1>4, <1>5, <1>6 DEF Undamaged, q

\* What verify finds in sound rows: it accepts those nobody damaged, and what it accepts
\* is whole.
LEMMA LinkedIsExact ==
  ASSUME NEW s \in Seq(TrailRow), \A i \in DOMAIN s : SoundRow(s[i])
  PROVE  /\ Undamaged(s, anchors) => Linked(s)
         /\ Linked(s) => \A i \in DOMAIN s : /\ s[i].data = "as written"
                                             /\ i > 1 => s[i].seq = s[i - 1].seq + 1
<1>1. DOMAIN s = 1..Len(s) /\ Len(s) \in Nat /\ \A i \in 1..Len(s) : s[i] \in TrailRow
  OBVIOUS
<1>2. ASSUME Undamaged(s, anchors)  PROVE Linked(s)
  <2>1. ASSUME NEW i \in DOMAIN s
        PROVE  /\ i = 1 => s[1].prev \in anchors \cup {<<>>}
               /\ s[i].prev = IF i = 1 THEN s[1].prev ELSE s[i - 1].hash
               /\ s[i].hash = Append(s[i].prev, <<s[i].seq, s[i].ts, s[i].data>>)
    <3>0. s # <<>> /\ (i # 1 => i > 1)
      BY <1>1
    <3>1. i = 1 => s[1].prev \in anchors \cup {<<>>}
      BY <1>2, <3>0 DEF Undamaged
    <3>2. i # 1 => s[i].prev = s[i - 1].hash
      BY <1>2, <3>0 DEF Undamaged
    <3>3. s[i].data = "as written" /\ s[i].hash = Append(s[i].prev, <<s[i].seq, s[i].ts, "as written">>)
      BY <1>2 DEF Undamaged, SoundRow
    <3> QED BY <3>1, <3>2, <3>3
  <2> QED BY <2>1 DEF Linked, EventHash, Payload
<1>3. ASSUME Linked(s), NEW i \in DOMAIN s
      PROVE  s[i].data = "as written" /\ (i > 1 => s[i].seq = s[i - 1].seq + 1)
  <2>1. s[i] \in TrailRow /\ s[i].prev \in Seq(Payloads)
    BY <1>1 DEF TrailRow
  <2>2. s[i].hash = Append(s[i].prev, <<s[i].seq, s[i].ts, s[i].data>>)
    BY <1>3 DEF Linked, EventHash, Payload
  <2>3. s[i].hash = Append(s[i].prev, <<s[i].seq, s[i].ts, "as written">>)
    BY DEF SoundRow
  <2>4. <<s[i].seq, s[i].ts, s[i].data>> = <<s[i].seq, s[i].ts, "as written">>
    <3> DEFINE v == <<s[i].seq, s[i].ts, s[i].data>>
               w == <<s[i].seq, s[i].ts, "as written">>
               l == s[i].prev
    <3>1. Append(l, v) = Append(l, w) /\ l \in Seq(Payloads)
      BY <2>1, <2>2, <2>3
    <3> HIDE DEF v, w, l
    <3>2. v = w
      BY <3>1, LastOfAppend
    <3> QED BY <3>2 DEF v, w
  <2>5. s[i].data = "as written"
    BY <2>4
  <2>6. ASSUME i > 1  PROVE s[i].seq = s[i - 1].seq + 1
    <3>1. i - 1 \in DOMAIN s /\ s[i].prev = s[i - 1].hash
      BY <1>1, <1>3, <2>6 DEF Linked
    <3>2. s[i - 1].prev \in Seq(Payloads)
      <4>1. s[i - 1] \in TrailRow
        BY <1>1, <3>1
      <4> QED BY <4>1 DEF TrailRow
    <3>3. s[i - 1].hash = Append(s[i - 1].prev, <<s[i - 1].seq, s[i - 1].ts, "as written">>)
      BY <3>1 DEF SoundRow
    <3>4. /\ s[i].prev # <<>>
          /\ s[i].prev[Len(s[i].prev)] = <<s[i - 1].seq, s[i - 1].ts, "as written">>
      <4> DEFINE v == <<s[i - 1].seq, s[i - 1].ts, "as written">>
                 l == s[i - 1].prev
      <4>1. s[i].prev = Append(l, v) /\ l \in Seq(Payloads)
        BY <3>1, <3>2, <3>3
      <4> HIDE DEF v, l
      <4>2. Append(l, v) # <<>> /\ Append(l, v)[Len(Append(l, v))] = v
        BY <4>1, LastOfAppend
      <4> QED BY <4>1, <4>2 DEF v
    <3>5. s[i].prev[Len(s[i].prev)][1] + 1 = s[i].seq
      BY <3>4 DEF SoundRow
    <3>6. <<s[i - 1].seq, s[i - 1].ts, "as written">>[1] = s[i - 1].seq
      OBVIOUS
    <3> QED BY <3>4, <3>5, <3>6
  <2> QED BY <2>5, <2>6
<1> QED BY <1>2, <1>3

LEMMA RowAppended ==
  ASSUME NEW T, NEW s \in Seq(T), NEW v \in T, NEW q, q = Append(s, v)
  PROVE  /\ q \in Seq(T) /\ Len(q) = Len(s) + 1 /\ DOMAIN q = 1..(Len(s) + 1)
         /\ \A i \in 1..Len(s) : q[i] = s[i]
         /\ q[Len(s) + 1] = v
  OBVIOUS

LEMMA TrailAppends ==
  ASSUME RowsAreSound, NothingLost, AppendEvent
  PROVE  RowsAreSound' /\ NothingLost'
<1> DEFINE n == Len(events)
           l == IF events = <<>> THEN <<>> ELSE events[n].hash
           v == <<appended + 1, today, "as written">>
           r == [seq |-> appended + 1, ts |-> today, data |-> "as written", prev |-> l, hash |-> Append(l, v)]
<1>1. /\ events \in Seq(TrailRow) /\ n \in Nat /\ DOMAIN events = 1..n /\ appended \in Nat /\ today \in Nat
      /\ \A i \in 1..n : events[i] \in TrailRow
  BY DEF RowsAreSound
<1>2. appended' = appended + 1 /\ UNCHANGED <<anchors, archive, today, accidents>>
  BY DEF AppendEvent
<1>3. events' = Append(events, r)
  BY DEF AppendEvent, EventHash, Payload
<1>4. l \in Seq(Payloads)
  <2>1. events # <<>> => events[n] \in TrailRow
    BY <1>1
  <2>2. <<>> \in Seq(Payloads)
    OBVIOUS
  <2> QED BY <2>1, <2>2 DEF TrailRow
<1>5. v \in Payloads
  <2>1. appended + 1 \in Nat
    BY <1>1
  <2> QED BY <1>1, <2>1 DEF Payloads
<1>6. l # <<>> => l[Len(l)][1] = appended
  <2> SUFFICES ASSUME l # <<>>  PROVE l[Len(l)][1] = appended
    OBVIOUS
  <2>1. events # <<>> /\ n \in DOMAIN events /\ l = events[n].hash
    BY <1>1
  <2> DEFINE w == <<events[n].seq, events[n].ts, "as written">>
             k == events[n].prev
  <2>2. l = Append(k, w) /\ w[1] = appended
    BY <2>1 DEF RowsAreSound, SoundRow
  <2>3. k \in Seq(Payloads)
    <3>1. events[n] \in TrailRow
      BY <1>1, <2>1
    <3> QED BY <3>1 DEF TrailRow
  <2> HIDE DEF k, w, l
  <2>4. l[Len(l)] = w
    BY <2>2, <2>3, LastOfAppend
  <2> QED BY <2>2, <2>4
<1> HIDE DEF l
<1>7. r \in TrailRow /\ r.seq = appended + 1 /\ r.ts = today /\ r.data = "as written" /\ r.prev = l
  <2>1. Append(l, v) \in Seq(Payloads)
    <3> HIDE DEF v
    <3> QED BY <1>4, <1>5
  <2>2. appended + 1 \in Nat
    BY <1>1
  <2> QED BY <1>1, <1>4, <2>1, <2>2 DEF TrailRow
<1>8. SoundRow(r)
  BY <1>6 DEF SoundRow
<1> HIDE DEF v, r
<1>9. /\ events' \in Seq(TrailRow) /\ Len(events') = n + 1 /\ DOMAIN events' = 1..(n + 1)
      /\ \A i \in 1..n : events'[i] = events[i]
  <2>1. events \in Seq(TrailRow) /\ r \in TrailRow /\ events' = Append(events, r)
    BY <1>1, <1>3, <1>7
  <2> QED BY <2>1, RowAppended
<1>10. /\ events'[n + 1] = r /\ n + 1 \in DOMAIN events' /\ events' # <<>>
       /\ \A i \in DOMAIN events' : i # n + 1 => i \in 1..n
  <2>4. events \in Seq(TrailRow) /\ r \in TrailRow /\ events' = Append(events, r)
    BY <1>1, <1>3, <1>7
  <2>1. events'[n + 1] = r
    BY <2>4, RowAppended
  <2>2. n + 1 \in DOMAIN events' /\ \A i \in DOMAIN events' : i # n + 1 => i \in 1..n
    BY <1>1, <1>9
  <2>3. events' # <<>>
    BY <1>1, <1>9
  <2> QED BY <2>1, <2>2, <2>3
<1>11. \A i \in DOMAIN events' : SoundRow(events'[i])
  BY <1>1, <1>8, <1>9, <1>10 DEF RowsAreSound
<1>12. ASSUME NEW i \in DOMAIN events'  PROVE events'[i].ts <= today'
  <2>1. CASE i = n + 1
    <3>1. events'[i].ts = today /\ today' = today
      BY <1>2, <1>7, <1>10, <2>1
    <3> QED BY <1>1, <3>1
  <2>2. CASE i # n + 1
    BY <1>1, <1>2, <1>9, <1>10, <2>2 DEF RowsAreSound
  <2> QED BY <2>1, <2>2
<1>13. ASSUME NEW i \in DOMAIN events', NEW j \in DOMAIN events', i <= j
       PROVE  events'[i].ts <= events'[j].ts
  <2>1. CASE j = n + 1
    BY <1>2, <1>7, <1>10, <1>12, <2>1
  <2>2. CASE j # n + 1
    <3>1. i \in 1..n /\ j \in 1..n
      BY <1>1, <1>9, <1>10, <1>13, <2>2
    <3> QED BY <1>1, <1>9, <1>13, <3>1 DEF RowsAreSound
  <2> QED BY <2>1, <2>2
<1>14. accidents' = {} => Undamaged(events', anchors')
  <2> SUFFICES ASSUME accidents = {}  PROVE Undamaged(events', anchors)
    BY <1>2
  <2>1. Undamaged(events, anchors)
    BY DEF RowsAreSound
  <2>2. \A i \in DOMAIN events' : events'[i].data = "as written"
    BY <1>1, <1>7, <1>9, <1>10, <2>1 DEF Undamaged
  <2>3. ASSUME NEW i \in DOMAIN events', i > 1  PROVE events'[i].prev = events'[i - 1].hash
    <3>1. CASE i = n + 1
      <4>1. n \in 1..n /\ events # <<>> /\ i - 1 = n
        BY <1>1, <2>3, <3>1
      <4> QED BY <1>7, <1>9, <1>10, <3>1, <4>1 DEF l
    <3>2. CASE i # n + 1
      <4>1. i \in 1..n /\ i - 1 \in 1..n
        BY <1>1, <1>10, <2>3, <3>2
      <4> QED BY <1>1, <1>9, <2>1, <2>3, <4>1 DEF Undamaged
    <3> QED BY <3>1, <3>2
  <2>4. events'[1].prev \in anchors \cup {<<>>}
    <3>1. CASE events = <<>>
      <4>1. n + 1 = 1
        BY <3>1
      <4> QED BY <1>7, <1>10, <3>1, <4>1 DEF l
    <3>2. CASE events # <<>>
      <4>1. 1 \in 1..n
        BY <1>1, <3>2
      <4> QED BY <1>9, <2>1, <3>2, <4>1 DEF Undamaged
    <3> QED BY <3>1, <3>2
  <2> QED BY <2>2, <2>3, <2>4 DEF Undamaged
<1>15. NothingLost'
  <2> SUFFICES ASSUME NEW k \in 1..(appended + 1)
               PROVE  k \in Seqs(events') \cup archive \cup accidents
    BY <1>2 DEF NothingLost
  <2>1. \A i \in DOMAIN events' : events'[i].seq \in Seqs(events')
    BY DEF Seqs
  <2>2. CASE k = appended + 1
    BY <1>7, <1>10, <2>1, <2>2
  <2>3. CASE k # appended + 1
    <3>1. k \in 1..appended
      BY <1>1, <2>3
    <3>2. k \in Seqs(events) => k \in Seqs(events')
      BY <1>1, <1>9 DEF Seqs
    <3> QED BY <3>1, <3>2 DEF NothingLost
  <2> QED BY <2>2, <2>3
<1>16. appended' \in Nat /\ today' \in Nat /\ events'[Len(events')].seq = appended'
  <2>1. appended' \in Nat /\ today' \in Nat
    BY <1>1, <1>2
  <2>2. events'[Len(events')] = r
    BY <1>9, <1>10
  <2> QED BY <1>2, <1>7, <2>1, <2>2
<1> QED BY <1>9, <1>11, <1>12, <1>13, <1>14, <1>15, <1>16 DEF RowsAreSound

\* Rows go, but not the last one, and the order stays.
LEMMA RowsRemoved ==
  ASSUME RowsAreSound, UNCHANGED <<appended, today>>, events' \in Seq(TrailRow), NEW f,
         \A j \in DOMAIN events' : f[j] \in DOMAIN events /\ events'[j] = events[f[j]],
         \A j, k \in DOMAIN events' : j <= k => f[j] <= f[k],
         events' # <<>> => events # <<>> /\ f[Len(events')] = Len(events),
         accidents' = {} => Undamaged(events', anchors')
  PROVE  RowsAreSound'
<1>1. \A i \in DOMAIN events' : SoundRow(events'[i]) /\ events'[i].ts <= today'
  BY DEF RowsAreSound
<1>2. \A i, j \in DOMAIN events' : i <= j => events'[i].ts <= events'[j].ts
  BY DEF RowsAreSound
<1>3. ASSUME events' # <<>>  PROVE events'[Len(events')].seq = appended'
  <2>1. Len(events') \in DOMAIN events'
    BY <1>3
  <2> QED BY <1>3, <2>1 DEF RowsAreSound
<1>4. appended' \in Nat /\ today' \in Nat
  BY DEF RowsAreSound
<1> QED BY <1>1, <1>2, <1>3, <1>4 DEF RowsAreSound

LEMMA Remainder ==
  ASSUME NEW n \in Nat, NEW m \in Nat, m <= n, n - m # 0
  PROVE  n - m \in 1..(n - m) /\ n # 0 /\ (n - m) + m = n
  OBVIOUS

LEMMA TrailPruned ==
  ASSUME RowsAreSound, NothingLost, NEW cutoff \in Nat, NEW committed \in BOOLEAN, Prune(cutoff, committed)
  PROVE  RowsAreSound' /\ NothingLost'
<1> DEFINE n == Len(events)
<1>1. /\ events \in Seq(TrailRow) /\ n \in Nat /\ DOMAIN events = 1..n
      /\ UNCHANGED <<appended, today, accidents>> /\ Old(cutoff) # <<>>
      /\ archive' = archive \cup Seqs(Old(cutoff))
  BY DEF RowsAreSound, Prune
<1>2. CASE UNCHANGED <<events, anchors>>
  BY <1>1, <1>2 DEF RowsAreSound, NothingLost, Seqs
<1>3. CASE /\ events' = Kept(cutoff)
           /\ anchors' = anchors \cup {Old(cutoff)[Len(Old(cutoff))].hash}
  <2>1. PICK m \in 0..n : /\ Old(cutoff) = SubSeq(events, 1, m)
                          /\ Kept(cutoff) = SubSeq(events, m + 1, n)
    BY PruneSplits
  <2>2. m \in Nat /\ m <= n
    BY <1>1, <2>1
  <2>3. /\ Len(Old(cutoff)) = m /\ DOMAIN Old(cutoff) = 1..m
        /\ \A i \in 1..m : Old(cutoff)[i] = events[i]
    BY <1>1, <2>1, <2>2
  <2>4. /\ events' \in Seq(TrailRow) /\ Len(events') = n - m /\ DOMAIN events' = 1..(n - m)
        /\ \A i \in 1..(n - m) : events'[i] = events[i + m]
    <3>1. events' = SubSeq(events, m + 1, Len(events))
      BY <1>3, <2>1
    <3> QED BY <1>1, <2>1, <3>1, PartRows
  <2>5. m # 0 /\ Old(cutoff)[m] = events[m]
    <3>1. m = 0 => Old(cutoff) = <<>>
      BY <1>1, <2>1
    <3> QED BY <1>1, <2>2, <2>3, <3>1
  <2>6. accidents' = {} => Undamaged(events', anchors')
    <3> SUFFICES ASSUME accidents = {}  PROVE Undamaged(events', anchors')
      BY <1>1
    <3>1. Undamaged(events, anchors)
      BY DEF RowsAreSound
    <3>2. Undamaged(SubSeq(events, m + 1, n), anchors \cup (IF m = 0 THEN {} ELSE {events[m].hash}))
      BY <1>1, <2>1, <3>1, UndamagedPart
    <3> QED BY <1>3, <2>1, <2>3, <2>5, <3>2
  <2>7. RowsAreSound'
    <3> DEFINE f == [j \in 1..(n - m) |-> j + m]
    <3>1. \A j \in DOMAIN events' : f[j] \in DOMAIN events /\ events'[j] = events[f[j]]
      BY <1>1, <2>2, <2>4
    <3>2. \A j, k \in DOMAIN events' : j <= k => f[j] <= f[k]
      BY <1>1, <2>2, <2>4
    <3>3. events' # <<>> => events # <<>> /\ f[Len(events')] = Len(events)
      <4> SUFFICES ASSUME events' # <<>>  PROVE events # <<>> /\ f[Len(events')] = Len(events)
        OBVIOUS
      <4>1. Len(events') \in Nat /\ Len(events') # 0
        BY <2>4
      <4>2. n - m # 0
        BY <2>4, <4>1
      <4>5. n - m \in 1..(n - m) /\ n # 0 /\ (n - m) + m = n
        BY <1>1, <2>2, <4>2, Remainder
      <4>3. f[n - m] = n
        BY <4>5
      <4>4. events # <<>>
        BY <1>1, <4>5
      <4> QED BY <2>4, <4>3, <4>4
    <3> HIDE DEF f
    <3> QED BY <1>1, <2>4, <2>6, <3>1, <3>2, <3>3, RowsRemoved
  <2>8. Seqs(events) \subseteq Seqs(events') \cup Seqs(Old(cutoff))
    <3> SUFFICES ASSUME NEW i \in 1..n  PROVE events[i].seq \in Seqs(events') \cup Seqs(Old(cutoff))
      BY <1>1 DEF Seqs
    <3>1. CASE i <= m
      <4>1. i \in DOMAIN Old(cutoff) /\ Old(cutoff)[i] = events[i]
        BY <2>2, <2>3, <3>1
      <4> QED BY <4>1 DEF Seqs
    <3>2. CASE ~(i <= m)
      <4>1. i - m \in 1..(n - m) /\ (i - m) + m = i
        BY <1>1, <2>2, <3>2
      <4>2. i - m \in DOMAIN events' /\ events'[i - m] = events[i]
        BY <2>4, <4>1
      <4> QED BY <4>2 DEF Seqs
    <3> QED BY <3>1, <3>2
  <2>9. NothingLost'
    BY <1>1, <2>8 DEF NothingLost
  <2> QED BY <2>7, <2>9
<1> QED BY <1>2, <1>3 DEF Prune

LEMMA RowAltered ==
  ASSUME RowsAreSound, NothingLost, NEW i \in Nat, Alter(i)
  PROVE  RowsAreSound' /\ NothingLost'
<1> DEFINE r == [events[i] EXCEPT !.data = "altered"]
<1>1. /\ events \in Seq(TrailRow) /\ DOMAIN events = 1..Len(events) /\ i \in DOMAIN events
      /\ UNCHANGED <<appended, anchors, archive, today>> /\ accidents' = accidents \cup {events[i].seq}
      /\ events' = [events EXCEPT ![i] = r]
  BY DEF RowsAreSound, Alter
<1>2. /\ r \in TrailRow /\ r.seq = events[i].seq /\ r.ts = events[i].ts
      /\ r.prev = events[i].prev /\ r.hash = events[i].hash
  <2>1. events[i] \in TrailRow
    BY <1>1
  <2> QED BY <2>1 DEF TrailRow
<1> HIDE DEF r
<1>3. /\ events' \in Seq(TrailRow) /\ Len(events') = Len(events) /\ DOMAIN events' = DOMAIN events
      /\ \A j \in DOMAIN events : events'[j] = IF j = i THEN r ELSE events[j]
  BY <1>1, <1>2
<1>4. \A j \in DOMAIN events : /\ events'[j].seq = events[j].seq /\ events'[j].ts = events[j].ts
                               /\ events'[j].prev = events[j].prev /\ events'[j].hash = events[j].hash
  BY <1>2, <1>3
<1>5. \A j \in DOMAIN events' : SoundRow(events'[j])
  BY <1>3, <1>4 DEF RowsAreSound, SoundRow
<1>6. events' # <<>> => events'[Len(events')].seq = appended'
  <2> SUFFICES ASSUME events' # <<>>  PROVE events'[Len(events')].seq = appended'
    OBVIOUS
  <2>1. events # <<>> /\ Len(events) \in DOMAIN events
    BY <1>1, <1>3
  <2> QED BY <1>1, <1>3, <1>4, <2>1 DEF RowsAreSound
<1>7. /\ \A j \in DOMAIN events' : events'[j].ts <= today'
      /\ \A j, k \in DOMAIN events' : j <= k => events'[j].ts <= events'[k].ts
  BY <1>1, <1>3, <1>4 DEF RowsAreSound
<1>8. Seqs(events') = Seqs(events)
  BY <1>3, <1>4 DEF Seqs
<1>9. accidents' # {} /\ appended' \in Nat /\ today' \in Nat
  BY <1>1 DEF RowsAreSound
<1>10. NothingLost'
  BY <1>1, <1>8 DEF NothingLost
<1> QED BY <1>3, <1>5, <1>6, <1>7, <1>9, <1>10 DEF RowsAreSound

LEMMA RowLost ==
  ASSUME RowsAreSound, NothingLost, NEW i \in Nat, Lose(i)
  PROVE  RowsAreSound' /\ NothingLost'
<1> DEFINE n == Len(events)
           f == [j \in 1..(n - 1) |-> IF j < i THEN j ELSE j + 1]
<1>1. /\ events \in Seq(TrailRow) /\ n \in Nat /\ DOMAIN events = 1..n
      /\ UNCHANGED <<appended, anchors, archive, today>> /\ accidents' = accidents \cup {events[i].seq}
      /\ events' = SubSeq(events, 1, i - 1) \o SubSeq(events, i + 1, n) /\ i \in 1..(n - 1)
  BY DEF RowsAreSound, Lose
<1>2. /\ events' \in Seq(TrailRow) /\ Len(events') = n - 1 /\ DOMAIN events' = 1..(n - 1)
      /\ \A j \in 1..(n - 1) : f[j] \in 1..n /\ events'[j] = events[f[j]]
  BY <1>1, OneRowOut
<1>3. \A j, k \in 1..(n - 1) : j <= k => f[j] <= f[k]
  BY <1>1
<1>4. n # 0 /\ f[n - 1] = n
  <2>1. n # 0 /\ n - 1 \in 1..(n - 1) /\ ~(n - 1 < i) /\ (n - 1) + 1 = n
    BY <1>1
  <2> QED BY <2>1
<1>5. RowsAreSound'
  <2> HIDE DEF f
  <2>1. accidents' # {}
    BY <1>1
  <2>3. events # <<>>
    BY <1>1, <1>4
  <2> QED BY <1>1, <1>2, <1>3, <1>4, <2>1, <2>3, RowsRemoved
<1>6. ASSUME NEW k \in 1..n  PROVE events[k].seq \in Seqs(events') \cup {events[i].seq}
  <2>1. CASE k = i
    BY <2>1
  <2>2. CASE k < i
    <3>1. k \in 1..(n - 1) /\ f[k] = k
      BY <1>1, <2>2
    <3> QED BY <1>2, <3>1 DEF Seqs
  <2>3. CASE k > i
    <3>1. k - 1 \in 1..(n - 1) /\ f[k - 1] = k
      BY <1>1, <2>3
    <3> QED BY <1>2, <3>1 DEF Seqs
  <2> QED BY <1>1, <2>1, <2>2, <2>3
<1>7. Seqs(events) \subseteq Seqs(events') \cup {events[i].seq}
  BY <1>1, <1>6 DEF Seqs
<1>8. NothingLost'
  BY <1>1, <1>7 DEF NothingLost
<1> QED BY <1>5, <1>8

LEMMA NothingVerified == verifier = Idle => VerdictIsSound
<1> SUFFICES ASSUME verifier = Idle  PROVE VerdictIsSound
  OBVIOUS
<1>1. verifier.pc = "idle" /\ verifier.rows = <<>>
  BY DEF Idle
<1>2. verifier \in [pc : {"idle", "rows read", "done"}, rows : Seq(TrailRow), intact : BOOLEAN]
  <2>1. <<>> \in Seq(TrailRow)
    OBVIOUS
  <2> QED BY <2>1 DEF Idle
<1>3. DOMAIN verifier.rows = {}
  BY <1>1
<1> QED BY <1>1, <1>2, <1>3 DEF VerdictIsSound, NoFalseAlarm, DamageIsSeen

LEMMA TrailStep ==
  ASSUME RowsAreSound, NothingLost, [AuditNext]_auditVars
  PROVE  RowsAreSound' /\ NothingLost'
<1>1. CASE UNCHANGED <<events, appended, anchors, archive, accidents>> /\ today' \in Nat /\ today <= today'
  <2>1. /\ events' = events /\ appended' = appended /\ anchors' = anchors
        /\ archive' = archive /\ accidents' = accidents
    BY <1>1
  <2>2. \A i \in DOMAIN events : events[i].ts <= today'
    <3> TAKE i \in DOMAIN events
    <3>1. events \in Seq(TrailRow)
      BY DEF RowsAreSound
    <3>2. events[i] \in TrailRow
      BY <3>1
    <3>3. events[i].ts \in Nat
      BY <3>2 DEF TrailRow
    <3>4. events[i].ts <= today /\ today \in Nat
      BY DEF RowsAreSound
    <3> QED BY <1>1, <3>3, <3>4
  <2>3. NothingLost'
    BY <2>1 DEF NothingLost, Seqs
  <2> QED BY <1>1, <2>1, <2>2, <2>3 DEF RowsAreSound
<1>2. today \in Nat
  BY DEF RowsAreSound
<1>3. CASE UNCHANGED auditVars \/ ReadRows \/ ReadAnchors \/ VerifyAgain
  <2>1. UNCHANGED <<events, appended, anchors, archive, accidents, today>>
    BY <1>3 DEF auditVars, ReadRows, ReadAnchors, VerifyAgain
  <2>2. today' \in Nat /\ today <= today'
    BY <1>2, <2>1
  <2> QED BY <1>1, <2>1, <2>2
<1>4. CASE NextDay
  <2>1. UNCHANGED <<events, appended, anchors, archive, accidents>> /\ today' = today + 1
    BY <1>4 DEF NextDay
  <2>2. today' \in Nat /\ today <= today'
    BY <1>2, <2>1
  <2> QED BY <1>1, <2>1, <2>2
<1>5. ASSUME NEW cutoff \in 1..DayBound, NEW committed \in BOOLEAN, Prune(cutoff, committed)
      PROVE  RowsAreSound' /\ NothingLost'
  <2>1. cutoff \in Nat
    BY AuditAssumption
  <2> QED BY <1>5, <2>1, TrailPruned
<1>6. ASSUME NEW i \in 1..EventBound, Alter(i) \/ Lose(i)
      PROVE  RowsAreSound' /\ NothingLost'
  <2>1. i \in Nat
    BY AuditAssumption
  <2> QED BY <1>6, <2>1, RowAltered, RowLost
<1> QED BY <1>3, <1>4, <1>5, <1>6, TrailAppends DEF AuditNext

\* The accidents and the anchors stay on record.
LEMMA VerdictStep ==
  ASSUME RowsAreSound, VerdictIsSound, [AuditNext]_auditVars
  PROVE  VerdictIsSound'
<1>1. anchors \subseteq anchors' /\ accidents \subseteq accidents'
  BY DEF AuditNext, auditVars, AppendEvent, Prune, ReadRows, ReadAnchors, VerifyAgain, NextDay, Alter, Lose
<1>2. verifier \in [pc : {"idle", "rows read", "done"}, rows : Seq(TrailRow), intact : BOOLEAN]
  BY DEF VerdictIsSound
<1>3. CASE UNCHANGED verifier
  <2>1. \A rows : Undamaged(rows, anchors) => Undamaged(rows, anchors')
    BY <1>1 DEF Undamaged
  <2>2. accidents' = {} => accidents = {}
    BY <1>1
  <2> QED BY <1>3, <2>1, <2>2 DEF VerdictIsSound, NoFalseAlarm, DamageIsSeen
<1>4. CASE ReadRows
  <2>1. /\ verifier' = [pc |-> "rows read", rows |-> events, intact |-> TRUE]
        /\ UNCHANGED <<events, anchors, accidents>>
    BY <1>4 DEF ReadRows
  <2>2. verifier' \in [pc : {"idle", "rows read", "done"}, rows : Seq(TrailRow), intact : BOOLEAN]
    BY <2>1 DEF RowsAreSound
  <2>3. verifier'.pc = "rows read" /\ verifier'.rows = events
    BY <2>1
  <2>4. NoFalseAlarm' /\ DamageIsSeen'
    BY <2>3 DEF NoFalseAlarm, DamageIsSeen
  <2> QED BY <2>1, <2>2, <2>3, <2>4 DEF RowsAreSound, VerdictIsSound
<1>5. CASE ReadAnchors
  <2> DEFINE q == verifier.rows
  <2>1. /\ q \in Seq(TrailRow) /\ \A i \in DOMAIN q : SoundRow(q[i])
        /\ accidents = {} => Undamaged(q, anchors)
    BY <1>2, <1>5 DEF VerdictIsSound, ReadAnchors
  <2>2. verifier' = [verifier EXCEPT !.pc = "done", !.intact = Linked(q)] /\ UNCHANGED <<anchors, accidents>>
    BY <1>5 DEF ReadAnchors
  <2>3. Linked(q) \in BOOLEAN
    BY DEF Linked
  <2>4. /\ verifier' \in [pc : {"idle", "rows read", "done"}, rows : Seq(TrailRow), intact : BOOLEAN]
        /\ verifier'.pc = "done" /\ verifier'.rows = q /\ verifier'.intact = Linked(q)
    BY <1>2, <2>2, <2>3
  <2> HIDE DEF q
  <2>5. /\ Undamaged(q, anchors) => Linked(q)
        /\ Linked(q) => \A i \in DOMAIN q : /\ q[i].data = "as written"
                                            /\ i > 1 => q[i].seq = q[i - 1].seq + 1
    BY <2>1, LinkedIsExact
  <2>6. NoFalseAlarm'
    BY <2>1, <2>2, <2>4, <2>5 DEF NoFalseAlarm
  <2>7. DamageIsSeen'
    <3>1. verifier'.intact => Linked(q)
      BY <2>4
    <3>2. verifier'.rows = q
      BY <2>4
    <3> SUFFICES ASSUME verifier'.intact, NEW i \in DOMAIN verifier'.rows
                 PROVE  /\ verifier'.rows[i].data = "as written"
                        /\ i > 1 => verifier'.rows[i].seq = verifier'.rows[i - 1].seq + 1
      BY DEF DamageIsSeen
    <3>3. Linked(q) /\ i \in DOMAIN q
      BY <3>1, <3>2
    <3>5. \A j \in DOMAIN q : q[j].data = "as written" /\ (j > 1 => q[j].seq = q[j - 1].seq + 1)
      BY <2>5, <3>3
    <3>4. q[i].data = "as written" /\ (i > 1 => q[i].seq = q[i - 1].seq + 1)
      BY <3>3, <3>5
    <3> QED BY <3>2, <3>4
  <2> QED BY <2>1, <2>4, <2>6, <2>7 DEF VerdictIsSound
<1>6. CASE VerifyAgain
  <2>1. verifier' = Idle
    BY <1>6 DEF VerifyAgain
  <2>2. (verifier = Idle)' => VerdictIsSound'
    BY NothingVerified, PTL
  <2> QED BY <2>1, <2>2
<1> QED BY <1>3, <1>4, <1>5, <1>6
        DEF AuditNext, auditVars, AppendEvent, Prune, NextDay, Alter, Lose

LEMMA TrailBegins == AuditInit => AuditInv
<1> SUFFICES ASSUME AuditInit  PROVE AuditInv
  OBVIOUS
<1>1. /\ events = <<>> /\ appended = 0 /\ anchors = {} /\ archive = {} /\ accidents = {}
      /\ today = 0 /\ verifier = Idle
  BY DEF AuditInit
<1>2. events \in Seq(TrailRow) /\ DOMAIN events = {}
  BY <1>1
<1>3. RowsAreSound
  BY <1>1, <1>2 DEF RowsAreSound, Undamaged
<1>4. NothingLost
  BY <1>1 DEF NothingLost
<1> QED BY <1>1, <1>3, <1>4, NothingVerified DEF AuditInv

\* The audit trail, whatever is appended, pruned, damaged and verified in whatever order:
\* verify raises no false alarm, accepts nothing altered or with a gap, and no event is lost
\* by pruning (AuditStore.append, prune and verify, tenants/audit.py).
THEOREM TrailStaysSound == Spec => []TrailIsSound
<1>1. Init => AuditInv
  BY TrailBegins DEF Init
<1>2. AuditInv /\ [Next]_vars => AuditInv'
  BY ServiceSteps, TrailStep, VerdictStep DEF AuditInv
<1>3. AuditInv => TrailIsSound
  BY DEF AuditInv, VerdictIsSound, TrailIsSound
<1> QED BY <1>1, <1>2, <1>3, PTL DEF Spec

-----------------------------------------------------------------------------
(* An evaluation case.                                                     *)

CallRecord == [tries : 0..WireRetries, parses : 0..ParseRetries, last : Failures \cup {"none", "answer"}]
CoderRecord == [pc : {"idle", "ask", "edit", "succeeded", "failed"}, repairs : 0..RepairRetries, edited : BOOLEAN,
                error : {"none", "LLMError", "LLMBlocked", "PlanParseError", "RetryExhausted", "exception"}]
CaseRecord == [pc : {"new", "coder", "verify", "done"}, repo : BOOLEAN, available : BOOLEAN, kept : BOOLEAN,
               class : {"none", "PASS", "FAIL_TOOLING", "FAIL_CORRECTNESS", "BLOCKED_EXTERNAL"}]

\* The error of a model call is that of a coder that has failed; a case that is verified
\* raised nothing, and when the case is over its coder is as well.
EvalInv ==
  /\ call \in CallRecord /\ coder \in CoderRecord /\ bench \in CaseRecord
  /\ coder.error = "LLMError" => coder.pc = "failed"
  /\ bench.pc = "new" => coder.pc = "idle"
  /\ bench.pc = "verify" => coder.pc \in {"succeeded", "failed"} /\ Raised = "nothing"
  /\ bench.pc = "done" => coder.pc \notin {"ask", "edit"} /\ OutagesAreExternal

\* The coder goes on.
LEMMA CoderMoves ==
  ASSUME EvalInv, bench.pc = "coder", bench' = bench, call' \in CallRecord, coder' \in CoderRecord,
         coder'.error = "LLMError" => coder'.pc = "failed"
  PROVE  EvalInv'
  BY DEF EvalInv

\* What the steps of the coder make of the two records.
LEMMA CallFields ==
  ASSUME NEW q \in CallRecord, NEW k \in Failures
  PROVE  /\ [q EXCEPT !.last = k] \in CallRecord
         /\ q.tries < WireRetries => [q EXCEPT !.last = k, !.tries = q.tries + 1] \in CallRecord
         /\ [NoCall EXCEPT !.last = "answer"] \in CallRecord
         /\ q.parses < ParseRetries =>
              [NoCall EXCEPT !.last = "answer", !.parses = q.parses + 1] \in CallRecord
<1> USE EvalAssumption
<1>1. q.tries \in 0..WireRetries /\ q.parses \in 0..ParseRetries /\ 0 \in 0..WireRetries /\ 0 \in 0..ParseRetries
  BY DEF CallRecord
<1>2. q.tries < WireRetries => q.tries + 1 \in 0..WireRetries
  BY <1>1
<1>3. q.parses < ParseRetries => q.parses + 1 \in 0..ParseRetries
  BY <1>1
<1> QED BY <1>1, <1>2, <1>3 DEF CallRecord, NoCall

LEMMA CoderFields ==
  ASSUME NEW q \in CoderRecord
  PROVE  /\ \A e \in {"LLMError", "LLMBlocked", "PlanParseError", "RetryExhausted", "exception"} :
              /\ [q EXCEPT !.pc = "failed", !.error = e] \in CoderRecord
              /\ [q EXCEPT !.pc = "failed", !.error = e].pc = "failed"
         /\ \A st \in {"ask", "edit"} : /\ [q EXCEPT !.pc = st] \in CoderRecord
                                       /\ [q EXCEPT !.pc = st].error = q.error
         /\ q.repairs < RepairRetries =>
              /\ [q EXCEPT !.pc = "ask", !.repairs = q.repairs + 1] \in CoderRecord
              /\ [q EXCEPT !.pc = "ask", !.repairs = q.repairs + 1].error = q.error
<1>1. q.repairs < RepairRetries => q.repairs + 1 \in 0..RepairRetries
  BY EvalAssumption DEF CoderRecord
<1> QED BY <1>1 DEF CoderRecord

LEMMA EvalStep == EvalInv /\ [EvalNext]_evalVars => EvalInv'
<1> SUFFICES ASSUME EvalInv, [EvalNext]_evalVars  PROVE EvalInv'
  OBVIOUS
<1> USE EvalAssumption
<1>1. ASSUME UNCHANGED evalVars  PROVE EvalInv'
  BY <1>1 DEF EvalInv, CallRecord, CoderRecord, CaseRecord, evalVars, OutagesAreExternal, Raised, LooksMalformed, LooksLikeOutage
<1>2. ASSUME CreateCheckout  PROVE EvalInv'
  BY <1>2 DEF EvalInv, CallRecord, CoderRecord, CaseRecord, CreateCheckout, OutagesAreExternal, Raised, LooksMalformed, LooksLikeOutage
<1>3. ASSUME NEW left \in BOOLEAN, CreateFails(left)  PROVE EvalInv'
  BY <1>3 DEF EvalInv, CallRecord, CoderRecord, CaseRecord, CreateFails, OutagesAreExternal, Raised, LooksMalformed, LooksLikeOutage
<1>4. ASSUME NEW kind \in Failures, AttemptFails(kind)  PROVE EvalInv'
  <2>1. /\ bench.pc = "coder" /\ bench' = bench
        /\ call \in CallRecord /\ coder \in CoderRecord /\ coder.error # "LLMError"
    BY <1>4 DEF EvalInv, CaseRecord, AttemptFails
  <2>2. call' \in CallRecord
    BY <1>4, <2>1, CallFields DEF AttemptFails
  <2>3. coder' \in CoderRecord /\ (coder'.error = "LLMError" => coder'.pc = "failed")
    BY <1>4, <2>1, CoderFields DEF AttemptFails
  <2> QED BY <2>1, <2>2, <2>3, CoderMoves
<1>5. ASSUME NEW blocked \in BOOLEAN, PlanArrives(blocked)  PROVE EvalInv'
  <2>1. /\ bench.pc = "coder" /\ bench' = bench
        /\ call \in CallRecord /\ coder \in CoderRecord /\ coder.error # "LLMError"
    BY <1>5 DEF EvalInv, CaseRecord, PlanArrives
  <2>2. call' \in CallRecord
    BY <1>5, <2>1, CallFields DEF PlanArrives, Failures
  <2>3. coder' \in CoderRecord /\ (coder'.error = "LLMError" => coder'.pc = "failed")
    BY <1>5, <2>1, CoderFields DEF PlanArrives
  <2> QED BY <2>1, <2>2, <2>3, CoderMoves
<1>6. ASSUME PlanUnparseable  PROVE EvalInv'
  <2>1. /\ bench.pc = "coder" /\ bench' = bench
        /\ call \in CallRecord /\ coder \in CoderRecord /\ coder.error # "LLMError"
    BY <1>6 DEF EvalInv, CaseRecord, PlanUnparseable
  <2>2. call' \in CallRecord
    BY <1>6, <2>1, CallFields DEF PlanUnparseable, Failures
  <2>3. coder' \in CoderRecord /\ (coder'.error = "LLMError" => coder'.pc = "failed")
    <3>1. CASE call.parses < ParseRetries
      BY <1>6, <2>1, <3>1 DEF PlanUnparseable
    <3>2. CASE ~(call.parses < ParseRetries)
      <4>1. coder' = [coder EXCEPT !.pc = "failed", !.error = "PlanParseError"]
        BY <1>6, <3>2 DEF PlanUnparseable
      <4> QED BY <2>1, <4>1, CoderFields
    <3> QED BY <3>1, <3>2
  <2> QED BY <2>1, <2>2, <2>3, CoderMoves
<1>7. ASSUME ChangePasses  PROVE EvalInv'
  BY <1>7 DEF EvalInv, CallRecord, CoderRecord, CaseRecord, ChangePasses, OutagesAreExternal, Raised, LooksMalformed, LooksLikeOutage
<1>8. ASSUME ChangeFails  PROVE EvalInv'
  <2>1. /\ bench.pc = "coder" /\ bench' = bench
        /\ call \in CallRecord /\ coder \in CoderRecord /\ coder.error # "LLMError"
    BY <1>8 DEF EvalInv, CaseRecord, ChangeFails
  <2>2. call' \in CallRecord
    BY <1>8, <2>1, CallFields DEF ChangeFails
  <2>3. coder' \in CoderRecord /\ (coder'.error = "LLMError" => coder'.pc = "failed")
    BY <1>8, <2>1, CoderFields DEF ChangeFails
  <2> QED BY <2>1, <2>2, <2>3, CoderMoves
<1>9. ASSUME CoderReturns  PROVE EvalInv'
  BY <1>9 DEF EvalInv, CallRecord, CoderRecord, CaseRecord, CoderReturns, OutagesAreExternal, Raised, LooksMalformed, LooksLikeOutage
<1>10. ASSUME NEW copied \in BOOLEAN, NEW removed \in BOOLEAN, RecordOutage(copied, removed)  PROVE EvalInv'
  BY <1>10 DEF EvalInv, CallRecord, CoderRecord, CaseRecord, RecordOutage, Conclude, OutagesAreExternal, Raised, LooksMalformed, LooksLikeOutage
<1>11. ASSUME NEW copied \in BOOLEAN, NEW removed \in BOOLEAN, RecordMalformed(copied, removed)  PROVE EvalInv'
  BY <1>11 DEF EvalInv, CallRecord, CoderRecord, CaseRecord, RecordMalformed, Conclude, OutagesAreExternal, Raised, LooksMalformed,
               LooksLikeOutage, Outages, Transient
<1>12. ASSUME NEW copied \in BOOLEAN, NEW removed \in BOOLEAN, HarnessFails(copied, removed)  PROVE EvalInv'
  BY <1>12 DEF EvalInv, CallRecord, CoderRecord, CaseRecord, HarnessFails, Conclude, OutagesAreExternal, Raised, LooksMalformed, LooksLikeOutage
<1>13. ASSUME NEW copied \in BOOLEAN, NEW removed \in BOOLEAN, NEW tests \in BOOLEAN,
              VerifyAndScore(tests, copied, removed)
       PROVE  EvalInv'
  BY <1>13 DEF EvalInv, CallRecord, CoderRecord, CaseRecord, VerifyAndScore, Conclude, Score, PatchFound, OutagesAreExternal, Raised,
               LooksMalformed, LooksLikeOutage
<1> QED BY <1>1, <1>2, <1>3, <1>4, <1>5, <1>6, <1>7, <1>8, <1>9, <1>10, <1>11, <1>12, <1>13 DEF EvalNext
-----------------------------------------------------------------------------
(* A call of the model.                                                    *)

StyleSet == {Styles[i] : i \in DOMAIN Styles}
RouteNames == RouteSet \cup {Fallbacks[i] : i \in DOMAIN Fallbacks} \cup StyleSet
TryRecord == [style : StyleSet, route : RouteNames, end : {"text", "transient", "fatal"}]

\* The attempts t of a style: given up for a reason, repeated for one, along the chain c.
GaveUp(t) == t = <<>> \/ Len(t) = Retries + 1 \/ t[Len(t)].end = "fatal"
Retried(t) == \A i \in 1..(Len(t) - 1) : t[i].end = "transient"
OnChain(t, d, c) == (t # <<>> => d # <<>>) /\ \A i \in 1..Len(t) : t[i].route = RouteOf(c, i)

\* Of the j-th style, when the h-th is in turn after n attempts and the answer is a.
StyleSound(t, j, h, n, a) ==
  /\ j > h => t = <<>>
  /\ j = h /\ a = "none" => Len(t) = n /\ \A i \in 1..Len(t) : t[i].end = "transient"
  /\ j < h \/ a = "LLMError" => GaveUp(t)
  /\ Retried(t)

ChatTyped ==
  /\ hop \in DOMAIN Styles /\ attempt \in 0..Retries /\ probing \in 0..Len(Routes) /\ down \subseteq RouteSet
  /\ default = <<>> \/ \E r \in RouteSet : default = <<r>>
  /\ log \in Seq(TryRecord) /\ answer \in {"none", "text", "LLMError"}

\* The routes of one call are settled before its first attempt, and stay.
ChatInv ==
  /\ ChatTyped
  /\ probing # 0 => Style = "9router" /\ default = <<>> /\ answer = "none"
  /\ \A j \in DOMAIN Styles :
       /\ StyleSound(TriesOf(Styles[j]), j, hop, attempt, answer)
       /\ Styles[j] = "9router" => OnChain(TriesOf(Styles[j]), default, Chain)

LEMMA StylesAreListed ==
  /\ Len(Styles) \in Nat /\ DOMAIN Styles = 1..Len(Styles) /\ Len(Styles) >= 1 /\ Retries \in Nat
  /\ Len(Routes) \in Nat /\ Len(Routes) >= 1 /\ DOMAIN Routes = 1..Len(Routes)
  /\ \A i, j \in DOMAIN Styles : Styles[i] = Styles[j] => i = j
<1>1. Styles \in Seq({Styles[i] : i \in DOMAIN Styles}) /\ Routes \in Seq({Routes[i] : i \in DOMAIN Routes})
  BY ChatAssumption DEF Distinct
<1> QED BY <1>1, ChatAssumption DEF Distinct

LEMMA TriesGrow ==
  ASSUME log \in Seq(TryRecord), NEW e \in TryRecord, log' = Append(log, e)
  PROVE  /\ log' \in Seq(TryRecord)
         /\ \A s \in StyleSet : /\ TriesOf(s) \in Seq(TryRecord)
                               /\ TriesOf(s)' = IF e.style = s THEN Append(TriesOf(s), e) ELSE TriesOf(s)
<1>1. log' \in Seq(TryRecord) /\ Len(log) \in Nat /\ Len(log') = Len(log) + 1 /\ DOMAIN log = 1..Len(log)
  OBVIOUS
<1>2. DOMAIN log' = 1..(Len(log) + 1) /\ (\A i \in 1..Len(log) : log'[i] = log[i]) /\ log'[Len(log) + 1] = e
  OBVIOUS
<1>3. ASSUME NEW s \in StyleSet
      PROVE  /\ TriesOf(s) \in Seq(TryRecord)
             /\ TriesOf(s)' = IF e.style = s THEN Append(TriesOf(s), e) ELSE TriesOf(s)
  <2> DEFINE P == {i \in DOMAIN log : log[i].style = s}
             R == {i \in DOMAIN log' : log'[i].style = s}
  <2>1. P \in SUBSET (1..Len(log))
    BY <1>1
  <2>2. R = IF e.style = s THEN P \cup {Len(log) + 1} ELSE P
    BY <1>1, <1>2
  <2>3. TriesOf(s) = SelectAt(log, P) /\ TriesOf(s)' = SelectAt(log', R)
    BY DEF TriesOf
  <2> HIDE DEF P, R
  <2>4. SelectAt(log, P) \in Seq(TryRecord)
    BY <2>1, Selected
  <2>5. /\ SelectAt(Append(log, e), P) = SelectAt(log, P)
        /\ SelectAt(Append(log, e), P \cup {Len(log) + 1}) = Append(SelectAt(log, P), e)
    BY <2>1, SelectionGrows
  <2> QED BY <2>2, <2>3, <2>4, <2>5
<1> QED BY <1>1, <1>3

LEMMA SameTries ==
  ASSUME log \in Seq(TryRecord), UNCHANGED log
  PROVE  \A s \in StyleSet : TriesOf(s) \in Seq(TryRecord) /\ TriesOf(s)' = TriesOf(s)
<1> TAKE s \in StyleSet
<1>1. {i \in DOMAIN log : log[i].style = s} \in SUBSET (1..Len(log))
  OBVIOUS
<1> QED BY <1>1, Selected DEF TriesOf

\* The chain has no route twice, and has one as soon as the default is known.
LEMMA ChainSound ==
  ASSUME ChatTyped
  PROVE  /\ Chain \in Seq(RouteNames)
         /\ \A i, k \in 1..Len(Chain) : Chain[i] = Chain[k] => i = k
         /\ default # <<>> => \A n \in Nat \ {0} : RouteOf(Chain, n) \in RouteNames
<1> DEFINE P == {i \in DOMAIN Fallbacks : <<Fallbacks[i]>> # default}
           F == {Fallbacks[i] : i \in DOMAIN Fallbacks}
           rest == SelectAt(Fallbacks, P)
<1>1. Fallbacks \in Seq(F) /\ \A i, k \in DOMAIN Fallbacks : Fallbacks[i] = Fallbacks[k] => i = k
  BY ChatAssumption DEF Distinct
<1>2. P \in SUBSET (1..Len(Fallbacks)) /\ \A i \in P : <<Fallbacks[i]>> # default
  BY <1>1
<1>3. F \subseteq RouteNames /\ RouteSet \subseteq RouteNames
  BY DEF RouteNames
<1>4. Chain = default \o rest
  BY DEF Chain
<1> HIDE DEF P, F
<1>5. /\ rest \in Seq(F) /\ Len(rest) \in Nat
      /\ \A k \in 1..Len(rest) : NthOf(P, k) \in P /\ rest[k] = Fallbacks[NthOf(P, k)]
      /\ \A k, l \in 1..Len(rest) : k < l => NthOf(P, k) < NthOf(P, l)
  BY <1>1, <1>2, Selected
<1> HIDE DEF rest
<1>6. \A k, l \in 1..Len(rest) : rest[k] = rest[l] => k = l
  <2> SUFFICES ASSUME NEW k \in 1..Len(rest), NEW l \in 1..Len(rest), rest[k] = rest[l]  PROVE k = l
    OBVIOUS
  <2>1. NthOf(P, k) = NthOf(P, l)
    BY <1>1, <1>2, <1>5
  <2>2. NthOf(P, k) \in Nat /\ NthOf(P, l) \in Nat
    BY <1>2, <1>5
  <2>3. k \in Nat /\ l \in Nat /\ ~(k < l) /\ ~(l < k)
    BY <1>5, <2>1, <2>2
  <2> QED BY <2>3
<1>7. \A k \in 1..Len(rest) : <<rest[k]>> # default
  BY <1>2, <1>5
<1>8. CASE default = <<>>
  <2>1. <<>> \o rest = rest /\ rest \in Seq(RouteNames)
    BY <1>3, <1>5
  <2> QED BY <1>4, <1>6, <1>8, <2>1
<1>9. CASE \E r \in RouteSet : default = <<r>>
  <2>1. PICK r \in RouteSet : default = <<r>>
    BY <1>9
  <2>2. r \in RouteNames /\ rest \in Seq(RouteNames)
    BY <1>3, <1>5
  <2>3. /\ <<r>> \o rest \in Seq(RouteNames) /\ Len(<<r>> \o rest) = Len(rest) + 1
        /\ (<<r>> \o rest)[1] = r /\ \A k \in 1..Len(rest) : (<<r>> \o rest)[k + 1] = rest[k]
    BY <1>5, <2>2
  <2>4. \A k \in 1..Len(rest) : rest[k] # r
    BY <1>7, <2>1
  <2>5. Chain = <<r>> \o rest
    BY <1>4, <2>1
  <2>6. ASSUME NEW i \in 1..Len(Chain), NEW k \in 1..Len(Chain), Chain[i] = Chain[k]  PROVE i = k
    <3>1. i = 1 \/ (i - 1 \in 1..Len(rest) /\ (i - 1) + 1 = i)
      BY <1>5, <2>3, <2>5
    <3>2. k = 1 \/ (k - 1 \in 1..Len(rest) /\ (k - 1) + 1 = k)
      BY <1>5, <2>3, <2>5
    <3>3. i # 1 => Chain[i] = rest[i - 1] /\ rest[i - 1] # r
      BY <2>3, <2>4, <2>5, <3>1
    <3>4. k # 1 => Chain[k] = rest[k - 1] /\ rest[k - 1] # r
      BY <2>3, <2>4, <2>5, <3>2
    <3>5. CASE i # 1 /\ k # 1
      <4>1. i - 1 = k - 1
        BY <1>6, <2>6, <3>1, <3>2, <3>3, <3>4, <3>5
      <4> QED BY <3>1, <3>2, <4>1
    <3>6. CASE i = 1 \/ k = 1
      BY <2>3, <2>5, <2>6, <3>3, <3>4, <3>6
    <3> QED BY <3>5, <3>6
  <2>7. ASSUME NEW n \in Nat \ {0}  PROVE RouteOf(Chain, n) \in RouteNames
    <3>1. Chain \in Seq(RouteNames) /\ Len(Chain) \in Nat /\ Len(Chain) >= 1
      BY <1>5, <2>3, <2>5
    <3>2. n <= Len(Chain) => n \in 1..Len(Chain)
      BY <3>1
    <3>3. Len(Chain) \in 1..Len(Chain)
      BY <3>1
    <3> QED BY <3>1, <3>2, <3>3 DEF RouteOf
  <2> QED BY <2>3, <2>5, <2>6, <2>7
<1> QED BY <1>8, <1>9 DEF ChatTyped

\* The style in turn has failed for good, and the next one begins or none is left.
LEMMA NextStyleKeeps ==
  ASSUME ChatInv, answer = "none", NextStyle, UNCHANGED <<default, down>>, probing' = 0,
         NEW h \in DOMAIN Styles, h = hop,
         log' \in Seq(TryRecord), GaveUp(TriesOf(Styles[h])'), Retried(TriesOf(Styles[h])'),
         Style = "9router" => OnChain(TriesOf(Styles[h])', default, Chain),
         \A j \in DOMAIN Styles : j # h => TriesOf(Styles[j])' = TriesOf(Styles[j])
  PROVE  ChatInv'
<1>1. ChatTyped /\ Style = Styles[hop] /\ hop \in 1..Len(Styles) /\ 0 \in 0..Retries /\ 0 \in 0..Len(Routes)
  BY StylesAreListed DEF ChatInv, ChatTyped, Style
<1>2. Chain' = Chain /\ (probing' # 0 => FALSE)
  BY DEF Chain
<1>3. CASE hop < Len(Styles)
  <2>1. hop' = hop + 1 /\ attempt' = 0 /\ answer' = "none" /\ hop + 1 \in DOMAIN Styles
    BY <1>1, <1>3, StylesAreListed DEF NextStyle
  <2>2. ChatTyped'
    BY <1>1, <2>1 DEF ChatTyped
  <2>3. ASSUME NEW j \in DOMAIN Styles
        PROVE  /\ StyleSound(TriesOf(Styles[j])', j, hop + 1, 0, "none")
               /\ Styles[j] = "9router" => OnChain(TriesOf(Styles[j])', default, Chain)
    <3>1. CASE j = hop
      BY <1>1, <3>1 DEF StyleSound
    <3>2. CASE j # hop
      <4>1. j \in Nat /\ hop \in Nat
        BY <1>1, StylesAreListed
      <4>2. /\ StyleSound(TriesOf(Styles[j]), j, hop, attempt, "none")
            /\ Styles[j] = "9router" => OnChain(TriesOf(Styles[j]), default, Chain)
        BY DEF ChatInv
      <4>3. Len(<<>>) = 0
        OBVIOUS
      <4> QED BY <3>2, <4>1, <4>2, <4>3 DEF StyleSound
    <3> QED BY <3>1, <3>2
  <2> QED BY <1>2, <2>1, <2>2, <2>3 DEF ChatInv
<1>4. CASE ~(hop < Len(Styles))
  <2>1. hop' = hop /\ attempt' = attempt /\ answer' = "LLMError" /\ \A j \in DOMAIN Styles : j <= hop
    BY <1>1, <1>4, StylesAreListed DEF NextStyle
  <2>2. ChatTyped'
    BY <1>1, <2>1 DEF ChatTyped
  <2>3. ASSUME NEW j \in DOMAIN Styles
        PROVE  /\ StyleSound(TriesOf(Styles[j])', j, hop, attempt, "LLMError")
               /\ Styles[j] = "9router" => OnChain(TriesOf(Styles[j])', default, Chain)
    <3>0. j \in Nat /\ hop \in Nat /\ j <= hop
      BY <1>1, <2>1, StylesAreListed
    <3>1. CASE j = hop
      BY <1>1, <3>0, <3>1 DEF StyleSound
    <3>2. CASE j # hop
      <4>2. /\ StyleSound(TriesOf(Styles[j]), j, hop, attempt, "none")
            /\ Styles[j] = "9router" => OnChain(TriesOf(Styles[j]), default, Chain)
        BY DEF ChatInv
      <4> QED BY <3>0, <3>2, <4>2 DEF StyleSound
    <3> QED BY <3>1, <3>2
  <2> QED BY <1>2, <2>1, <2>2, <2>3 DEF ChatInv
<1> QED BY <1>3, <1>4

\* One more attempt of the style in turn.
LEMMA AttemptKeeps ==
  ASSUME ChatInv, Attempt
  PROVE  ChatInv'
<1> DEFINE route == IF Style = "9router" THEN RouteOf(Chain, attempt + 1) ELSE Style
           t == TriesOf(Style)
<1>0. PICK h \in DOMAIN Styles : h = hop
  BY DEF ChatInv, ChatTyped
<1>1. /\ answer = "none" /\ probing = 0 /\ (Style = "9router" => default # <<>>)
      /\ UNCHANGED <<probing, default, down>>
  BY DEF Attempt, AttemptOn
<1>2. PICK end \in {"text", "transient", "fatal"} :
        /\ log' = Append(log, [style |-> Style, route |-> route, end |-> end])
        /\ CASE end = "text" -> answer' = "text" /\ UNCHANGED <<hop, attempt>>
             [] end = "transient" /\ attempt < Retries ->
                  attempt' = attempt + 1 /\ UNCHANGED <<hop, answer>>
             [] OTHER -> NextStyle
  <2>1. AttemptOn(route)
    BY DEF Attempt
  <2> HIDE DEF route
  <2>2. Ends(route) \subseteq {"text", "transient", "fatal"}
    BY DEF Ends
  <2> QED BY <2>1, <2>2 DEF AttemptOn
<1>3. ChatTyped /\ Style = Styles[hop] /\ hop \in DOMAIN Styles /\ Style \in StyleSet /\ attempt \in Nat
  BY StylesAreListed DEF ChatInv, ChatTyped, Style, StyleSet
<1>4. route \in RouteNames
  <2>1. attempt + 1 \in Nat \ {0}
    BY <1>3
  <2> QED BY <1>1, <1>3, <2>1, ChainSound DEF RouteNames
<1> DEFINE e == [style |-> Style, route |-> route, end |-> end]
<1>5. e \in TryRecord /\ e.style = Style /\ e.end = end /\ e.route = route
  BY <1>3, <1>4 DEF TryRecord
<1> HIDE DEF e
<1>6. /\ log' \in Seq(TryRecord) /\ t \in Seq(TryRecord) /\ TriesOf(Styles[h])' = Append(t, e)
      /\ \A j \in DOMAIN Styles : j # h => TriesOf(Styles[j])' = TriesOf(Styles[j])
  <2>1. log \in Seq(TryRecord) /\ log' = Append(log, e)
    BY <1>2, <1>3 DEF e, ChatTyped
  <2>2. /\ log' \in Seq(TryRecord)
        /\ \A s \in StyleSet : /\ TriesOf(s) \in Seq(TryRecord)
                              /\ TriesOf(s)' = IF e.style = s THEN Append(TriesOf(s), e) ELSE TriesOf(s)
    BY <1>5, <2>1, TriesGrow
  <2>3. \A j \in DOMAIN Styles : Styles[j] \in StyleSet /\ (j # hop => Styles[j] # Style)
    BY <1>3, StylesAreListed DEF StyleSet
  <2> QED BY <1>0, <1>3, <1>5, <2>2, <2>3
<1>7. /\ Len(t) = attempt /\ \A i \in 1..Len(t) : t[i].end = "transient"
      /\ Style = "9router" => \A i \in 1..Len(t) : t[i].route = RouteOf(Chain, i)
  BY <1>1, <1>3 DEF ChatInv, StyleSound, OnChain
<1> HIDE DEF t, route
<1> DEFINE u == Append(t, e)
<1>8. /\ Len(u) = attempt + 1 /\ u # <<>> /\ u[Len(u)] = e
      /\ \A i \in 1..attempt : u[i] = t[i]
  BY <1>3, <1>6, <1>7
<1>9. Retried(u)
  <2>1. \A i \in 1..(Len(u) - 1) : i \in 1..attempt
    BY <1>3, <1>8
  <2> HIDE DEF u
  <2> QED BY <1>7, <1>8, <2>1 DEF Retried
<1>10. Style = "9router" => OnChain(u, default, Chain)
  <2> SUFFICES ASSUME Style = "9router"  PROVE OnChain(u, default, Chain)
    OBVIOUS
  <2>1. \A i \in 1..Len(u) : i \in 1..attempt \/ i = attempt + 1
    BY <1>3, <1>8
  <2>2. e.route = RouteOf(Chain, attempt + 1)
    BY <1>5 DEF route
  <2> HIDE DEF u
  <2> QED BY <1>1, <1>7, <1>8, <2>1, <2>2 DEF OnChain
<1> HIDE DEF u
<1>11. CASE end = "text"
  <2>1. UNCHANGED <<hop, attempt, default, down, probing>> /\ answer' = "text"
    BY <1>1, <1>2, <1>11
  <2>2. ChatTyped' /\ Chain' = Chain
    BY <1>3, <1>6, <2>1 DEF ChatTyped, Chain
  <2>3. ASSUME NEW j \in DOMAIN Styles
        PROVE  /\ StyleSound(TriesOf(Styles[j])', j, hop, attempt, "text")
               /\ Styles[j] = "9router" => OnChain(TriesOf(Styles[j])', default, Chain)
    <3>0. j \in Nat /\ hop \in Nat
      BY <1>3, StylesAreListed
    <3>1. CASE j = hop
      <4>1. TriesOf(Styles[j])' = u /\ Styles[j] = Style
        BY <1>0, <1>3, <1>6, <3>1 DEF u
      <4> QED BY <1>9, <1>10, <3>0, <3>1, <4>1 DEF StyleSound
    <3>2. CASE j # hop
      <4>1. /\ StyleSound(TriesOf(Styles[j]), j, hop, attempt, "none")
            /\ Styles[j] = "9router" => OnChain(TriesOf(Styles[j]), default, Chain)
        BY <1>1 DEF ChatInv
      <4> QED BY <1>0, <1>6, <3>2, <4>1 DEF StyleSound
    <3> QED BY <3>1, <3>2
  <2> QED BY <1>1, <2>1, <2>2, <2>3 DEF ChatInv
<1>12. CASE end = "transient" /\ attempt < Retries
  <2>1. UNCHANGED <<hop, answer, default, down, probing>> /\ attempt' = attempt + 1
    BY <1>1, <1>2, <1>12
  <2>2. ChatTyped' /\ Chain' = Chain
    <3>1. attempt + 1 \in 0..Retries
      BY <1>3, <1>12, StylesAreListed
    <3> QED BY <1>3, <1>6, <2>1, <3>1 DEF ChatTyped, Chain
  <2>3. ASSUME NEW j \in DOMAIN Styles
        PROVE  /\ StyleSound(TriesOf(Styles[j])', j, hop, attempt + 1, "none")
               /\ Styles[j] = "9router" => OnChain(TriesOf(Styles[j])', default, Chain)
    <3>0. j \in Nat /\ hop \in Nat
      BY <1>3, StylesAreListed
    <3>1. CASE j = hop
      <4>1. TriesOf(Styles[j])' = u /\ Styles[j] = Style
        BY <1>0, <1>3, <1>6, <3>1 DEF u
      <4>2. \A i \in 1..Len(u) : i \in 1..attempt \/ i = attempt + 1
        BY <1>3, <1>8
      <4>3. \A i \in 1..Len(u) : u[i].end = "transient"
        BY <1>5, <1>7, <1>8, <1>12, <4>2
      <4> QED BY <1>8, <1>9, <1>10, <3>0, <3>1, <4>1, <4>3 DEF StyleSound
    <3>2. CASE j # hop
      <4>1. /\ StyleSound(TriesOf(Styles[j]), j, hop, attempt, "none")
            /\ Styles[j] = "9router" => OnChain(TriesOf(Styles[j]), default, Chain)
        BY <1>1 DEF ChatInv
      <4> QED BY <1>0, <1>6, <3>2, <4>1 DEF StyleSound
    <3> QED BY <3>1, <3>2
  <2> QED BY <1>1, <2>1, <2>2, <2>3 DEF ChatInv
<1>13. CASE end # "text" /\ ~(end = "transient" /\ attempt < Retries)
  <2>1. NextStyle /\ probing' = 0
    BY <1>1, <1>2, <1>13
  <2>2. GaveUp(u)
    <3>1. CASE end = "fatal"
      BY <1>5, <1>8, <3>1 DEF GaveUp
    <3>2. CASE ~(attempt < Retries)
      <4>1. attempt = Retries
        BY <1>3, <3>2, StylesAreListed DEF ChatTyped
      <4> QED BY <1>8, <4>1 DEF GaveUp
    <3> QED BY <1>13, <3>1, <3>2
  <2>3. TriesOf(Styles[h])' = u
    BY <1>6 DEF u
  <2> QED BY <1>0, <1>1, <1>6, <1>9, <1>10, <2>1, <2>2, <2>3, NextStyleKeeps
<1> QED BY <1>11, <1>12, <1>13

\* Where no attempt is made, attempts stay as sound as they were.
LEMMA TriesStay ==
  ASSUME ChatInv, UNCHANGED <<hop, attempt, log, answer>>, ChatTyped',
         probing' # 0 => Style = "9router" /\ default' = <<>> /\ answer = "none",
         default' = default \/ default = <<>>
  PROVE  ChatInv'
<1>1. Style' = Style /\ log \in Seq(TryRecord)
  BY DEF Style, ChatInv, ChatTyped
<1>2. ASSUME NEW j \in DOMAIN Styles
      PROVE  /\ TriesOf(Styles[j])' = TriesOf(Styles[j])
             /\ Styles[j] = "9router" => OnChain(TriesOf(Styles[j]), default', Chain')
  <2>1. Styles[j] \in StyleSet
    BY DEF StyleSet
  <2>2. TriesOf(Styles[j]) \in Seq(TryRecord) /\ TriesOf(Styles[j])' = TriesOf(Styles[j])
    BY <1>1, <2>1, SameTries
  <2>3. CASE default' = default
    BY <2>2, <2>3 DEF ChatInv, Chain
  <2>4. CASE default = <<>>
    <3> SUFFICES ASSUME Styles[j] = "9router"  PROVE OnChain(TriesOf(Styles[j]), default', Chain')
      BY <2>2
    <3>1. TriesOf(Styles[j]) = <<>>
      BY <2>4 DEF ChatInv, OnChain
    <3>2. Len(<<>>) = 0
      OBVIOUS
    <3> QED BY <3>1, <3>2 DEF OnChain
  <2> QED BY <2>3, <2>4
<1> QED BY <1>1, <1>2 DEF ChatInv

LEMMA ChatStep == ChatInv /\ [ChatNext]_chatVars => ChatInv'
<1> SUFFICES ASSUME ChatInv, [ChatNext]_chatVars  PROVE ChatInv'
  OBVIOUS
<1>1. ChatTyped /\ (probing # 0 => Style = "9router" /\ default = <<>> /\ answer = "none")
  BY DEF ChatInv
<1>2. CASE UNCHANGED chatVars
  BY <1>1, <1>2, TriesStay DEF chatVars, ChatTyped
<1>3. CASE Resolve
  <2>1. 1 \in 0..Len(Routes)
    BY StylesAreListed
  <2> QED BY <1>1, <1>3, <2>1, TriesStay DEF Resolve, ChatTyped
<1>4. CASE Certify
  <2>1. /\ UNCHANGED <<hop, attempt, down, log, answer>> /\ probing # 0 /\ probing \in DOMAIN Routes
        /\ Style = "9router" /\ default = <<>> /\ answer = "none"
    BY <1>1, <1>4, StylesAreListed DEF Certify, ChatTyped
  <2>2. CASE Routes[probing] \in down /\ probing < Len(Routes)
    <3>1. probing' = probing + 1 /\ probing + 1 \in 0..Len(Routes) /\ default' = default
      BY <1>1, <1>4, <2>2, StylesAreListed DEF Certify, ChatTyped
    <3> QED BY <1>1, <2>1, <3>1, TriesStay DEF ChatTyped
  <2>3. CASE ~(Routes[probing] \in down /\ probing < Len(Routes))
    <3>1. probing' = 0 /\ default' = <<IF Routes[probing] \in down THEN Routes[1] ELSE Routes[probing]>>
      BY <1>4, <2>3 DEF Certify
    <3>2. (IF Routes[probing] \in down THEN Routes[1] ELSE Routes[probing]) \in RouteSet
      BY <2>1, StylesAreListed DEF RouteSet
    <3>3. 0 \in 0..Len(Routes)
      BY StylesAreListed
    <3> QED BY <1>1, <2>1, <3>1, <3>2, <3>3, TriesStay DEF ChatTyped
  <2> QED BY <2>2, <2>3
<1>5. CASE Unresolved
  <2>1. Style = "9router" /\ answer = "none" /\ default = <<>> /\ log \in Seq(TryRecord) /\ log' = log
    BY <1>1, <1>5 DEF Unresolved, ChatTyped
  <2>2. PICK h \in DOMAIN Styles : h = hop
    BY <1>1 DEF ChatTyped
  <2>3. \A j \in DOMAIN Styles : TriesOf(Styles[j])' = TriesOf(Styles[j])
    BY <2>1, SameTries DEF StyleSet
  <2>4. TriesOf(Styles[h]) = <<>> /\ OnChain(TriesOf(Styles[h]), default, Chain) /\ Retried(TriesOf(Styles[h]))
    BY <2>1, <2>2 DEF ChatInv, OnChain, Style, StyleSound
  <2>5. GaveUp(TriesOf(Styles[h]))
    BY <2>4 DEF GaveUp
  <2>6. NextStyle /\ probing' = 0 /\ UNCHANGED <<default, down>>
    BY <1>5 DEF Unresolved
  <2> QED BY <2>1, <2>2, <2>3, <2>4, <2>5, <2>6, NextStyleKeeps
<1>6. CASE RoutesChange
  BY <1>1, <1>6, TriesStay DEF RoutesChange, ChatTyped
<1> QED BY <1>2, <1>3, <1>4, <1>5, <1>6, AttemptKeeps DEF ChatNext

LEMMA ChatBegins == ChatInit => ChatInv
<1> SUFFICES ASSUME ChatInit  PROVE ChatInv
  OBVIOUS
<1>1. ChatTyped
  BY StylesAreListed DEF ChatInit, ChatTyped
<1>2. ASSUME NEW s \in StyleSet  PROVE TriesOf(s) = <<>>
  <2>1. {i \in DOMAIN log : log[i].style = s} = {} /\ log \in Seq(TryRecord)
    BY DEF ChatInit
  <2>2. SelectAt(log, {}) \in Seq(TryRecord) /\ Len(SelectAt(log, {})) = Cardinality({})
    BY <2>1, Selected
  <2>3. Cardinality({}) = 0
    BY FS_EmptySet
  <2>4. SelectAt(log, {}) = <<>>
    BY <2>2, <2>3
  <2> QED BY <2>1, <2>4 DEF TriesOf
<1>3. Len(<<>>) = 0
  OBVIOUS
<1>4. ASSUME NEW j \in DOMAIN Styles
      PROVE  /\ StyleSound(TriesOf(Styles[j]), j, 1, 0, "none")
             /\ Styles[j] = "9router" => OnChain(TriesOf(Styles[j]), <<>>, Chain)
  <2>1. TriesOf(Styles[j]) = <<>> /\ j \in Nat /\ j >= 1
    BY <1>2, StylesAreListed DEF StyleSet
  <2> QED BY <1>3, <2>1 DEF StyleSound, OnChain, GaveUp, Retried
<1> QED BY <1>1, <1>4 DEF ChatInv, ChatInit

LEMMA ChatFailsOver == ChatInv => FailsOver
<1> SUFFICES ASSUME ChatInv, NEW j \in DOMAIN Styles
    PROVE  LET s == Styles[j] tries == TriesOf(Styles[j]) IN
             /\ \A i \in 1..Len(tries) - 1 :
                  /\ tries[i].end = "transient"
                  /\ s = "9router" /\ tries[i].route = tries[i + 1].route => i >= Len(Chain)
             /\ tries # <<>> /\ (answer = "LLMError" \/ s # Style) =>
                  tries[Len(tries)].end = "fatal" \/ Len(tries) = Retries + 1
  BY DEF FailsOver
<1> DEFINE t == TriesOf(Styles[j])
<1>1. ChatTyped /\ Style = Styles[hop] /\ hop \in DOMAIN Styles /\ j \in Nat /\ hop \in Nat
  BY StylesAreListed DEF ChatInv, ChatTyped, Style
<1>2. StyleSound(t, j, hop, attempt, answer) /\ (Styles[j] = "9router" => OnChain(t, default, Chain))
  BY DEF ChatInv
<1>3. t \in Seq(TryRecord)
  <2>1. {i \in DOMAIN log : log[i].style = Styles[j]} \in SUBSET (1..Len(log)) /\ log \in Seq(TryRecord)
    BY <1>1 DEF ChatTyped
  <2> QED BY <2>1, Selected DEF TriesOf
<1> HIDE DEF t
<1>4. ASSUME NEW i \in 1..(Len(t) - 1)
      PROVE  /\ t[i].end = "transient"
             /\ Styles[j] = "9router" /\ t[i].route = t[i + 1].route => i >= Len(Chain)
  <2>1. t[i].end = "transient"
    BY <1>2 DEF StyleSound, Retried
  <2> SUFFICES ASSUME Styles[j] = "9router", t[i].route = t[i + 1].route, ~(i >= Len(Chain))  PROVE FALSE
    BY <2>1
  <2>2. Len(t) \in Nat /\ i \in 1..Len(t) /\ i + 1 \in 1..Len(t)
    BY <1>3
  <2>3. Chain \in Seq(RouteNames) /\ \A k, l \in 1..Len(Chain) : Chain[k] = Chain[l] => k = l
    BY <1>1, ChainSound
  <2>4. Len(Chain) \in Nat /\ i \in 1..Len(Chain) /\ i + 1 \in 1..Len(Chain)
    BY <2>2, <2>3
  <2>5. RouteOf(Chain, i) = RouteOf(Chain, i + 1)
    BY <1>2, <2>2 DEF OnChain
  <2>6. Chain[i] = Chain[i + 1]
    BY <2>4, <2>5 DEF RouteOf
  <2> QED BY <2>2, <2>3, <2>4, <2>6
<1>5. ASSUME t # <<>>, answer = "LLMError" \/ Styles[j] # Style
      PROVE  t[Len(t)].end = "fatal" \/ Len(t) = Retries + 1
  <2>1. CASE answer = "LLMError"
    BY <1>2, <1>5, <2>1 DEF StyleSound, GaveUp
  <2>2. CASE Styles[j] # Style
    <3>1. j < hop \/ j > hop
      BY <1>1, <2>2
    <3> QED BY <1>2, <1>5, <3>1 DEF StyleSound, GaveUp
  <2> QED BY <1>5, <2>1, <2>2
<1> QED BY <1>4, <1>5 DEF t
-----------------------------------------------------------------------------
(* The router of agents.                                                   *)

\* A finite set that is ordered totally has one member at each rank; upto[m] is what does
\* not come after m.
LEMMA Enumerated ==
  ASSUME NEW E, IsFiniteSet(E), NEW upto \in [E -> SUBSET E],
         \A m \in E : m \in upto[m],
         \A m, n \in E : m # n => (m \in upto[n] <=> n \notin upto[m]),
         \A l, m, n \in E : l \in upto[m] /\ m \in upto[n] => l \in upto[n]
  PROVE  /\ Cardinality(E) \in Nat
         /\ \A m \in E : Cardinality(upto[m]) \in 1..Cardinality(E)
         /\ \A m, n \in E : m # n /\ m \in upto[n] => Cardinality(upto[m]) < Cardinality(upto[n])
         /\ \A m, n \in E : Cardinality(upto[m]) = Cardinality(upto[n]) => m = n
         /\ \A k \in 1..Cardinality(E) : \E m \in E : Cardinality(upto[m]) = k
<1> DEFINE rank == [m \in E |-> Cardinality(upto[m])]
<1>0. Cardinality(E) \in Nat
  BY FS_CardinalityType
<1>1. ASSUME NEW m \in E
      PROVE  /\ IsFiniteSet(upto[m]) /\ rank[m] = Cardinality(upto[m]) /\ rank[m] \in 1..Cardinality(E)
  <2>1. upto[m] \in SUBSET E /\ m \in upto[m] /\ rank[m] = Cardinality(upto[m])
    OBVIOUS
  <2>2. IsFiniteSet(upto[m]) /\ Cardinality(upto[m]) <= Cardinality(E)
    BY <2>1, FS_Subset
  <2>3. Cardinality(upto[m]) \in Nat /\ Cardinality(upto[m]) # 0
    BY <2>1, <2>2, FS_CardinalityType, FS_EmptySet
  <2> QED BY <1>0, <2>1, <2>2, <2>3
<1>2. ASSUME NEW m \in E, NEW n \in E, m # n, m \in upto[n]  PROVE rank[m] < rank[n]
  <2>1. upto[m] \in SUBSET upto[n]
    BY <1>2
  <2>2. n \in upto[n] /\ n \notin upto[m]
    BY <1>2
  <2>3. Cardinality(upto[m]) <= Cardinality(upto[n]) /\ Cardinality(upto[m]) # Cardinality(upto[n])
    BY <1>1, <2>1, <2>2, FS_Subset
  <2> QED BY <1>0, <1>1, <2>3
<1>3. ASSUME NEW m \in E, NEW n \in E, rank[m] = rank[n]  PROVE m = n
  <2>1. ~(rank[m] < rank[n]) /\ ~(rank[n] < rank[m])
    BY <1>0, <1>1, <1>3
  <2> HIDE DEF rank
  <2> QED BY <1>2, <2>1
<1>4. ASSUME NEW k \in 1..Cardinality(E)  PROVE \E m \in E : rank[m] = k
  <2>1. rank \in Injection(E, 1..Cardinality(E))
    <3>1. rank \in [E -> 1..Cardinality(E)]
      BY <1>1
    <3>2. DOMAIN rank = E
      OBVIOUS
    <3> QED BY <1>3, <3>1, <3>2 DEF Injection, IsInjective
  <2>2. IsFiniteSet(1..Cardinality(E)) /\ Cardinality(1..Cardinality(E)) = Cardinality(E)
    BY <1>0, FS_Interval
  <2> HIDE DEF rank
  <2>3. rank \in Surjection(E, 1..Cardinality(E))
    BY <2>1, <2>2, FS_Injection
  <2> QED BY <2>3 DEF Surjection
<1> HIDE DEF rank
<1>5. \A m, n \in E : Cardinality(upto[m]) = Cardinality(upto[n]) => m = n
  BY <1>1, <1>3
<1>6. \A k \in 1..Cardinality(E) : \E m \in E : Cardinality(upto[m]) = k
  BY <1>1, <1>4
<1> QED BY <1>0, <1>1, <1>2, <1>5, <1>6

LEMMA LesserOfTwo ==
  ASSUME NEW a \in Int, NEW b \in Int
  PROVE  /\ Min({a, b}) = IF a <= b THEN a ELSE b
         /\ Max({a, b}) = IF a >= b THEN a ELSE b
<1>1. \E x \in {a, b} : \A y \in {a, b} : x <= y
  OBVIOUS
<1>2. \E x \in {a, b} : \A y \in {a, b} : x >= y
  OBVIOUS
<1>3. Min({a, b}) \in {a, b} /\ \A y \in {a, b} : Min({a, b}) <= y
  BY <1>1 DEF Min
<1>4. Max({a, b}) \in {a, b} /\ \A y \in {a, b} : Max({a, b}) >= y
  BY <1>2 DEF Max
<1> QED BY <1>3, <1>4

Attempted == [model : Models, ok : BOOLEAN]

LEMMA MissesCount ==
  ASSUME NEW h \in Seq(Attempted)
  PROVE  Misses(h) \in Nat
<1>1. Len(h) \in Nat /\ {i \in DOMAIN h : ~h[i].ok} \in SUBSET (1..Len(h))
  OBVIOUS
<1>2. IsFiniteSet({i \in DOMAIN h : ~h[i].ok})
  BY <1>1, FS_Interval, FS_Subset
<1> QED BY <1>2, FS_CardinalityType DEF Misses

LEMMA CataloguePlaces == Len(Catalogue) \in Nat /\ Models = 1..Len(Catalogue) /\ IsFiniteSet(Models)
<1>1. Len(Catalogue) \in Nat /\ Models = 1..Len(Catalogue)
  BY RoutingAssumption DEF Models
<1> QED BY <1>1, FS_Interval

\* Scores can be compared.
LEMMA ScoresAreNumbers ==
  ASSUME history \in Seq(Attempted), NEW r \in RouteRequests, NEW m \in Models
  PROVE  ScoreOf(m, r) \in Int
<1>1. Of(m) \in Seq(Attempted) /\ Len(Of(m)) \in Nat
  <2>1. {i \in DOMAIN history : history[i].model = m} \in SUBSET (1..Len(history))
    OBVIOUS
  <2>2. Of(m) \in Seq(Attempted)
    BY <2>1, Selected DEF Of
  <2> QED BY <2>2
<1>2. Misses(Of(m)) \in Nat
  BY <1>1, MissesCount
<1>3. HistoryBonus(m) \in Int
  <2>1. ASSUME NEW n \in Nat, NEW k \in Nat  PROVE (IF n = 0 THEN 0 ELSE ((n - 2 * k) * 2520) \div n) \in Int
    <3>1. \A x \in Int : n > 0 => x \div n \in Int
      OBVIOUS
    <3>2. (n - 2 * k) * 2520 \in Int
      OBVIOUS
    <3> QED BY <3>1, <3>2
  <2> QED BY <1>1, <1>2, <2>1 DEF HistoryBonus, Point
<1>4. RecentFailures(m) \in Nat
  <2> DEFINE a == Max({1, Len(Of(m)) - 4})
  <2>1. a \in Nat /\ a >= 1 /\ a <= Len(Of(m)) + 1
    <3>1. 1 \in Int /\ Len(Of(m)) - 4 \in Int
      BY <1>1
    <3>2. a = IF 1 >= Len(Of(m)) - 4 THEN 1 ELSE Len(Of(m)) - 4
      BY <3>1, LesserOfTwo
    <3> HIDE DEF a
    <3> QED BY <1>1, <3>2
  <2> HIDE DEF a
  <2>2. SubSeq(Of(m), a, Len(Of(m))) \in Seq(Attempted)
    BY <1>1, <2>1
  <2> QED BY <2>2, MissesCount DEF RecentFailures, a
<1>5. Penalty(m, r) \in Int
  <2>1. r.retries \in Nat
    BY RoutingAssumption
  <2>2. RecentFailures(m) * (Point \div 2) + r.retries * (Point \div 10) \in Int /\ 2 * Point \in Int
    BY <1>4, <2>1 DEF Point
  <2> HIDE DEF Point
  <2>3. Min({2 * Point, RecentFailures(m) * (Point \div 2) + r.retries * (Point \div 10)}) \in Int
    BY <2>2, LesserOfTwo
  <2> QED BY <2>3 DEF Penalty
<1>6. Catalogue[m].merit[r.complexity] \in Int
  BY RoutingAssumption DEF Models
<1>7. Catalogue[m].merit[r.complexity] * Point \in Int /\ (3 * Point) \div 2 \in Int
  BY <1>6 DEF Point
<1> QED BY <1>3, <1>5, <1>7 DEF ScoreOf

\* Better is a strict order, and at most one model goes before it.
LEMMA BetterOrders ==
  ASSUME history \in Seq(Attempted), NEW r \in RouteRequests
  PROVE  /\ \A m \in Models : ~Better(r, m, m)
         /\ \A m, n \in Models : m # n => Better(r, m, n) \/ Better(r, n, m)
         /\ \A l, m, n \in Models : Better(r, l, m) /\ Better(r, m, n) => Better(r, l, n)
<1>1. \A m \in Models : ScoreOf(m, r) \in Int /\ m \in Nat
  BY ScoresAreNumbers, CataloguePlaces
<1>2. ASSUME NEW m \in Models, NEW n \in Models, m # n  PROVE Better(r, m, n) \/ Better(r, n, m)
  BY <1>1, <1>2 DEF Better
<1>3. ASSUME NEW m \in Models  PROVE ~Better(r, m, m)
  BY <1>1 DEF Better
<1>4. ASSUME NEW l \in Models, NEW m \in Models, NEW n \in Models, Better(r, l, m), Better(r, m, n)
      PROVE  Better(r, l, n)
  BY <1>1, <1>4 DEF Better
<1> QED BY <1>2, <1>3, <1>4

LEMMA BeforeOrders ==
  ASSUME history \in Seq(Attempted), NEW r \in RouteRequests
  PROVE  /\ \A m \in Models : ~Before(r, m, m)
         /\ \A m, n \in Models : m # n => Before(r, m, n) \/ Before(r, n, m)
         /\ \A l, m, n \in Models : Before(r, l, m) /\ Before(r, m, n) => Before(r, l, n)
<1>1. BestLocal(r) \subseteq Models
  BY DEF BestLocal, Eligible
<1>2. \A m, n \in BestLocal(r) : m = n
  <2> SUFFICES ASSUME NEW m \in BestLocal(r), NEW n \in BestLocal(r), m # n  PROVE FALSE
    OBVIOUS
  <2>1. Better(r, m, n) /\ Better(r, n, m) /\ m \in Models /\ n \in Models
    BY DEF BestLocal, Eligible
  <2> QED BY <2>1, BetterOrders
<1>3. ASSUME NEW m \in Models  PROVE ~Before(r, m, m)
  BY BetterOrders DEF Before
<1>4. ASSUME NEW m \in Models, NEW n \in Models, m # n  PROVE Before(r, m, n) \/ Before(r, n, m)
  BY <1>2, <1>4, BetterOrders DEF Before
<1>5. ASSUME NEW l \in Models, NEW m \in Models, NEW n \in Models, Before(r, l, m), Before(r, m, n)
      PROVE  Before(r, l, n)
  BY <1>5, BetterOrders DEF Before
<1> QED BY <1>3, <1>4, <1>5

\* With a capable local model there is a best one.
LEMMA BestLocalExists ==
  ASSUME history \in Seq(Attempted), NEW r \in RouteRequests, r.place = "prefer_local",
         NEW c \in Eligible(r), CapableLocal(c)
  PROVE  \E f \in Eligible(r) : f \in BestLocal(r)
<1> DEFINE C == {m \in Eligible(r) : CapableLocal(m)}
           upto == [m \in C |-> {n \in C : n = m \/ Better(r, n, m)}]
<1>1. C \in SUBSET Models /\ C # {} /\ C \subseteq Eligible(r) /\ \A m \in C : CapableLocal(m)
  BY DEF Eligible
<1>2. IsFiniteSet(C)
  BY <1>1, CataloguePlaces, FS_Subset
<1>3. \A m \in Eligible(r) : CapableLocal(m) => m \in C
  OBVIOUS
<1> HIDE DEF C
<1>4. upto \in [C -> SUBSET C] /\ \A m, n \in C : n \in upto[m] <=> n = m \/ Better(r, n, m)
  OBVIOUS
<1> HIDE DEF upto
<1>5. /\ \A m \in C : m \in upto[m]
      /\ \A m, n \in C : m # n => (m \in upto[n] <=> n \notin upto[m])
      /\ \A l, m, n \in C : l \in upto[m] /\ m \in upto[n] => l \in upto[n]
  BY <1>1, <1>4, BetterOrders
<1>6. /\ Cardinality(C) \in Nat
      /\ \A m \in C : Cardinality(upto[m]) \in 1..Cardinality(C)
      /\ \A m, n \in C : m # n /\ m \in upto[n] => Cardinality(upto[m]) < Cardinality(upto[n])
      /\ \A k \in 1..Cardinality(C) : \E m \in C : Cardinality(upto[m]) = k
  BY <1>2, <1>4, <1>5, Enumerated
<1>7. 1 \in 1..Cardinality(C)
  BY <1>1, <1>2, <1>6, FS_EmptySet
<1>8. PICK f \in C : Cardinality(upto[f]) = 1
  BY <1>6, <1>7
<1>9. \A n \in C : n = f \/ Better(r, f, n)
  <2> TAKE n \in C
  <2>1. ~(Cardinality(upto[n]) < 1)
    BY <1>6
  <2>2. n # f => n \notin upto[f]
    BY <1>6, <1>8, <2>1
  <2> QED BY <1>4, <1>5, <2>2
<1> QED BY <1>1, <1>3, <1>8, <1>9 DEF BestLocal

\* The ranking has every eligible model once, and begins with the best local one.
LEMMA RankingIsComplete ==
  ASSUME history \in Seq(Attempted), NEW r \in RouteRequests
  PROVE  /\ Cardinality(Eligible(r)) \in Nat /\ Eligible(r) \subseteq Models
         /\ Ranked(r) \in Seq(Models) /\ Len(Ranked(r)) = Cardinality(Eligible(r))
         /\ \A k, l \in 1..Len(Ranked(r)) : Ranked(r)[k] = Ranked(r)[l] => k = l
         /\ r.place = "prefer_local" /\ (\E m \in Eligible(r) : CapableLocal(m)) =>
              1 \in 1..Len(Ranked(r)) /\ CapableLocal(Ranked(r)[1])
<1> DEFINE E == Eligible(r)
           upto == [m \in E |-> {n \in E : n = m \/ Before(r, n, m)}]
           pick == [k \in 1..Cardinality(E) |-> CHOOSE m \in E : Cardinality(upto[m]) = k]
<1>1. E \in SUBSET Models /\ IsFiniteSet(E)
  <2>1. E \in SUBSET Models
    BY DEF Eligible
  <2> QED BY <2>1, CataloguePlaces, FS_Subset
<1>2. \A m \in E : Cardinality(upto[m]) = RankOf(r, m)
  BY DEF RankOf
<1>3. Ranked(r) = pick
  <2> HIDE DEF upto
  <2>1. \A k \in 1..Cardinality(E) :
          (CHOOSE m \in E : Cardinality(upto[m]) = k) = CHOOSE m \in Eligible(r) : RankOf(r, m) = k
    BY <1>2
  <2> QED BY <2>1 DEF Ranked
<1> HIDE DEF E
<1>4. upto \in [E -> SUBSET E] /\ \A m, n \in E : n \in upto[m] <=> n = m \/ Before(r, n, m)
  OBVIOUS
<1> HIDE DEF upto
<1>5. /\ \A m \in E : m \in upto[m]
      /\ \A m, n \in E : m # n => (m \in upto[n] <=> n \notin upto[m])
      /\ \A l, m, n \in E : l \in upto[m] /\ m \in upto[n] => l \in upto[n]
  BY <1>1, <1>4, BeforeOrders
<1>6. /\ Cardinality(E) \in Nat
      /\ \A m \in E : Cardinality(upto[m]) \in 1..Cardinality(E)
      /\ \A m, n \in E : m # n /\ m \in upto[n] => Cardinality(upto[m]) < Cardinality(upto[n])
      /\ \A m, n \in E : Cardinality(upto[m]) = Cardinality(upto[n]) => m = n
      /\ \A k \in 1..Cardinality(E) : \E m \in E : Cardinality(upto[m]) = k
  BY <1>1, <1>4, <1>5, Enumerated
<1>7. \A k \in 1..Cardinality(E) : pick[k] \in E /\ Cardinality(upto[pick[k]]) = k
  BY <1>6
<1>8. pick \in Seq(Models) /\ Len(pick) = Cardinality(E)
  <2>1. \A k \in 1..Cardinality(E) : (CHOOSE m \in E : Cardinality(upto[m]) = k) \in Models
    BY <1>1, <1>7
  <2> QED BY <1>6, <2>1
<1> HIDE DEF pick
<1>9. \A k, l \in 1..Len(pick) : pick[k] = pick[l] => k = l
  BY <1>7, <1>8
<1>10. ASSUME r.place = "prefer_local", NEW c \in E, CapableLocal(c)
       PROVE  1 \in 1..Len(pick) /\ CapableLocal(pick[1])
  <2>1. PICK f \in E : f \in BestLocal(r)
    BY <1>10, BestLocalExists DEF E
  <2>2. \A n \in E : n # f => f \in upto[n]
    BY <1>1, <1>4, <1>5, <2>1 DEF Before
  <2>3. 1 \in 1..Cardinality(E)
    BY <1>6
  <2>4. pick[1] \in E /\ Cardinality(upto[pick[1]]) = 1
    BY <1>7, <2>3
  <2>5. ~(Cardinality(upto[f]) < 1)
    BY <1>6
  <2>6. pick[1] = f
    BY <1>6, <2>2, <2>4, <2>5
  <2> QED BY <1>8, <2>1, <2>3, <2>6 DEF BestLocal
<1> QED BY <1>1, <1>3, <1>6, <1>8, <1>9, <1>10 DEF E

\* Counting rows.
LEMMA RowsCounted ==
  ASSUME NEW T, NEW h \in Seq(T), NEW x
  PROVE  IsFiniteSet({i \in DOMAIN h : h[i] = x}) /\ TimesIn(h, x) \in Nat
<1>1. Len(h) \in Nat /\ {i \in DOMAIN h : h[i] = x} \in SUBSET (1..Len(h))
  OBVIOUS
<1>2. IsFiniteSet({i \in DOMAIN h : h[i] = x})
  BY <1>1, FS_Interval, FS_Subset
<1> QED BY <1>2, FS_CardinalityType DEF TimesIn

LEMMA CountOfTwo ==
  ASSUME NEW T, NEW h \in Seq(T), NEW g \in Seq(T), NEW x
  PROVE  h \o g \in Seq(T) /\ TimesIn(h \o g, x) <= TimesIn(h, x) + TimesIn(g, x)
<1> DEFINE n == Len(h)
           A == {i \in DOMAIN h : h[i] = x}
           B == {i \in DOMAIN g : g[i] = x}
           C == {i \in DOMAIN (h \o g) : (h \o g)[i] = x}
           f == [i \in B |-> i + n]
           D == {f[i] : i \in B}
<1>1. n \in Nat /\ Len(g) \in Nat /\ DOMAIN h = 1..n /\ DOMAIN g = 1..Len(g)
  OBVIOUS
<1>2. h \o g \in Seq(T) /\ DOMAIN (h \o g) = 1..(n + Len(g))
  OBVIOUS
<1>3. /\ \A i \in 1..n : (h \o g)[i] = h[i]
      /\ \A i \in 1..Len(g) : (h \o g)[i + n] = g[i]
  OBVIOUS
<1>4. C \subseteq A \cup D
  <2> SUFFICES ASSUME NEW i \in C, i \notin A  PROVE i \in D
    OBVIOUS
  <2>1. i \in 1..(n + Len(g)) /\ (h \o g)[i] = x
    BY <1>2
  <2>2. ~(i <= n)
    BY <1>1, <1>3, <2>1
  <2>3. i - n \in 1..Len(g) /\ (i - n) + n = i
    BY <1>1, <2>1, <2>2
  <2>4. i - n \in B
    BY <1>1, <1>3, <2>1, <2>3
  <2>5. f[i - n] = i
    BY <2>3, <2>4
  <2> HIDE DEF f, B
  <2> QED BY <2>4, <2>5
<1>5. IsFiniteSet(A) /\ IsFiniteSet(B) /\ TimesIn(h, x) = Cardinality(A) /\ TimesIn(g, x) = Cardinality(B)
      /\ TimesIn(h \o g, x) = Cardinality(C)
  BY RowsCounted DEF TimesIn
<1>6. IsFiniteSet(D) /\ Cardinality(D) <= Cardinality(B)
  <2>1. f \in Surjection(B, D)
    <3>1. f \in [B -> D]
      OBVIOUS
    <3> HIDE DEF f
    <3> QED BY <3>1 DEF Surjection
  <2> HIDE DEF f, D, B
  <2> QED BY <1>5, <2>1, FS_Surjection
<1> HIDE DEF A, B, C, D, f
<1>7. IsFiniteSet(A \cup D) /\ Cardinality(A \cup D) <= Cardinality(A) + Cardinality(D)
  <2>1. IsFiniteSet(A \cup D) /\ Cardinality(A \cup D) = Cardinality(A) + Cardinality(D) - Cardinality(A \cap D)
    BY <1>5, <1>6, FS_Union
  <2>2. IsFiniteSet(A \cap D)
    BY <1>5, FS_Intersection
  <2>3. Cardinality(A \cap D) \in Nat /\ Cardinality(A) \in Nat /\ Cardinality(D) \in Nat
    BY <1>5, <1>6, <2>2, FS_CardinalityType
  <2> QED BY <2>1, <2>3
<1>8. Cardinality(C) <= Cardinality(A \cup D)
  BY <1>4, <1>7, FS_Subset
<1>9. Cardinality(A \cup D) \in Nat /\ Cardinality(C) \in Nat /\ Cardinality(A) \in Nat /\ Cardinality(B) \in Nat
      /\ Cardinality(D) \in Nat
  <2>1. IsFiniteSet(C)
    BY <1>4, <1>7, FS_Subset
  <2> QED BY <1>5, <1>6, <1>7, <2>1, FS_CardinalityType
<1> QED BY <1>2, <1>5, <1>6, <1>7, <1>8, <1>9

LEMMA CountOfSelected ==
  ASSUME NEW T, NEW h \in Seq(T), NEW P \in SUBSET (1..Len(h)), NEW x
  PROVE  TimesIn(SelectAt(h, P), x) <= TimesIn(h, x)
<1> DEFINE q == SelectAt(h, P)
           A == {i \in DOMAIN h : h[i] = x}
           B == {k \in DOMAIN q : q[k] = x}
           f == [k \in B |-> NthOf(P, k)]
<1>1. /\ q \in Seq(T) /\ DOMAIN q = 1..Len(q) /\ Len(q) \in Nat
      /\ \A k \in 1..Len(q) : NthOf(P, k) \in P /\ q[k] = h[NthOf(P, k)]
      /\ \A k, l \in 1..Len(q) : k < l => NthOf(P, k) < NthOf(P, l)
  <2>1. q \in Seq(T)
    BY Selected
  <2> QED BY <2>1, Selected
<1>2. IsFiniteSet(A) /\ TimesIn(h, x) = Cardinality(A) /\ TimesIn(q, x) = Cardinality(B)
  BY RowsCounted DEF TimesIn
<1> HIDE DEF q
<1>3. f \in [B -> A]
  <2> SUFFICES ASSUME NEW k \in B  PROVE NthOf(P, k) \in A
    OBVIOUS
  <2> QED BY <1>1
<1>4. \A k, l \in B : f[k] = f[l] => k = l
  <2> SUFFICES ASSUME NEW k \in B, NEW l \in B, NthOf(P, k) = NthOf(P, l)  PROVE k = l
    OBVIOUS
  <2>0. P \subseteq Nat
    OBVIOUS
  <2>1. k \in 1..Len(q) /\ l \in 1..Len(q) /\ k \in Nat /\ l \in Nat /\ NthOf(P, k) \in Nat
    <3>1. k \in DOMAIN q /\ l \in DOMAIN q
      OBVIOUS
    <3> HIDE DEF B, f
    <3>2. k \in 1..Len(q) /\ l \in 1..Len(q) /\ Len(q) \in Nat
      BY <1>1, <3>1
    <3>3. k \in Nat /\ l \in Nat
      BY <3>2
    <3>4. NthOf(P, k) \in P
      BY <1>1, <3>2
    <3> QED BY <2>0, <3>2, <3>3, <3>4
  <2>2. ~(k < l) /\ ~(l < k)
    BY <1>1, <2>1
  <2> QED BY <2>1, <2>2
<1>5. DOMAIN f = B
  OBVIOUS
<1> HIDE DEF f, A, B
<1>6. f \in Injection(B, A)
  BY <1>3, <1>4, <1>5 DEF Injection, IsInjective
<1> QED BY <1>2, <1>6, FS_Injection DEF q

\* A row that is not there twice.
LEMMA CountOfOne ==
  ASSUME NEW h, NEW x, \A i, k \in DOMAIN h : h[i] = x /\ h[k] = x => i = k
  PROVE  (TimesIn(h, x) = 0 /\ \A i \in DOMAIN h : h[i] # x) \/ (TimesIn(h, x) = 1 /\ \E i \in DOMAIN h : h[i] = x)
<1>1. CASE \A i \in DOMAIN h : h[i] # x
  <2>1. {i \in DOMAIN h : h[i] = x} = {}
    BY <1>1
  <2> QED BY <1>1, <2>1, FS_EmptySet DEF TimesIn
<1>2. CASE \E i \in DOMAIN h : h[i] = x
  <2>1. PICK i \in DOMAIN h : h[i] = x
    BY <1>2
  <2>2. {k \in DOMAIN h : h[k] = x} = {i}
    BY <2>1
  <2> QED BY <2>2, FS_Singleton DEF TimesIn
<1> QED BY <1>1, <1>2

\* The states of a routed call.
CallSteps == {"idle", "calling", "done", "blocked", "refused", "raised"}
RoutedRecord == [step : CallSteps, ask : RouteRequests \cup {NoCallYet.ask}, chain : Seq(Models), at : Nat]

\* The chain that a call for r walks.
RightChain(r, chain) ==
  /\ r \in RouteRequests /\ Len(chain) = Min({MaxFallbacks, Cardinality(Eligible(r))})
  /\ r.place = "prefer_local" /\ (\E m \in Eligible(r) : CapableLocal(m)) => CapableLocal(chain[1])

CallSound(q) ==
  /\ q \in RoutedRecord /\ q.at \in 0..Len(q.chain)
  /\ \A i, k \in 1..Len(q.chain) : q.chain[i] = q.chain[k] => i = k
  /\ q.step = "calling" => q.at >= 1
  /\ q.step = "blocked" => q.at = Len(q.chain)
  /\ q.step # "idle" => RightChain(q.ask, q.chain)

RoutingTyped ==
  /\ history \in Seq(Attempted) /\ filed \in Seq(Attempted \cup {Damaged})
  /\ made \in [Models -> [won : Nat, lost : Nat]]
  /\ routed \in [RouteCallers -> RoutedRecord] /\ \A a \in RouteCallers : CallSound(routed[a])

\* Failures of calls under way, which are not in the history yet.
FailedOn(q, m) == q.step = "calling" /\ \E i \in 1..(q.at - 1) : q.chain[i] = m
Pending(calls, m) == {a \in RouteCallers : FailedOn(calls[a], m)}

\* What is in the history and what is still to come was made, and so was what is filed.
Counted(h, f, calls, tally) ==
  \A m \in Models :
    /\ TimesIn(h, WonOn(m)) <= tally[m].won
    /\ TimesIn(h, LostOn(m)) + Cardinality(Pending(calls, m)) <= tally[m].lost
    /\ TimesIn(f, WonOn(m)) <= tally[m].won /\ TimesIn(f, LostOn(m)) <= tally[m].lost

RoutingInv == RoutingTyped /\ Counted(history, filed, routed, made)

LEMMA PendingCounted ==
  ASSUME NEW calls, NEW m
  PROVE  IsFiniteSet(Pending(calls, m)) /\ Cardinality(Pending(calls, m)) \in Nat
<1>1. Pending(calls, m) \in SUBSET RouteCallers
  BY DEF Pending
<1>2. IsFiniteSet(Pending(calls, m))
  BY <1>1, FS_Subset, RoutingAssumption
<1> QED BY <1>2, FS_CardinalityType

\* A call fails on another model, or is over.
LEMMA PendingChanges ==
  ASSUME routed \in [RouteCallers -> RoutedRecord], NEW a \in RouteCallers, NEW q,
         routed' = [routed EXCEPT ![a] = q], NEW m
  PROVE  /\ (FailedOn(q, m) <=> FailedOn(routed[a], m)) => Cardinality(Pending(routed', m)) = Cardinality(Pending(routed, m))
         /\ FailedOn(q, m) /\ ~FailedOn(routed[a], m) => Cardinality(Pending(routed', m)) = Cardinality(Pending(routed, m)) + 1
         /\ ~FailedOn(q, m) /\ FailedOn(routed[a], m) => Cardinality(Pending(routed', m)) = Cardinality(Pending(routed, m)) - 1
<1>1. \A b \in RouteCallers : routed'[b] = IF b = a THEN q ELSE routed[b]
  OBVIOUS
<1> DEFINE P == Pending(routed, m)
           N == Pending(routed', m)
<1>2. IsFiniteSet(P) /\ Cardinality(P) \in Nat
  BY PendingCounted
<1>3. a \in P <=> FailedOn(routed[a], m)
  BY DEF Pending
<1>4. N = IF FailedOn(q, m) THEN P \cup {a} ELSE P \ {a}
  BY <1>1 DEF Pending
<1> HIDE DEF P, N
<1>5. /\ Cardinality(P \cup {a}) = IF a \in P THEN Cardinality(P) ELSE Cardinality(P) + 1
      /\ Cardinality(P \ {a}) = IF a \in P THEN Cardinality(P) - 1 ELSE Cardinality(P)
  BY <1>2, FS_AddElement, FS_RemoveElement
<1>6. /\ (FailedOn(q, m) <=> FailedOn(routed[a], m)) => Cardinality(N) = Cardinality(P)
      /\ FailedOn(q, m) /\ ~FailedOn(routed[a], m) => Cardinality(N) = Cardinality(P) + 1
      /\ ~FailedOn(q, m) /\ FailedOn(routed[a], m) => Cardinality(N) = Cardinality(P) - 1
  <2>1. CASE FailedOn(q, m)
    BY <1>2, <1>3, <1>4, <1>5, <2>1
  <2>2. CASE ~FailedOn(q, m)
    BY <1>2, <1>3, <1>4, <1>5, <2>2
  <2> QED BY <2>1, <2>2
<1> QED BY <1>6 DEF P, N

LEMMA RowsDiffer ==
  ASSUME NEW m, NEW n
  PROVE  /\ WonOn(m) # LostOn(n) /\ (WonOn(m) = WonOn(n) => m = n) /\ (LostOn(m) = LostOn(n) => m = n)
         /\ WonOn(m) # Damaged /\ LostOn(m) # Damaged
         /\ m \in Models => WonOn(m) \in Attempted /\ LostOn(m) \in Attempted
<1>1. /\ WonOn(m).model = m /\ WonOn(n).model = n /\ WonOn(m).ok = TRUE /\ LostOn(n).ok = FALSE
      /\ LostOn(m).model = m /\ LostOn(n).model = n
  BY DEF WonOn, LostOn
<1>2. TRUE # FALSE
  OBVIOUS
<1>3. WonOn(m) # LostOn(n)
  BY <1>1, <1>2, Zenon
<1>4. WonOn(m) # Damaged /\ LostOn(m) # Damaged
  <2>1. "corrupt" \in DOMAIN Damaged
    BY DEF Damaged
  <2>2. "corrupt" \notin DOMAIN WonOn(m) /\ "corrupt" \notin DOMAIN LostOn(m)
    BY DEF WonOn, LostOn
  <2> QED BY <2>1, <2>2
<1>5. m \in Models => WonOn(m) \in Attempted /\ LostOn(m) \in Attempted
  BY DEF WonOn, LostOn, Attempted
<1> QED BY <1>1, <1>3, <1>4, <1>5

\* What RecordAttempts appends for the call q that ends with the row last.
Recorded(q, last) == [i \in 1..q.at |-> IF i = q.at THEN last ELSE LostOn(q.chain[i])]

LEMMA RecordedCount ==
  ASSUME NEW q, CallSound(q), q.step = "calling", NEW m \in Models,
         NEW last, last = WonOn(q.chain[q.at]) \/ last = LostOn(q.chain[q.at])
  PROVE  /\ Recorded(q, last) \in Seq(Attempted)
         /\ TimesIn(Recorded(q, last), WonOn(m)) \in {0, 1}
         /\ TimesIn(Recorded(q, last), WonOn(m)) = 1 => last = WonOn(m)
         /\ TimesIn(Recorded(q, last), LostOn(m)) \in {0, 1}
         /\ TimesIn(Recorded(q, last), LostOn(m)) = 1 => FailedOn(q, m) \/ last = LostOn(m)
<1> DEFINE g == Recorded(q, last)
<1>1. /\ q.at \in Nat /\ q.at >= 1 /\ q.at \in 1..Len(q.chain) /\ q.chain \in Seq(Models) /\ Len(q.chain) \in Nat
      /\ \A i, k \in 1..Len(q.chain) : q.chain[i] = q.chain[k] => i = k
  BY DEF CallSound, RoutedRecord
<1>2. \A i \in 1..q.at : i \in 1..Len(q.chain) /\ q.chain[i] \in Models
  BY <1>1
<1>3. \A i \in 1..q.at : (IF i = q.at THEN last ELSE LostOn(q.chain[i])) \in Attempted
  BY <1>1, <1>2, RowsDiffer
<1>4. g \in Seq(Attempted) /\ DOMAIN g = 1..q.at
      /\ \A i \in 1..q.at : g[i] = IF i = q.at THEN last ELSE LostOn(q.chain[i])
  BY <1>1, <1>3 DEF Recorded
<1> HIDE DEF g
<1>5. \A i \in DOMAIN g : \/ g[i] = LostOn(q.chain[i])
                          \/ i = q.at /\ g[i] = last /\ last = WonOn(q.chain[i])
  BY <1>4
<1>6. \A i, k \in DOMAIN g : g[i] = g[k] => i = k
  <2> SUFFICES ASSUME NEW i \in DOMAIN g, NEW k \in DOMAIN g, g[i] = g[k]  PROVE q.chain[i] = q.chain[k]
    BY <1>1, <1>2, <1>4
  <2> QED BY <1>5, RowsDiffer
<1>7. ASSUME NEW x
      PROVE  \/ TimesIn(g, x) = 0
             \/ TimesIn(g, x) = 1 /\ \E i \in DOMAIN g : g[i] = x
  <2>1. \A i, k \in DOMAIN g : g[i] = x /\ g[k] = x => i = k
    BY <1>6
  <2> QED BY <2>1, CountOfOne
<1>8. TimesIn(g, WonOn(m)) = 1 => last = WonOn(m)
  <2> SUFFICES ASSUME NEW i \in DOMAIN g, g[i] = WonOn(m)  PROVE last = WonOn(m)
    BY <1>7
  <2> QED BY <1>5, RowsDiffer
<1>9. TimesIn(g, LostOn(m)) = 1 => FailedOn(q, m) \/ last = LostOn(m)
  <2> SUFFICES ASSUME NEW i \in DOMAIN g, g[i] = LostOn(m), last # LostOn(m)  PROVE FailedOn(q, m)
    BY <1>7
  <2>1. i \in 1..q.at /\ i # q.at
    BY <1>4
  <2>2. i \in 1..(q.at - 1)
    BY <1>1, <2>1
  <2>3. q.chain[i] = m
    BY <1>4, <2>1, RowsDiffer
  <2> QED BY <2>2, <2>3 DEF FailedOn
<1>10. TimesIn(g, WonOn(m)) \in {0, 1} /\ TimesIn(g, LostOn(m)) \in {0, 1}
  BY <1>7
<1> QED BY <1>4, <1>8, <1>9, <1>10 DEF g

LEMMA CallReplaced ==
  ASSUME RoutingInv, NEW a \in RouteCallers, NEW q, CallSound(q), routed' = [routed EXCEPT ![a] = q]
  PROVE  routed' \in [RouteCallers -> RoutedRecord] /\ \A b \in RouteCallers : CallSound(routed'[b])
<1>1. routed \in [RouteCallers -> RoutedRecord] /\ \A b \in RouteCallers : CallSound(routed[b])
  BY DEF RoutingInv, RoutingTyped
<1>2. q \in RoutedRecord
  BY DEF CallSound
<1> QED BY <1>1, <1>2

\* The invariant after a step, from its parts.
LEMMA RoutingAssembled ==
  ASSUME history' \in Seq(Attempted), filed' \in Seq(Attempted \cup {Damaged}),
         made' \in [Models -> [won : Nat, lost : Nat]],
         routed' \in [RouteCallers -> RoutedRecord], \A b \in RouteCallers : CallSound(routed'[b]),
         Counted(history', filed', routed', made')
  PROVE  RoutingInv'
BY DEF RoutingInv, RoutingTyped

LEMMA RouteKeeps ==
  ASSUME RoutingInv, NEW a \in RouteCallers, Route(a)
  PROVE  RoutingInv'
<1>1. PICK r \in RouteRequests :
        routed' = [routed EXCEPT ![a] =
          IF Ranked(r) = <<>> THEN [NoCallYet EXCEPT !.step = "refused", !.ask = r]
          ELSE [step |-> "calling", ask |-> r, at |-> 1,
                chain |-> SubSeq(Ranked(r), 1, Min({MaxFallbacks, Len(Ranked(r))}))]]
  BY DEF Route
<1>2. UNCHANGED <<history, filed, made>> /\ routed[a].step # "calling"
  BY DEF Route
<1>3. history \in Seq(Attempted) /\ routed \in [RouteCallers -> RoutedRecord]
  BY DEF RoutingInv, RoutingTyped
<1> DEFINE placed == Ranked(r)
           n == Min({MaxFallbacks, Len(placed)})
           q == IF placed = <<>> THEN [NoCallYet EXCEPT !.step = "refused", !.ask = r]
                ELSE [step |-> "calling", ask |-> r, at |-> 1, chain |-> SubSeq(placed, 1, n)]
<1>4. /\ placed \in Seq(Models) /\ Len(placed) = Cardinality(Eligible(r)) /\ Len(placed) \in Nat
      /\ \A k, l \in 1..Len(placed) : placed[k] = placed[l] => k = l
      /\ r.place = "prefer_local" /\ (\E m \in Eligible(r) : CapableLocal(m)) =>
           1 \in 1..Len(placed) /\ CapableLocal(placed[1])
  BY <1>3, RankingIsComplete
<1>5. n = (IF MaxFallbacks <= Len(placed) THEN MaxFallbacks ELSE Len(placed)) /\ MaxFallbacks \in Nat /\ MaxFallbacks >= 1
      /\ n = Min({MaxFallbacks, Cardinality(Eligible(r))})
  <2>1. MaxFallbacks \in Int /\ Len(placed) \in Int
    BY <1>4, RoutingAssumption
  <2> QED BY <1>4, <2>1, LesserOfTwo, RoutingAssumption
<1> HIDE DEF n, placed
<1>6. ASSUME placed = <<>>  PROVE CallSound(q) /\ \A m : ~FailedOn(q, m)
  <2> DEFINE p == [step |-> "refused", ask |-> r, chain |-> <<>>, at |-> 0]
  <2>1. q = p
    BY <1>6 DEF NoCallYet
  <2>2. n = 0
    <3>1. Len(placed) = 0
      BY <1>6
    <3> QED BY <1>5, <3>1
  <2>3. RightChain(r, <<>>)
    <3>1. Len(placed) = 0 /\ Len(<<>>) = 0
      BY <1>6
    <3>2. ~(1 \in 1..Len(placed))
      BY <3>1
    <3>3. ~(r.place = "prefer_local" /\ \E m \in Eligible(r) : CapableLocal(m))
      BY <1>4, <3>2
    <3> QED BY <1>5, <2>2, <3>1, <3>3 DEF RightChain
  <2>4. p.step = "refused" /\ p.chain = <<>> /\ p.at = 0 /\ p.ask = r /\ p \in RoutedRecord /\ Len(p.chain) = 0
    BY DEF RoutedRecord, CallSteps
  <2> HIDE DEF p
  <2>5. CallSound(p)
    BY <2>3, <2>4 DEF CallSound
  <2> QED BY <2>1, <2>4, <2>5 DEF FailedOn
<1>7. ASSUME placed # <<>>  PROVE CallSound(q) /\ \A m : ~FailedOn(q, m)
  <2> DEFINE walk == SubSeq(placed, 1, n)
             p == [step |-> "calling", ask |-> r, at |-> 1, chain |-> walk]
  <2>1. n \in Nat /\ n >= 1 /\ n <= Len(placed)
    BY <1>4, <1>5, <1>7
  <2>2. walk \in Seq(Models) /\ Len(walk) = n /\ \A k \in 1..n : k \in 1..Len(placed) /\ walk[k] = placed[k]
    BY <1>4, <2>1
  <2> HIDE DEF walk
  <2>3. \A k, l \in 1..Len(walk) : walk[k] = walk[l] => k = l
    BY <1>4, <2>2
  <2>4. RightChain(r, walk)
    BY <1>4, <1>5, <2>1, <2>2 DEF RightChain
  <2>5. p.step = "calling" /\ p.chain = walk /\ p.at = 1 /\ p.ask = r /\ p \in RoutedRecord
    BY <2>2 DEF RoutedRecord, CallSteps
  <2>6. q = p
    BY <1>7 DEF walk
  <2> HIDE DEF p, q
  <2>7. CallSound(p)
    BY <2>1, <2>2, <2>3, <2>4, <2>5 DEF CallSound
  <2>8. \A m : ~FailedOn(p, m)
    BY <2>5 DEF FailedOn
  <2> QED BY <2>6, <2>7, <2>8
<1>8. routed' = [routed EXCEPT ![a] = q]
  BY <1>1 DEF n, placed
<1> HIDE DEF q
<1>9. CallSound(q) /\ \A m : ~FailedOn(q, m)
  BY <1>6, <1>7
<1>10. \A m : Cardinality(Pending(routed', m)) = Cardinality(Pending(routed, m))
  <2> TAKE m
  <2>1. ~FailedOn(routed[a], m)
    BY <1>2 DEF FailedOn
  <2> QED BY <1>3, <1>8, <1>9, <2>1, PendingChanges
<1>11. Counted(history', filed', routed', made')
  BY <1>2, <1>10 DEF RoutingInv, Counted
<1> QED BY <1>2, <1>8, <1>9, <1>11, CallReplaced, RoutingAssembled DEF RoutingInv, RoutingTyped

LEMMA CallingPlaces ==
  ASSUME NEW q, CallSound(q), q.step = "calling"
  PROVE  /\ q.at \in 1..Len(q.chain) /\ Len(q.chain) \in Nat /\ q.chain[q.at] \in Models
         /\ \A k, l \in 1..Len(q.chain) : q.chain[k] = q.chain[l] => k = l
         /\ ~FailedOn(q, q.chain[q.at])
<1>1. /\ q.at \in Nat /\ q.at >= 1 /\ q.at \in 1..Len(q.chain) /\ q.chain \in Seq(Models) /\ Len(q.chain) \in Nat
      /\ \A k, l \in 1..Len(q.chain) : q.chain[k] = q.chain[l] => k = l
  BY DEF CallSound, RoutedRecord
<1>2. q.chain[q.at] \in Models
  BY <1>1
<1>3. \A i \in 1..(q.at - 1) : i \in 1..Len(q.chain) /\ i # q.at
  BY <1>1
<1>4. ~FailedOn(q, q.chain[q.at])
  BY <1>1, <1>3 DEF FailedOn
<1> QED BY <1>1, <1>2, <1>4

\* Attempts recorded at the end of a call.
LEMMA AttemptsKeep ==
  ASSUME RoutingInv, NEW a \in RouteCallers, Calling(a),
         NEW last, last = WonOn(Called(a)) \/ last = LostOn(Called(a)), RecordAttempts(a, last),
         NEW q, CallSound(q), q.step # "calling", routed' = [routed EXCEPT ![a] = q],
         filed' = filed, made' \in [Models -> [won : Nat, lost : Nat]],
         \A m \in Models : /\ made'[m].won >= made[m].won /\ made'[m].lost >= made[m].lost
                           /\ last = WonOn(m) => made'[m].won = made[m].won + 1
                           /\ last = LostOn(m) => made'[m].lost = made[m].lost + 1
  PROVE  RoutingInv'
<1>1. /\ history \in Seq(Attempted) /\ made \in [Models -> [won : Nat, lost : Nat]]
      /\ filed \in Seq(Attempted \cup {Damaged})
      /\ routed \in [RouteCallers -> RoutedRecord] /\ CallSound(routed[a]) /\ routed[a].step = "calling"
  BY DEF RoutingInv, RoutingTyped, Calling
<1> DEFINE g == Recorded(routed[a], last)
<1>2. history' = history \o g
  BY DEF RecordAttempts, Recorded
<1>3. ASSUME NEW m \in Models
      PROVE  /\ g \in Seq(Attempted)
             /\ TimesIn(g, WonOn(m)) \in {0, 1} /\ (TimesIn(g, WonOn(m)) = 1 => last = WonOn(m))
             /\ TimesIn(g, LostOn(m)) \in {0, 1}
             /\ TimesIn(g, LostOn(m)) = 1 => FailedOn(routed[a], m) \/ last = LostOn(m)
  BY <1>1, RecordedCount DEF Called
<1>4. g \in Seq(Attempted)
  <2>1. routed[a].chain[routed[a].at] \in Models
    BY <1>1 DEF CallSound, RoutedRecord
  <2> QED BY <1>3, <2>1
<1> HIDE DEF g
<1>5. history' \in Seq(Attempted)
  BY <1>1, <1>2, <1>4, CountOfTwo
<1>6. ASSUME NEW m \in Models
      PROVE  /\ TimesIn(history', WonOn(m)) <= made'[m].won
             /\ TimesIn(history', LostOn(m)) + Cardinality(Pending(routed', m)) <= made'[m].lost
             /\ TimesIn(filed, WonOn(m)) <= made'[m].won /\ TimesIn(filed, LostOn(m)) <= made'[m].lost
  <2>1. /\ TimesIn(history, WonOn(m)) <= made[m].won
        /\ TimesIn(history, LostOn(m)) + Cardinality(Pending(routed, m)) <= made[m].lost
        /\ TimesIn(filed, WonOn(m)) <= made[m].won /\ TimesIn(filed, LostOn(m)) <= made[m].lost
    BY DEF RoutingInv, Counted
  <2>2. /\ TimesIn(history', WonOn(m)) <= TimesIn(history, WonOn(m)) + TimesIn(g, WonOn(m))
        /\ TimesIn(history', LostOn(m)) <= TimesIn(history, LostOn(m)) + TimesIn(g, LostOn(m))
    BY <1>1, <1>2, <1>4, CountOfTwo
  <2>3. /\ TimesIn(history, WonOn(m)) \in Nat /\ TimesIn(history', WonOn(m)) \in Nat
        /\ TimesIn(history, LostOn(m)) \in Nat /\ TimesIn(history', LostOn(m)) \in Nat
        /\ TimesIn(filed, WonOn(m)) \in Nat /\ TimesIn(filed, LostOn(m)) \in Nat
    BY <1>1, <1>5, RowsCounted
  <2>4. /\ made[m].won \in Nat /\ made[m].lost \in Nat /\ made'[m].won \in Nat /\ made'[m].lost \in Nat
    BY <1>1
  <2>5. Cardinality(Pending(routed, m)) \in Nat /\ Cardinality(Pending(routed', m)) \in Nat
    BY PendingCounted
  <2>6. ~FailedOn(q, m)
    BY DEF FailedOn
  <2>7. /\ FailedOn(routed[a], m) => Cardinality(Pending(routed', m)) = Cardinality(Pending(routed, m)) - 1
        /\ ~FailedOn(routed[a], m) => Cardinality(Pending(routed', m)) = Cardinality(Pending(routed, m))
    BY <1>1, <2>6, PendingChanges
  <2>8. /\ made'[m].won >= made[m].won /\ made'[m].lost >= made[m].lost
        /\ last = WonOn(m) => made'[m].won = made[m].won + 1
        /\ last = LostOn(m) => made'[m].lost = made[m].lost + 1
    OBVIOUS
  <2>9. TimesIn(history', WonOn(m)) <= made'[m].won
    BY <1>3, <2>1, <2>2, <2>3, <2>4, <2>8
  <2>10. TimesIn(history', LostOn(m)) + Cardinality(Pending(routed', m)) <= made'[m].lost
    <3>1. ~(FailedOn(routed[a], m) /\ last = LostOn(m))
      <4> SUFFICES ASSUME last = LostOn(m)  PROVE ~FailedOn(routed[a], m)
        OBVIOUS
      <4>1. Called(a) = m
        BY RowsDiffer
      <4> QED BY <1>1, <4>1, CallingPlaces DEF Called
    <3>2. CASE FailedOn(routed[a], m)
      <4>1. Cardinality(Pending(routed', m)) = Cardinality(Pending(routed, m)) - 1
        BY <2>7, <3>2
      <4>2. TimesIn(g, LostOn(m)) <= 1 /\ TimesIn(g, LostOn(m)) \in Nat
        BY <1>3
      <4> QED BY <2>1, <2>2, <2>3, <2>4, <2>5, <2>8, <4>1, <4>2
    <3>3. CASE ~FailedOn(routed[a], m) /\ last = LostOn(m)
      <4>1. Cardinality(Pending(routed', m)) = Cardinality(Pending(routed, m)) /\ made'[m].lost = made[m].lost + 1
        BY <2>7, <2>8, <3>3
      <4>2. TimesIn(g, LostOn(m)) <= 1 /\ TimesIn(g, LostOn(m)) \in Nat
        BY <1>3
      <4> QED BY <2>1, <2>2, <2>3, <2>4, <2>5, <4>1, <4>2
    <3>4. CASE ~FailedOn(routed[a], m) /\ last # LostOn(m)
      <4>1. Cardinality(Pending(routed', m)) = Cardinality(Pending(routed, m))
        BY <2>7, <3>4
      <4>2. TimesIn(g, LostOn(m)) = 0
        BY <1>3, <3>4
      <4> QED BY <2>1, <2>2, <2>3, <2>4, <2>5, <2>8, <4>1, <4>2
    <3> QED BY <3>2, <3>3, <3>4
  <2> QED BY <2>1, <2>3, <2>4, <2>8, <2>9, <2>10
<1>7. Counted(history', filed', routed', made')
  BY <1>6 DEF Counted
<1> QED BY <1>1, <1>5, <1>7, CallReplaced, RoutingAssembled

LEMMA SuccessKeeps ==
  ASSUME RoutingInv, NEW a \in RouteCallers, CallSucceeds(a)
  PROVE  RoutingInv'
<1> DEFINE c == routed[a]
           n == Called(a)
           q == [c EXCEPT !.step = "done"]
<1>1. /\ made \in [Models -> [won : Nat, lost : Nat]] /\ CallSound(c) /\ c.step = "calling" /\ c \in RoutedRecord
      /\ Calling(a) /\ RecordAttempts(a, WonOn(n)) /\ filed' = filed
  BY DEF CallSucceeds, Calling, RoutingInv, RoutingTyped, CallSound
<1>2. n \in Models
  BY <1>1, CallingPlaces DEF Called
<1>3. routed' = [routed EXCEPT ![a] = q]
  BY <1>1 DEF CallSucceeds
<1>4. q \in RoutedRecord /\ q.step = "done" /\ q.chain = c.chain /\ q.at = c.at /\ q.ask = c.ask
  BY <1>1 DEF RoutedRecord, CallSteps
<1>5. made' = [made EXCEPT ![n].won = @ + 1]
  BY DEF CallSucceeds
<1> HIDE DEF q, n, c
<1>6. CallSound(q)
  BY <1>1, <1>4 DEF CallSound
<1>7. made' \in [Models -> [won : Nat, lost : Nat]]
  BY <1>1, <1>2, <1>5
<1>8. \A m \in Models : /\ made'[m].won >= made[m].won /\ made'[m].lost >= made[m].lost
                        /\ m = n => made'[m].won = made[m].won + 1
  BY <1>1, <1>2, <1>5
<1>9. \A m : WonOn(n) # LostOn(m) /\ (WonOn(n) = WonOn(m) => m = n)
  BY RowsDiffer
<1> QED BY <1>1, <1>3, <1>4, <1>6, <1>7, <1>8, <1>9, AttemptsKeep DEF n

\* A step that leaves the history alone.
LEMMA QuietKeeps ==
  ASSUME RoutingInv, NEW a \in RouteCallers, NEW q, CallSound(q), routed' = [routed EXCEPT ![a] = q],
         history' = history, filed' = filed, made' \in [Models -> [won : Nat, lost : Nat]],
         \A m \in Models : /\ made'[m].won >= made[m].won /\ made'[m].lost >= made[m].lost
                           /\ FailedOn(q, m) /\ ~FailedOn(routed[a], m) => made'[m].lost = made[m].lost + 1
  PROVE  RoutingInv'
<1>1. /\ history \in Seq(Attempted) /\ made \in [Models -> [won : Nat, lost : Nat]]
      /\ filed \in Seq(Attempted \cup {Damaged}) /\ routed \in [RouteCallers -> RoutedRecord]
  BY DEF RoutingInv, RoutingTyped
<1>2. ASSUME NEW m \in Models
      PROVE  /\ TimesIn(history, WonOn(m)) <= made'[m].won
             /\ TimesIn(history, LostOn(m)) + Cardinality(Pending(routed', m)) <= made'[m].lost
             /\ TimesIn(filed, WonOn(m)) <= made'[m].won /\ TimesIn(filed, LostOn(m)) <= made'[m].lost
  <2>1. /\ TimesIn(history, WonOn(m)) <= made[m].won
        /\ TimesIn(history, LostOn(m)) + Cardinality(Pending(routed, m)) <= made[m].lost
        /\ TimesIn(filed, WonOn(m)) <= made[m].won /\ TimesIn(filed, LostOn(m)) <= made[m].lost
    BY DEF RoutingInv, Counted
  <2>2. /\ TimesIn(history, WonOn(m)) \in Nat /\ TimesIn(history, LostOn(m)) \in Nat
        /\ TimesIn(filed, WonOn(m)) \in Nat /\ TimesIn(filed, LostOn(m)) \in Nat
    BY <1>1, RowsCounted
  <2>3. /\ made[m].won \in Nat /\ made[m].lost \in Nat /\ made'[m].won \in Nat /\ made'[m].lost \in Nat
        /\ made'[m].won >= made[m].won /\ made'[m].lost >= made[m].lost
    BY <1>1
  <2>4. Cardinality(Pending(routed, m)) \in Nat /\ Cardinality(Pending(routed', m)) \in Nat
    BY PendingCounted
  <2>5. CASE FailedOn(q, m) /\ ~FailedOn(routed[a], m)
    <3>1. Cardinality(Pending(routed', m)) = Cardinality(Pending(routed, m)) + 1
      BY <1>1, <2>5, PendingChanges
    <3>2. made'[m].lost = made[m].lost + 1
      BY <2>5
    <3> QED BY <2>1, <2>2, <2>3, <2>4, <3>1, <3>2
  <2>6. CASE ~(FailedOn(q, m) /\ ~FailedOn(routed[a], m))
    <3>1. \/ Cardinality(Pending(routed', m)) = Cardinality(Pending(routed, m))
          \/ Cardinality(Pending(routed', m)) = Cardinality(Pending(routed, m)) - 1
      BY <1>1, <2>6, PendingChanges
    <3>2. Cardinality(Pending(routed', m)) <= Cardinality(Pending(routed, m))
      BY <2>4, <3>1
    <3> QED BY <2>1, <2>2, <2>3, <2>4, <3>2
  <2> QED BY <2>5, <2>6
<1>3. Counted(history', filed', routed', made')
  BY <1>2 DEF Counted
<1> QED BY <1>1, <1>3, CallReplaced, RoutingAssembled

LEMMA FailureKeeps ==
  ASSUME RoutingInv, NEW a \in RouteCallers, CallFails(a)
  PROVE  RoutingInv'
<1> DEFINE c == routed[a]
           n == Called(a)
           r == [c EXCEPT !.step = "raised"]
           w == [c EXCEPT !.at = @ + 1]
           b == [c EXCEPT !.step = "blocked"]
<1>1. /\ made \in [Models -> [won : Nat, lost : Nat]] /\ CallSound(c) /\ c.step = "calling" /\ c \in RoutedRecord
      /\ Calling(a) /\ filed' = filed
  BY DEF CallFails, Calling, RoutingInv, RoutingTyped, CallSound
<1>2. /\ n = c.chain[c.at] /\ n \in Models /\ c.at \in 1..Len(c.chain) /\ Len(c.chain) \in Nat
      /\ ~FailedOn(c, n)
  BY <1>1, CallingPlaces DEF Called
<1>3. \/ routed' = [routed EXCEPT ![a] = r] /\ history' = history
      \/ c.at < Len(c.chain) /\ routed' = [routed EXCEPT ![a] = w] /\ history' = history
      \/ ~(c.at < Len(c.chain)) /\ routed' = [routed EXCEPT ![a] = b] /\ RecordAttempts(a, LostOn(n))
  BY <1>1 DEF CallFails
<1>4. /\ r \in RoutedRecord /\ r.step = "raised" /\ r.chain = c.chain /\ r.at = c.at /\ r.ask = c.ask
      /\ b \in RoutedRecord /\ b.step = "blocked" /\ b.chain = c.chain /\ b.at = c.at /\ b.ask = c.ask
  BY <1>1 DEF RoutedRecord, CallSteps
<1>5. w \in RoutedRecord /\ w.step = "calling" /\ w.chain = c.chain /\ w.at = c.at + 1 /\ w.ask = c.ask
  <2> HIDE DEF c
  <2>1. c.at + 1 \in Nat
    BY <1>1 DEF RoutedRecord
  <2>2. /\ DOMAIN c = {"step", "ask", "chain", "at"} /\ c = [step |-> c.step, ask |-> c.ask, chain |-> c.chain, at |-> c.at]
        /\ c.step \in CallSteps /\ c.chain \in Seq(Models) /\ c.ask \in RouteRequests \cup {NoCallYet.ask}
    BY <1>1 DEF RoutedRecord
  <2>3. w = [step |-> c.step, ask |-> c.ask, chain |-> c.chain, at |-> c.at + 1]
    BY <2>2
  <2> HIDE DEF w
  <2> QED BY <1>1, <2>1, <2>2, <2>3 DEF RoutedRecord
<1>6. made' = [made EXCEPT ![n].lost = @ + 1]
  BY DEF CallFails
<1> HIDE DEF r, w, b, n, c
<1>7. made' \in [Models -> [won : Nat, lost : Nat]]
  BY <1>1, <1>2, <1>6
<1>8. \A m \in Models : /\ made'[m].won >= made[m].won /\ made'[m].lost >= made[m].lost
                        /\ m = n => made'[m].lost = made[m].lost + 1
  BY <1>1, <1>2, <1>6
<1>9. CASE routed' = [routed EXCEPT ![a] = r] /\ history' = history
  <2>1. CallSound(r)
    BY <1>1, <1>4 DEF CallSound
  <2>2. \A m : ~FailedOn(r, m)
    BY <1>4 DEF FailedOn
  <2> QED BY <1>1, <1>7, <1>8, <1>9, <2>1, <2>2, QuietKeeps
<1>10. CASE c.at < Len(c.chain) /\ routed' = [routed EXCEPT ![a] = w] /\ history' = history
  <2>1. w.at \in 0..Len(w.chain) /\ w.at >= 1
    BY <1>2, <1>5, <1>10
  <2>2. CallSound(w)
    BY <1>1, <1>5, <2>1 DEF CallSound
  <2>3. \A m : FailedOn(w, m) /\ ~FailedOn(c, m) => m = n
    <3> SUFFICES ASSUME NEW m, NEW i \in 1..(w.at - 1), c.chain[i] = m, ~FailedOn(c, m)  PROVE m = n
      BY <1>5 DEF FailedOn
    <3>1. i \notin 1..(c.at - 1)
      BY <1>1 DEF FailedOn
    <3>2. i = c.at
      BY <1>2, <1>5, <3>1
    <3> QED BY <1>2, <3>2
  <2>4. \A m \in Models : FailedOn(w, m) /\ ~FailedOn(routed[a], m) => made'[m].lost = made[m].lost + 1
    BY <1>8, <2>3 DEF c
  <2> QED BY <1>1, <1>7, <1>8, <1>10, <2>2, <2>4, QuietKeeps
<1>11. CASE ~(c.at < Len(c.chain)) /\ routed' = [routed EXCEPT ![a] = b] /\ RecordAttempts(a, LostOn(n))
  <2>1. c.at = Len(c.chain)
    BY <1>2, <1>11
  <2>2. CallSound(b)
    BY <1>1, <1>4, <2>1 DEF CallSound
  <2>3. \A m : LostOn(n) # WonOn(m) /\ (LostOn(n) = LostOn(m) => m = n)
    BY RowsDiffer
  <2> QED BY <1>1, <1>4, <1>7, <1>8, <1>11, <2>2, <2>3, AttemptsKeep DEF n
<1> QED BY <1>3, <1>9, <1>10, <1>11

LEMMA SameRows ==
  ASSUME RoutingInv, history' = history, made' = made, routed' = routed,
         filed' \in Seq(Attempted \cup {Damaged}),
         \A m \in Models : TimesIn(filed', WonOn(m)) <= made[m].won /\ TimesIn(filed', LostOn(m)) <= made[m].lost
  PROVE  RoutingInv'
<1>1. /\ history \in Seq(Attempted) /\ made \in [Models -> [won : Nat, lost : Nat]]
      /\ routed \in [RouteCallers -> RoutedRecord] /\ \A a \in RouteCallers : CallSound(routed[a])
      /\ Counted(history, filed, routed, made)
  BY DEF RoutingInv, RoutingTyped
<1>2. Counted(history', filed', routed', made')
  BY <1>1 DEF Counted
<1> QED BY <1>1, <1>2, RoutingAssembled

LEMMA SaveKeeps ==
  ASSUME RoutingInv, SaveHistory
  PROVE  RoutingInv'
<1>1. history' = history /\ made' = made /\ routed' = routed /\ filed' = history
  BY DEF SaveHistory
<1>2. history \in Seq(Attempted) /\ made \in [Models -> [won : Nat, lost : Nat]]
  BY DEF RoutingInv, RoutingTyped
<1>3. \A i \in DOMAIN history : history[i] \in Attempted \cup {Damaged}
  BY <1>2
<1>4. history \in Seq(Attempted \cup {Damaged})
  BY <1>2, <1>3
<1>5. ASSUME NEW m \in Models
      PROVE  TimesIn(history, WonOn(m)) <= made[m].won /\ TimesIn(history, LostOn(m)) <= made[m].lost
  <2>1. TimesIn(history, WonOn(m)) <= made[m].won /\ TimesIn(history, LostOn(m)) + Cardinality(Pending(routed, m)) <= made[m].lost
    BY DEF RoutingInv, Counted
  <2>2. TimesIn(history, LostOn(m)) \in Nat /\ Cardinality(Pending(routed, m)) \in Nat /\ made[m].lost \in Nat
    BY <1>2, RowsCounted, PendingCounted
  <2> QED BY <2>1, <2>2
<1> QED BY <1>1, <1>4, <1>5, SameRows

\* A row that is replaced.
LEMMA CountOfReplaced ==
  ASSUME NEW T, NEW h \in Seq(T), NEW j \in DOMAIN h, NEW y \in T, NEW g, g = [h EXCEPT ![j] = y], NEW x, y # x
  PROVE  g \in Seq(T) /\ TimesIn(g, x) <= TimesIn(h, x)
<1>1. DOMAIN g = DOMAIN h /\ \A i \in DOMAIN h : g[i] = IF i = j THEN y ELSE h[i]
  OBVIOUS
<1>2. g \in Seq(T)
  OBVIOUS
<1>3. {i \in DOMAIN g : g[i] = x} \in SUBSET {i \in DOMAIN h : h[i] = x}
  BY <1>1
<1>4. IsFiniteSet({i \in DOMAIN h : h[i] = x})
  BY RowsCounted
<1>5. Cardinality({i \in DOMAIN g : g[i] = x}) <= Cardinality({i \in DOMAIN h : h[i] = x})
  BY <1>3, <1>4, FS_Subset
<1> QED BY <1>2, <1>5 DEF TimesIn

LEMMA DamageKeeps ==
  ASSUME RoutingInv, DamageRow
  PROVE  RoutingInv'
<1>1. PICK j \in DOMAIN filed : filed' = [filed EXCEPT ![j] = Damaged]
  BY DEF DamageRow
<1>2. history' = history /\ made' = made /\ routed' = routed
  BY DEF DamageRow
<1>3. filed \in Seq(Attempted \cup {Damaged}) /\ made \in [Models -> [won : Nat, lost : Nat]]
  BY DEF RoutingInv, RoutingTyped
<1>4. ASSUME NEW x, x # Damaged
      PROVE  filed' \in Seq(Attempted \cup {Damaged}) /\ TimesIn(filed', x) <= TimesIn(filed, x)
  <2> DEFINE g == filed'
  <2>1. g = [filed EXCEPT ![j] = Damaged]
    BY <1>1
  <2> HIDE DEF g
  <2> DEFINE T == Attempted \cup {Damaged}
  <2>2. filed \in Seq(T) /\ Damaged \in T
    BY <1>3
  <2> HIDE DEF T
  <2>3. g \in Seq(T) /\ TimesIn(g, x) <= TimesIn(filed, x)
    BY <1>4, <2>1, <2>2, CountOfReplaced
  <2> QED BY <2>3 DEF g, T
<1>5. filed' \in Seq(Attempted \cup {Damaged})
  BY <1>4, RowsDiffer
<1>6. ASSUME NEW m \in Models
      PROVE  TimesIn(filed', WonOn(m)) <= made[m].won /\ TimesIn(filed', LostOn(m)) <= made[m].lost
  <2>1. TimesIn(filed, WonOn(m)) <= made[m].won /\ TimesIn(filed, LostOn(m)) <= made[m].lost
    BY DEF RoutingInv, Counted
  <2>2. TimesIn(filed', WonOn(m)) <= TimesIn(filed, WonOn(m)) /\ TimesIn(filed', LostOn(m)) <= TimesIn(filed, LostOn(m))
    BY <1>4, RowsDiffer
  <2>3. /\ TimesIn(filed, WonOn(m)) \in Nat /\ TimesIn(filed, LostOn(m)) \in Nat
        /\ TimesIn(filed', WonOn(m)) \in Nat /\ TimesIn(filed', LostOn(m)) \in Nat
        /\ made[m].won \in Nat /\ made[m].lost \in Nat
    BY <1>3, <1>5, RowsCounted
  <2> QED BY <2>1, <2>2, <2>3
<1> QED BY <1>2, <1>5, <1>6, SameRows

LEMMA IdleCallSound == NoCallYet \in RoutedRecord /\ CallSound(NoCallYet) /\ \A m : ~FailedOn(NoCallYet, m)
<1>1. /\ NoCallYet.step = "idle" /\ NoCallYet.chain = <<>> /\ NoCallYet.at = 0
      /\ NoCallYet \in RoutedRecord
  BY DEF NoCallYet, RoutedRecord, CallSteps
<1> HIDE DEF NoCallYet
<1>2. Len(NoCallYet.chain) = 0
  BY <1>1
<1> QED BY <1>1, <1>2 DEF CallSound, FailedOn

LEMMA NothingPending ==
  ASSUME NEW calls, \A a \in RouteCallers : calls[a] = NoCallYet
  PROVE  \A m : Cardinality(Pending(calls, m)) = 0
<1> TAKE m
<1>1. Pending(calls, m) = {}
  BY IdleCallSound DEF Pending
<1> QED BY <1>1, FS_EmptySet

LEMMA ReloadKeeps ==
  ASSUME RoutingInv, Reload
  PROVE  RoutingInv'
<1> DEFINE P == {i \in DOMAIN filed : filed[i] # Damaged}
<1>1. /\ history' = SelectAt(filed, P) /\ routed' = [a \in RouteCallers |-> NoCallYet]
      /\ filed' = filed /\ made' = made
  BY DEF Reload
<1>2. filed \in Seq(Attempted \cup {Damaged}) /\ made \in [Models -> [won : Nat, lost : Nat]]
  BY DEF RoutingInv, RoutingTyped
<1>3. P \in SUBSET (1..Len(filed)) /\ \A i \in P : filed[i] \in Attempted
  BY <1>2
<1> HIDE DEF P
<1>4. history' \in Seq(Attempted)
  <2>1. /\ SelectAt(filed, P) \in Seq(Attempted \cup {Damaged})
        /\ \A k \in 1..Len(SelectAt(filed, P)) : NthOf(P, k) \in P /\ SelectAt(filed, P)[k] = filed[NthOf(P, k)]
    BY <1>2, <1>3, Selected
  <2>2. \A k \in 1..Len(SelectAt(filed, P)) : SelectAt(filed, P)[k] \in Attempted
    BY <1>3, <2>1
  <2> QED BY <1>1, <2>1, <2>2
<1>5. ASSUME NEW x
      PROVE  TimesIn(history', x) <= TimesIn(filed, x)
  BY <1>1, <1>2, <1>3, CountOfSelected
<1>6. routed' \in [RouteCallers -> RoutedRecord] /\ \A a \in RouteCallers : routed'[a] = NoCallYet /\ CallSound(routed'[a])
  BY <1>1, IdleCallSound
<1>7. ASSUME NEW m \in Models
      PROVE  /\ TimesIn(history', WonOn(m)) <= made[m].won
             /\ TimesIn(history', LostOn(m)) + Cardinality(Pending(routed', m)) <= made[m].lost
             /\ TimesIn(filed, WonOn(m)) <= made[m].won /\ TimesIn(filed, LostOn(m)) <= made[m].lost
  <2>1. TimesIn(filed, WonOn(m)) <= made[m].won /\ TimesIn(filed, LostOn(m)) <= made[m].lost
    BY DEF RoutingInv, Counted
  <2>2. TimesIn(history', WonOn(m)) <= TimesIn(filed, WonOn(m)) /\ TimesIn(history', LostOn(m)) <= TimesIn(filed, LostOn(m))
    BY <1>5
  <2>3. /\ TimesIn(filed, WonOn(m)) \in Nat /\ TimesIn(filed, LostOn(m)) \in Nat
        /\ TimesIn(history', WonOn(m)) \in Nat /\ TimesIn(history', LostOn(m)) \in Nat
        /\ made[m].won \in Nat /\ made[m].lost \in Nat
    BY <1>2, <1>4, RowsCounted
  <2>4. Cardinality(Pending(routed', m)) = 0
    BY <1>6, NothingPending
  <2> QED BY <2>1, <2>2, <2>3, <2>4
<1>8. Counted(history', filed', routed', made')
  BY <1>1, <1>7 DEF Counted
<1> QED BY <1>1, <1>2, <1>4, <1>6, <1>8, RoutingAssembled

LEMMA RoutingStep == RoutingInv /\ [RoutingNext]_routingVars => RoutingInv'
<1> SUFFICES ASSUME RoutingInv, [RoutingNext]_routingVars  PROVE RoutingInv'
  OBVIOUS
<1>1. ASSUME UNCHANGED routingVars  PROVE RoutingInv'
  <2>1. history' = history /\ filed' = filed /\ made' = made /\ routed' = routed
    BY <1>1 DEF routingVars
  <2>2. /\ history \in Seq(Attempted) /\ filed \in Seq(Attempted \cup {Damaged})
        /\ made \in [Models -> [won : Nat, lost : Nat]]
        /\ routed \in [RouteCallers -> RoutedRecord] /\ \A a \in RouteCallers : CallSound(routed[a])
        /\ Counted(history, filed, routed, made)
    BY DEF RoutingInv, RoutingTyped
  <2> QED BY <2>1, <2>2, RoutingAssembled
<1>2. ASSUME NEW a \in RouteCallers, Route(a)  PROVE RoutingInv'
  BY <1>2, RouteKeeps
<1>3. ASSUME NEW a \in RouteCallers, CallSucceeds(a)  PROVE RoutingInv'
  BY <1>3, SuccessKeeps
<1>4. ASSUME NEW a \in RouteCallers, CallFails(a)  PROVE RoutingInv'
  BY <1>4, FailureKeeps
<1>5. ASSUME SaveHistory  PROVE RoutingInv'
  BY <1>5, SaveKeeps
<1>6. ASSUME DamageRow  PROVE RoutingInv'
  BY <1>6, DamageKeeps
<1>7. ASSUME Reload  PROVE RoutingInv'
  BY <1>7, ReloadKeeps
<1> QED BY <1>1, <1>2, <1>3, <1>4, <1>5, <1>6, <1>7 DEF RoutingNext

LEMMA RoutingBegins == RoutingInit => RoutingInv
<1> SUFFICES ASSUME RoutingInit  PROVE RoutingInv
  OBVIOUS
<1>1. /\ history = <<>> /\ filed = <<>> /\ made = [m \in Models |-> [won |-> 0, lost |-> 0]]
      /\ routed = [a \in RouteCallers |-> NoCallYet]
  BY DEF RoutingInit
<1>2. \A x : TimesIn(<<>>, x) = 0
  <2> TAKE x
  <2>1. {i \in DOMAIN <<>> : <<>>[i] = x} = {}
    OBVIOUS
  <2> QED BY <2>1, FS_EmptySet DEF TimesIn
<1>3. \A m : Cardinality(Pending(routed, m)) = 0
  BY <1>1, NothingPending
<1>4. \A a \in RouteCallers : routed[a] = NoCallYet
  BY <1>1
<1>5. RoutingTyped
  <2>1. routed \in [RouteCallers -> RoutedRecord] /\ \A a \in RouteCallers : CallSound(routed[a])
    BY <1>1, IdleCallSound
  <2>2. made \in [Models -> [won : Nat, lost : Nat]] /\ history \in Seq(Attempted) /\ filed \in Seq(Attempted \cup {Damaged})
    BY <1>1
  <2> QED BY <2>1, <2>2 DEF RoutingTyped
<1>6. \A m \in Models : made[m].won = 0 /\ made[m].lost = 0
  BY <1>1
<1>7. Counted(history, filed, routed, made)
  BY <1>1, <1>2, <1>3, <1>6 DEF Counted
<1> QED BY <1>5, <1>7 DEF RoutingInv

LEMMA RoutingIsJudged == RoutingInv => HistoryIsEarned /\ BlockedIsLast
<1> SUFFICES ASSUME RoutingInv  PROVE HistoryIsEarned /\ BlockedIsLast
  OBVIOUS
<1>1. /\ history \in Seq(Attempted) /\ made \in [Models -> [won : Nat, lost : Nat]]
      /\ \A a \in RouteCallers : CallSound(routed[a])
  BY DEF RoutingInv, RoutingTyped
<1>2. ASSUME NEW m \in Models
      PROVE  TimesIn(history, WonOn(m)) <= made[m].won /\ TimesIn(history, LostOn(m)) <= made[m].lost
  <2>1. TimesIn(history, WonOn(m)) <= made[m].won /\ TimesIn(history, LostOn(m)) + Cardinality(Pending(routed, m)) <= made[m].lost
    BY DEF RoutingInv, Counted
  <2>2. TimesIn(history, LostOn(m)) \in Nat /\ Cardinality(Pending(routed, m)) \in Nat /\ made[m].lost \in Nat
    BY <1>1, RowsCounted, PendingCounted
  <2> QED BY <2>1, <2>2
<1>3. ASSUME NEW a \in RouteCallers, routed[a].step = "blocked"
      PROVE  /\ routed[a].at = Len(routed[a].chain)
             /\ Cardinality(Range(routed[a].chain)) = Min({MaxFallbacks, Cardinality(Eligible(routed[a].ask))})
  <2> DEFINE c == routed[a].chain
             n == Len(c)
  <2>1. /\ routed[a].at = n /\ c \in Seq(Models) /\ n = Min({MaxFallbacks, Cardinality(Eligible(routed[a].ask))})
        /\ \A i, k \in 1..n : c[i] = c[k] => i = k
    BY <1>1, <1>3 DEF CallSound, RightChain, RoutedRecord
  <2> HIDE DEF c
  <2>2. n \in Nat /\ DOMAIN c = 1..n
    BY <2>1
  <2> HIDE DEF n
  <2>3. IsFiniteSet(1..n) /\ Cardinality(1..n) = n
    BY <2>2, FS_Interval
  <2>4. c \in [1..n -> Range(c)] /\ \A x \in Range(c) : \E i \in 1..n : c[i] = x
    <3>1. Range(c) = {c[i] : i \in 1..n}
      BY <2>2 DEF Range
    <3>2. c = [i \in 1..n |-> c[i]]
      BY <2>1, <2>2
    <3> QED BY <3>1, <3>2
  <2>5. c \in Surjection(1..n, Range(c)) /\ c \in Injection(1..n, Range(c))
    BY <2>1, <2>2, <2>4 DEF Surjection, Injection, IsInjective
  <2>6. Cardinality(Range(c)) = n
    BY <2>3, <2>5, FS_Surjection
  <2> QED BY <2>1, <2>6 DEF c, n
<1>4. ASSUME NEW a \in RouteCallers, routed[a].step # "idle", routed[a].ask.place = "prefer_local",
             \E m \in Eligible(routed[a].ask) : CapableLocal(m)
      PROVE  CapableLocal(routed[a].chain[1])
  BY <1>1, <1>4 DEF CallSound, RightChain
<1>5. HistoryIsEarned
  BY <1>2 DEF HistoryIsEarned
<1>6. BlockedIsLast
  BY <1>3, <1>4 DEF BlockedIsLast
<1> QED BY <1>5, <1>6

-----------------------------------------------------------------------------
(* The faults of a model, for every instance.                              *)

LEMMA EvalBegins == EvalInit => EvalInv
  BY EvalAssumption DEF EvalInit, EvalInv, NoCall, CallRecord, CoderRecord, CaseRecord

LEMMA OutagesJudged == EvalInv => OutagesAreExternal
  BY DEF EvalInv, OutagesAreExternal

\* The steps of the program that are steps of the evaluation, the chat and the router.
LEMMA ModelSteps ==
  ASSUME [Next]_vars
  PROVE  [ChatNext]_chatVars /\ [EvalNext]_evalVars /\ [RoutingNext]_routingVars
  BY DEF Next, vars

\* However calls fail and in whatever order they run, a chat is retried on another route
\* where there is one, only an outage makes an evaluation case BLOCKED_EXTERNAL, the router
\* ranks models by attempts that were made, whatever happened to its file, and a call that is
\* given up has tried as many eligible models as it may (LocalLLMProvider.chat,
\* execute_case, AgentRuntimeRouter.run, HistoryStore).
THEOREM FaultsStayJudged == Spec => []FaultsAreJudged
<1>1. Init => ChatInv /\ EvalInv /\ RoutingInv
  BY ChatBegins, EvalBegins, RoutingBegins DEF Init
<1>2. ChatInv /\ EvalInv /\ RoutingInv /\ [Next]_vars => ChatInv' /\ EvalInv' /\ RoutingInv'
  BY ModelSteps, ChatStep, EvalStep, RoutingStep
<1>3. ChatInv /\ EvalInv /\ RoutingInv => FaultsAreJudged
  BY ChatFailsOver, OutagesJudged, RoutingIsJudged DEF FaultsAreJudged
<1> QED BY <1>1, <1>2, <1>3, PTL DEF Spec

-----------------------------------------------------------------------------
(* Types of the trail on Postgres.                                         *)

Link == Nat \X {"ts", "later"}
Hashes == Seq(Link)
PgTrailRow == [seq : Nat, prev : Hashes, hash : Hashes]
DoneWriters == {a \in Auditors : writer[a].pc = "done"}

\* A hash ends with the number of its row, so no two rows have one.
PgTrailInv ==
  /\ writer \in [Auditors -> [pc : {"new", "read", "done"}, prev : Hashes]]
  /\ trail \in Seq(PgTrailRow)
  /\ IsFiniteSet(DoneWriters)
  /\ \A i \in DOMAIN trail : \E x \in {"ts", "later"} : trail[i].hash = Append(trail[i].prev, <<i, x>>)
  /\ PgAuditTypeOK

LEMMA EndsTell ==
  ASSUME NEW p \in Hashes, NEW q \in Hashes, NEW x, NEW y, Append(p, x) = Append(q, y)
  PROVE  x = y
<1>1. Len(p) = Len(q)
  <2>1. Len(Append(p, x)) = Len(p) + 1 /\ Len(Append(q, y)) = Len(q) + 1
    BY DEF Hashes
  <2> QED BY <2>1 DEF Hashes
<1>2. Append(p, x)[Len(p) + 1] = x /\ Append(q, y)[Len(q) + 1] = y
  BY DEF Hashes
<1> QED BY <1>1, <1>2

LEMMA PgTrailBegins == PgAuditInit => PgTrailInv
<1> SUFFICES ASSUME PgAuditInit  PROVE PgTrailInv
  OBVIOUS
<1>1. trail = <<>> /\ DOMAIN trail = {} /\ Len(trail) = 0 /\ Genesis \in Hashes
  BY DEF PgAuditInit, Genesis, Hashes
<1>2. /\ writer \in [Auditors -> [pc : {"new", "read", "done"}, prev : Hashes]]
      /\ \A a \in Auditors : writer[a].pc = "new" /\ writer[a].prev = Genesis
  BY <1>1 DEF PgAuditInit
<1>3. DoneWriters = {}
  BY <1>2 DEF DoneWriters
<1>4. IsFiniteSet(DoneWriters) /\ Cardinality(DoneWriters) = 0
  BY <1>3, FS_EmptySet
<1>5. PgAuditTypeOK
  BY <1>1, <1>2, <1>4 DEF PgAuditTypeOK, DoneWriters
<1> QED BY <1>1, <1>2, <1>4, <1>5 DEF PgTrailInv

LEMMA HeadKeeps ==
  ASSUME PgTrailInv, NEW a \in Auditors, ReadHead(a)
  PROVE  PgTrailInv'
<1> DEFINE head == IF trail = <<>> THEN Genesis ELSE trail[Len(trail)].hash
           q == [pc |-> "read", prev |-> head]
<1>1. writer[a].pc = "new" /\ writer' = [writer EXCEPT ![a] = q] /\ trail' = trail
  BY DEF ReadHead
<1>2. head \in Hashes /\ head \in {Genesis} \cup {trail[j].hash : j \in DOMAIN trail}
  <2>1. CASE trail = <<>>
    BY <2>1 DEF Genesis, Hashes
  <2>2. CASE trail # <<>>
    <3>1. Len(trail) \in DOMAIN trail
      BY <2>2 DEF PgTrailInv
    <3>2. trail[Len(trail)].hash \in Hashes
      <4>1. trail[Len(trail)] \in PgTrailRow
        BY <3>1 DEF PgTrailInv
      <4> QED BY <4>1 DEF PgTrailRow
    <3> QED BY <2>2, <3>1, <3>2
  <2> QED BY <2>1, <2>2
<1> HIDE DEF head
<1>3. /\ writer' \in [Auditors -> [pc : {"new", "read", "done"}, prev : Hashes]]
      /\ writer'[a].pc = "read" /\ writer'[a].prev = head
      /\ \A b \in Auditors : b # a => writer'[b] = writer[b]
  BY <1>1, <1>2 DEF PgTrailInv
<1>4. DoneWriters' = DoneWriters
  BY <1>1, <1>3 DEF DoneWriters
<1>5. PgAuditTypeOK'
  <2>1. \A b \in Auditors : writer'[b].prev \in {Genesis} \cup {trail[j].hash : j \in DOMAIN trail}
    BY <1>2, <1>3 DEF PgTrailInv, PgAuditTypeOK
  <2>2. /\ Len(trail) = Cardinality(DoneWriters)
        /\ \A i \in DOMAIN trail :
             /\ trail[i].seq = i
             /\ trail[i].prev \in {Genesis} \cup {trail[j].hash : j \in 1..i - 1}
             /\ \A j \in 1..i - 1 : trail[j].hash # trail[i].hash
    BY DEF PgTrailInv, PgAuditTypeOK, DoneWriters
  <2>3. Len(trail') = Cardinality(DoneWriters')
    BY <1>1, <1>4, <2>2
  <2> QED BY <1>1, <2>1, <2>2, <2>3 DEF PgAuditTypeOK, DoneWriters
<1> QED BY <1>1, <1>3, <1>4, <1>5 DEF PgTrailInv

LEMMA EntryKeeps ==
  ASSUME PgTrailInv, NEW a \in Auditors, NEW sameTime \in BOOLEAN, AppendAudit(a, sameTime)
  PROVE  PgTrailInv'
<1> DEFINE n == Len(trail) + 1
           x == IF sameTime THEN "ts" ELSE "later"
           p == writer[a].prev
           h == Append(p, <<n, x>>)
           new == [seq |-> n, prev |-> p, hash |-> h]
<1>1. writer[a].pc = "read" /\ trail' = Append(trail, new) /\ writer' = [writer EXCEPT ![a].pc = "done"]
  BY DEF AppendAudit
<1>2. /\ trail \in Seq(PgTrailRow) /\ Len(trail) = Cardinality(DoneWriters)
      /\ writer \in [Auditors -> [pc : {"new", "read", "done"}, prev : Hashes]]
      /\ IsFiniteSet(DoneWriters)
      /\ \A b \in Auditors : writer[b].prev \in {Genesis} \cup {trail[j].hash : j \in DOMAIN trail}
      /\ \A i \in DOMAIN trail :
           /\ trail[i].seq = i
           /\ trail[i].prev \in {Genesis} \cup {trail[j].hash : j \in 1..i - 1}
           /\ \A j \in 1..i - 1 : trail[j].hash # trail[i].hash
           /\ \E y \in {"ts", "later"} : trail[i].hash = Append(trail[i].prev, <<i, y>>)
  BY DEF PgTrailInv, PgAuditTypeOK, DoneWriters
<1>3. n \in Nat /\ DOMAIN trail = 1..(n - 1) /\ \A i \in DOMAIN trail : trail[i].prev \in Hashes
  <2>1. DOMAIN trail = 1..Len(trail) /\ Len(trail) \in Nat
    BY <1>2
  <2>2. \A i \in DOMAIN trail : trail[i] \in PgTrailRow
    BY <1>2
  <2> QED BY <2>1, <2>2 DEF PgTrailRow
<1>4. p \in Hashes /\ p \in {Genesis} \cup {trail[j].hash : j \in DOMAIN trail} /\ x \in {"ts", "later"}
  BY <1>2
<1> HIDE DEF x, p
<1>5. h \in Hashes /\ new \in PgTrailRow /\ new.seq = n /\ new.prev = p /\ new.hash = h
  <2>1. h \in Hashes
    BY <1>3, <1>4 DEF Hashes, Link
  <2> HIDE DEF h, n
  <2> QED BY <1>3, <1>4, <2>1 DEF PgTrailRow
<1>6. \A j \in DOMAIN trail : trail[j].hash # h
  <2> SUFFICES ASSUME NEW j \in DOMAIN trail, trail[j].hash = h  PROVE FALSE
    OBVIOUS
  <2>1. PICK y \in {"ts", "later"} : trail[j].hash = Append(trail[j].prev, <<j, y>>)
    BY <1>2
  <2>2. <<j, y>> = <<n, x>>
    BY <1>3, <1>4, <2>1, EndsTell
  <2>3. j = n
    BY <2>2
  <2> QED BY <1>3, <2>3
<1> HIDE DEF new
<1>7. /\ trail' \in Seq(PgTrailRow) /\ Len(trail') = n /\ DOMAIN trail' = 1..n
      /\ trail'[n] = new /\ \A i \in 1..(n - 1) : trail'[i] = trail[i]
  BY <1>1, <1>2, <1>5
<1>8. /\ writer' \in [Auditors -> [pc : {"new", "read", "done"}, prev : Hashes]]
      /\ writer'[a].pc = "done" /\ \A b \in Auditors : b # a => writer'[b] = writer[b]
      /\ \A b \in Auditors : writer'[b].prev = writer[b].prev
  BY <1>1, <1>2
<1>9. IsFiniteSet(DoneWriters') /\ Cardinality(DoneWriters') = n
  <2>1. DoneWriters' = DoneWriters \cup {a} /\ a \notin DoneWriters
    BY <1>1, <1>8 DEF DoneWriters
  <2> QED BY <1>2, <2>1, FS_AddElement
<1> HIDE DEF n, h
<1>10. \A i \in 1..n : i = n \/ i \in 1..(n - 1)
  BY <1>3
<1>11. \A i \in 1..n : \A j \in 1..(i - 1) : j \in 1..(n - 1)
  BY <1>3
<1>12. ASSUME NEW i \in 1..n
       PROVE  /\ trail'[i].seq = i
              /\ trail'[i].prev \in {Genesis} \cup {trail'[j].hash : j \in 1..i - 1}
              /\ \A j \in 1..i - 1 : trail'[j].hash # trail'[i].hash
              /\ \E y \in {"ts", "later"} : trail'[i].hash = Append(trail'[i].prev, <<i, y>>)
  <2>0. {trail'[j].hash : j \in 1..i - 1} = {trail[j].hash : j \in 1..i - 1}
    BY <1>7, <1>11
  <2>1. CASE i = n
    <3>1. trail'[i] = new /\ 1..i - 1 = DOMAIN trail
      BY <1>3, <1>7, <2>1
    <3>2. trail'[i].seq = i /\ trail'[i].prev = p /\ trail'[i].hash = h
      BY <1>5, <2>1, <3>1
    <3>3. \E y \in {"ts", "later"} : h = Append(p, <<i, y>>)
      BY <1>4, <2>1 DEF h
    <3>4. \A j \in 1..i - 1 : trail'[j].hash # h
      BY <1>3, <1>6, <1>7, <3>1
    <3> QED BY <1>4, <2>0, <3>1, <3>2, <3>3, <3>4
  <2>2. CASE i # n
    <3>1. i \in DOMAIN trail /\ trail'[i] = trail[i] /\ \A j \in 1..i - 1 : trail'[j] = trail[j]
      BY <1>3, <1>7, <1>10, <1>11, <2>2
    <3>2. trail'[i].prev \in {Genesis} \cup {trail'[j].hash : j \in 1..i - 1}
      <4>1. trail[i].prev \in {Genesis} \cup {trail[j].hash : j \in 1..i - 1}
        BY <1>2, <3>1
      <4> QED BY <2>0, <3>1, <4>1
    <3>3. \A j \in 1..i - 1 : trail'[j].hash # trail'[i].hash
      BY <1>2, <3>1
    <3> QED BY <1>2, <3>1, <3>2, <3>3
  <2> QED BY <2>1, <2>2
<1>13. \A b \in Auditors : writer'[b].prev \in {Genesis} \cup {trail'[j].hash : j \in DOMAIN trail'}
  <2>1. {trail[j].hash : j \in DOMAIN trail} \subseteq {trail'[j].hash : j \in DOMAIN trail'}
    <3>1. \A j \in DOMAIN trail : j \in DOMAIN trail' /\ trail'[j] = trail[j]
      BY <1>3, <1>7
    <3> QED BY <3>1
  <2> QED BY <1>2, <1>8, <2>1
<1>14. PgAuditTypeOK'
  BY <1>7, <1>9, <1>12, <1>13 DEF PgAuditTypeOK, DoneWriters
<1> QED BY <1>7, <1>8, <1>9, <1>12, <1>14 DEF PgTrailInv

LEMMA PgTrailStep == PgTrailInv /\ [PgAuditNext]_pgAuditVars => PgTrailInv'
<1> SUFFICES ASSUME PgTrailInv, [PgAuditNext]_pgAuditVars  PROVE PgTrailInv'
  OBVIOUS
<1>1. CASE UNCHANGED pgAuditVars
  <2>1. trail' = trail /\ writer' = writer
    BY <1>1 DEF pgAuditVars
  <2>2. DoneWriters' = DoneWriters
    BY <2>1 DEF DoneWriters
  <2>3. PgAuditTypeOK' <=> PgAuditTypeOK
    BY <2>1 DEF PgAuditTypeOK
  <2> QED BY <2>1, <2>2, <2>3 DEF PgTrailInv
<1> QED BY <1>1, HeadKeeps, EntryKeeps DEF PgAuditNext

-----------------------------------------------------------------------------
(* Types of the audit trail.                                               *)

\* The counter is ahead of the rows, and they are in its order.
SeqsInOrder ==
  /\ \A i \in DOMAIN events : events[i].seq \in 1..appended
  /\ \A i, k \in DOMAIN events : i < k => events[i].seq < events[k].seq

SeqInv ==
  /\ appended \in 0..EventBound /\ today \in 0..DayBound
  /\ SeqsInOrder
  /\ archive \subseteq 1..appended /\ accidents \subseteq 1..appended

\* Rows that are left are in their order.
LEMMA SeqsLeft ==
  ASSUME SeqsInOrder, appended' = appended, NEW f,
         \A j \in DOMAIN events' : f[j] \in DOMAIN events /\ events'[j].seq = events[f[j]].seq,
         \A j, k \in DOMAIN events' : j < k => f[j] < f[k]
  PROVE  SeqsInOrder'
  BY DEF SeqsInOrder

LEMMA SeqStep ==
  ASSUME RowsAreSound, SeqInv, [AuditNext]_auditVars
  PROVE  SeqInv'
<1> DEFINE n == Len(events)
<1>1. /\ events \in Seq(TrailRow) /\ n \in Nat /\ DOMAIN events = 1..n
      /\ appended \in Nat /\ EventBound \in Nat /\ DayBound \in Nat /\ today \in 0..DayBound
      /\ appended \in 0..EventBound /\ archive \subseteq 1..appended /\ accidents \subseteq 1..appended
      /\ SeqsInOrder
  BY AuditAssumption DEF RowsAreSound, SeqInv
<1>2. CASE AppendEvent
  <2> DEFINE l == IF events = <<>> THEN <<>> ELSE events[n].hash
             v == <<appended + 1, today, "as written">>
             r == [seq |-> appended + 1, ts |-> today, data |-> "as written", prev |-> l, hash |-> Append(l, v)]
  <2>1. /\ appended < EventBound /\ events' = Append(events, r) /\ appended' = appended + 1
        /\ UNCHANGED <<archive, today, accidents>>
    BY <1>2 DEF AppendEvent, EventHash, Payload
  <2>2. r.seq = appended + 1
    OBVIOUS
  <2> HIDE DEF r
  <2>3. /\ Len(events') = n + 1 /\ DOMAIN events' = 1..(n + 1)
        /\ events'[n + 1] = r /\ \A i \in 1..n : events'[i] = events[i]
    BY <1>1, <2>1
  <2>4. \A i \in 1..n : events[i].seq \in 1..appended
    BY <1>1 DEF SeqsInOrder
  <2>5. \A i \in 1..(n + 1) : i = n + 1 \/ i \in 1..n
    BY <1>1
  <2>6. \A i \in 1..(n + 1) : events'[i].seq \in 1..appended'
    <3> TAKE i \in 1..(n + 1)
    <3>1. CASE i = n + 1
      BY <1>1, <2>1, <2>2, <2>3, <3>1
    <3>2. CASE i \in 1..n
      <4>1. events'[i].seq \in 1..appended
        BY <2>3, <2>4, <3>2
      <4> QED BY <1>1, <2>1, <4>1
    <3> QED BY <2>5, <3>1, <3>2
  <2>7. ASSUME NEW i \in 1..(n + 1), NEW k \in 1..(n + 1), i < k  PROVE events'[i].seq < events'[k].seq
    <3>1. i \in 1..n
      BY <1>1, <2>7
    <3>2. CASE k \in 1..n
      BY <1>1, <2>3, <2>7, <3>1, <3>2 DEF SeqsInOrder
    <3>3. CASE k = n + 1
      <4>1. events'[i].seq \in 1..appended /\ events'[k].seq = appended + 1
        BY <2>2, <2>3, <2>4, <3>1, <3>3
      <4> QED BY <1>1, <4>1
    <3> QED BY <2>5, <3>2, <3>3
  <2>8. SeqsInOrder'
    BY <2>3, <2>6, <2>7 DEF SeqsInOrder
  <2>9. appended' \in 0..EventBound /\ 1..appended \subseteq 1..appended'
    BY <1>1, <2>1
  <2> QED BY <1>1, <2>1, <2>8, <2>9 DEF SeqInv
<1>3. CASE UNCHANGED <<events, appended, archive, accidents>> /\ today' \in 0..DayBound
  BY <1>1, <1>3 DEF SeqInv, SeqsInOrder
<1>4. ASSUME NEW cutoff \in 1..DayBound, NEW committed \in BOOLEAN, Prune(cutoff, committed)
      PROVE  SeqInv'
  <2>0. cutoff \in Nat
    BY <1>1
  <2>1. PICK m \in 0..n : /\ Old(cutoff) = SubSeq(events, 1, m)
                          /\ Kept(cutoff) = SubSeq(events, m + 1, n)
    BY <2>0, PruneSplits
  <2>2. m \in Nat /\ m <= n
    BY <1>1, <2>1
  <2>3. DOMAIN Old(cutoff) = 1..m /\ \A i \in 1..m : Old(cutoff)[i] = events[i] /\ i \in 1..n
    BY <1>1, <2>1, <2>2
  <2>4. Seqs(Old(cutoff)) \subseteq 1..appended
    BY <1>1, <2>3 DEF Seqs, SeqsInOrder
  <2>5. UNCHANGED <<appended, today, accidents>> /\ archive' \subseteq 1..appended'
    BY <1>1, <1>4, <2>4 DEF Prune
  <2>6. SeqsInOrder'
    <3>1. CASE events' = events
      BY <1>1, <2>5, <3>1 DEF SeqsInOrder
    <3>2. CASE events' = Kept(cutoff)
      <4> DEFINE f == [j \in 1..(n - m) |-> j + m]
      <4>1. DOMAIN events' = 1..(n - m) /\ \A i \in 1..(n - m) : events'[i] = events[i + m]
        <5>1. events' = SubSeq(events, m + 1, Len(events))
          BY <2>1, <3>2
        <5> QED BY <1>1, <2>1, <5>1, PartRows
      <4>2. \A j \in DOMAIN events' : f[j] \in DOMAIN events /\ events'[j].seq = events[f[j]].seq
        BY <1>1, <2>2, <4>1
      <4>3. \A j, k \in DOMAIN events' : j < k => f[j] < f[k]
        BY <1>1, <2>2, <4>1
      <4> HIDE DEF f
      <4> QED BY <1>1, <2>5, <4>2, <4>3, SeqsLeft
    <3> QED BY <1>4, <3>1, <3>2 DEF Prune
  <2> QED BY <1>1, <2>5, <2>6 DEF SeqInv
<1>5. ASSUME NEW i \in 1..EventBound, Alter(i)  PROVE SeqInv'
  <2>1. /\ i \in DOMAIN events /\ UNCHANGED <<appended, archive, today>>
        /\ accidents' = accidents \cup {events[i].seq}
        /\ events' = [events EXCEPT ![i] = [events[i] EXCEPT !.data = "altered"]]
    BY <1>1, <1>5 DEF Alter
  <2>2. DOMAIN events' = DOMAIN events /\ \A j \in DOMAIN events : events'[j].seq = events[j].seq
    <3>1. \A j \in DOMAIN events : events[j] \in TrailRow
      BY <1>1
    <3> QED BY <2>1, <3>1 DEF TrailRow
  <2>3. SeqsInOrder'
    BY <1>1, <2>1, <2>2 DEF SeqsInOrder
  <2>4. accidents' \subseteq 1..appended'
    BY <1>1, <2>1 DEF SeqsInOrder
  <2> QED BY <1>1, <2>1, <2>3, <2>4 DEF SeqInv
<1>6. ASSUME NEW i \in 1..EventBound, Lose(i)  PROVE SeqInv'
  <2> DEFINE f == [j \in 1..(n - 1) |-> IF j < i THEN j ELSE j + 1]
  <2>1. /\ i \in 1..(n - 1) /\ UNCHANGED <<appended, archive, today>>
        /\ accidents' = accidents \cup {events[i].seq}
        /\ events' = SubSeq(events, 1, i - 1) \o SubSeq(events, i + 1, n)
    BY <1>6 DEF Lose
  <2>2. DOMAIN events' = 1..(n - 1) /\ \A j \in 1..(n - 1) : f[j] \in 1..n /\ events'[j] = events[f[j]]
    BY <1>1, <2>1, OneRowOut
  <2>3. \A j, k \in 1..(n - 1) : j < k => f[j] < f[k]
    BY <1>1, <2>1
  <2> HIDE DEF f
  <2>4. SeqsInOrder'
    BY <1>1, <2>1, <2>2, <2>3, SeqsLeft
  <2>5. i \in 1..n
    BY <1>1, <2>1
  <2>6. accidents' \subseteq 1..appended'
    BY <1>1, <2>1, <2>5 DEF SeqsInOrder
  <2> QED BY <1>1, <2>1, <2>4, <2>6 DEF SeqInv
<1>7. CASE ReadRows \/ ReadAnchors \/ VerifyAgain \/ NextDay \/ UNCHANGED auditVars
  <2>1. UNCHANGED <<events, appended, archive, accidents>> /\ (today' = today \/ (today < DayBound /\ today' = today + 1))
    BY <1>7 DEF ReadRows, ReadAnchors, VerifyAgain, NextDay, auditVars
  <2>2. today' \in 0..DayBound
    BY <1>1, <2>1
  <2> QED BY <1>3, <2>1, <2>2
<1> QED BY <1>2, <1>4, <1>5, <1>6, <1>7 DEF AuditNext

LEMMA SeqBegins == AuditInit => SeqInv
  BY AuditAssumption DEF AuditInit, SeqInv, SeqsInOrder

LEMMA AuditTypes == AuditInv /\ SeqInv => AuditTypeOK
<1> SUFFICES ASSUME AuditInv, SeqInv  PROVE AuditTypeOK
  OBVIOUS
<1>0. events \in Seq(TrailRow)
  BY DEF AuditInv, RowsAreSound
<1>1. verifier.pc \in {"idle", "rows read", "done"} /\ verifier.intact \in BOOLEAN
  BY DEF AuditInv, VerdictIsSound
<1>2. \A i \in DOMAIN events : i > 1 => events[i - 1].seq < events[i].seq
  <2> SUFFICES ASSUME NEW i \in 1..Len(events), i > 1  PROVE events[i - 1].seq < events[i].seq
    BY <1>0
  <2>1. i - 1 \in DOMAIN events /\ i \in DOMAIN events /\ i - 1 < i
    BY <1>0
  <2> QED BY <2>1 DEF SeqInv, SeqsInOrder
<1>3. \A i \in DOMAIN events : events[i].data \in {"as written", "altered"}
  <2>1. \A i \in DOMAIN events : events[i] \in TrailRow
    BY <1>0
  <2> QED BY <2>1 DEF TrailRow
<1> QED BY <1>1, <1>2, <1>3 DEF AuditTypeOK, SeqInv, SeqsInOrder

-----------------------------------------------------------------------------
(* Types of the Postgres store.                                            *)

\* Of a row: its owner, if it is executing, and what its payload tells of the column.
RowTold(r) == /\ r.status \in Executing => r.owner \in Coordinators
              /\ r.told => r.cancel

PgRowsTold == \A m \in PgMissions : RowTold(pgRow[m])

LEMMA ToldKept ==
  ASSUME PgInv, PgRowsTold, NEW m \in PgMissions, NEW r, pgRow' = [pgRow EXCEPT ![m] = r], RowTold(r)
  PROVE  PgRowsTold'
<1>1. \A n \in PgMissions : pgRow'[n] = r \/ pgRow'[n] = pgRow[n]
  BY DEF PgInv
<1>2. \A n \in PgMissions : RowTold(pgRow'[n])
  BY <1>1 DEF PgRowsTold
<1> QED BY <1>2 DEF PgRowsTold, RowTold

LEMMA PgRowsStep ==
  ASSUME PgInv, PgRowsTold, [PgNext]_pgVars
  PROVE  PgRowsTold'
<1>1. \A m \in PgMissions : pgRow[m] \in PgRecord /\ RowTold(pgRow[m])
  BY DEF PgInv, PgRowsTold
<1>2. CASE pgRow' = pgRow
  BY <1>1, <1>2 DEF PgRowsTold, RowTold
<1>3. ASSUME NEW m \in PgMissions, InsertMission(m)  PROVE PgRowsTold'
  <2> DEFINE old == pgRow[m]
             r == [old EXCEPT !.status = "QUEUED"]
  <2>1. pgRow' = [pgRow EXCEPT ![m] = r] /\ old \in PgRecord /\ RowTold(old)
    BY <1>1, <1>3 DEF InsertMission, PgInv
  <2> HIDE DEF old
  <2>2. RowTold(r)
    BY <2>1 DEF RowTold, PgRecord, Executing
  <2> HIDE DEF r
  <2> QED BY <2>1, <2>2, ToldKept
<1>4. ASSUME NEW m \in PgMissions, RequestCancel(m)  PROVE PgRowsTold'
  <2> DEFINE old == pgRow[m]
             s == IF old.status = "QUEUED" THEN "CANCELLED" ELSE old.status
             r == [old EXCEPT !.cancel = TRUE, !.told = TRUE, !.status = s]
  <2>1. pgRow' = [pgRow EXCEPT ![m] = r] /\ old \in PgRecord /\ RowTold(old)
    BY <1>1, <1>4 DEF RequestCancel, PgInv
  <2>0. s \in Executing => s = old.status
    BY DEF Executing
  <2> HIDE DEF old, s
  <2>2. r.status = s /\ r.cancel /\ r.owner = old.owner
    BY <2>1 DEF PgRecord
  <2>3. RowTold(r)
    BY <2>0, <2>1, <2>2 DEF RowTold
  <2> HIDE DEF r
  <2> QED BY <2>1, <2>3, ToldKept
<1>5. ASSUME NEW c \in Coordinators, CommitClaim(c)  PROVE PgRowsTold'
  <2> DEFINE m == txn[c].rows[txn[c].at]
             old == pgRow[m]
             r == [old EXCEPT !.status = "RUNNING", !.owner = c, !.attempt = old.attempt + 1]
  <2>1. m \in PgMissions
    <3>1. txn[c].at \in DOMAIN txn[c].rows
      BY <1>5 DEF CommitClaim, PgInv
    <3> QED BY <3>1, HeldRows
  <2>2. pgRow' = [pgRow EXCEPT ![m] = r] \/ pgRow' = pgRow
    BY <1>5 DEF CommitClaim
  <2>3. old \in PgRecord /\ RowTold(old)
    BY <1>1, <2>1
  <2> HIDE DEF old, m
  <2>4. r.owner = c /\ r.cancel = old.cancel /\ r.told = old.told
    BY <2>3 DEF PgRecord
  <2>5. RowTold(r)
    BY <2>3, <2>4 DEF RowTold
  <2> HIDE DEF r
  <2> QED BY <1>2, <2>1, <2>2, <2>5, ToldKept
<1>6. ASSUME NEW c \in Coordinators, NEW m \in PgMissions, Heartbeat(c, m)  PROVE PgRowsTold'
  <2> DEFINE old == pgRow[m]
             t == old.told \/ old.cancel
             r == [old EXCEPT !.told = t]
  <2>1. pgRow' = [pgRow EXCEPT ![m] = r] /\ old \in PgRecord /\ RowTold(old)
    BY <1>1, <1>6 DEF Heartbeat, PgInv
  <2>0. t => old.cancel
    BY <2>1 DEF RowTold
  <2> HIDE DEF old, t
  <2>2. r.status = old.status /\ r.cancel = old.cancel /\ r.owner = old.owner /\ r.told = t
    BY <2>1 DEF PgRecord
  <2>3. RowTold(r)
    BY <2>0, <2>1, <2>2 DEF RowTold
  <2> HIDE DEF r
  <2> QED BY <2>1, <2>3, ToldKept
<1>7. ASSUME NEW c \in Coordinators, NEW m \in PgMissions, NEW s \in {"VERIFYING", "RECOVERING"},
             NEW knew \in BOOLEAN, SaveOwned(c, m, s, knew)
      PROVE  PgRowsTold'
  <2> DEFINE old == pgRow[m]
             r == [old EXCEPT !.status = s, !.told = knew]
  <2>1. /\ pgRow' = [pgRow EXCEPT ![m] = r] /\ old \in PgRecord /\ old.owner = c
        /\ knew => old.cancel
    <3>1. pgRow' = [pgRow EXCEPT ![m].status = s, ![m].told = knew] /\ old.owner = c /\ (knew => old.cancel)
      BY <1>7 DEF SaveOwned
    <3>2. [pgRow EXCEPT ![m].status = s, ![m].told = knew] = [pgRow EXCEPT ![m] = r]
      BY <1>1 DEF PgInv, PgRecord
    <3> QED BY <1>1, <3>1, <3>2
  <2> HIDE DEF old
  <2>2. r.cancel = old.cancel /\ r.owner = old.owner /\ r.told = knew
    BY <2>1 DEF PgRecord
  <2>3. RowTold(r)
    BY <2>1, <2>2 DEF RowTold
  <2> HIDE DEF r
  <2> QED BY <2>1, <2>3, ToldKept
<1>8. ASSUME NEW c \in Coordinators, NEW m \in PgMissions, NEW s \in {"PASS", "FAIL"}, Finalize(c, m, s)
      PROVE  PgRowsTold'
  <2> DEFINE old == pgRow[m]
             r == [old EXCEPT !.status = s]
  <2>1. pgRow' = [pgRow EXCEPT ![m] = r] /\ old \in PgRecord /\ RowTold(old)
    BY <1>1, <1>8 DEF Finalize, PgInv
  <2>0. s \notin Executing
    BY DEF Executing
  <2> HIDE DEF old
  <2>2. RowTold(r)
    BY <2>0, <2>1 DEF RowTold, PgRecord
  <2> HIDE DEF r
  <2> QED BY <2>1, <2>2, ToldKept
<1> QED BY <1>2, <1>3, <1>4, <1>5, <1>6, <1>7, <1>8
        DEF PgNext, CheckDuplicate, ScanQueue, JudgeClaim, LoseConnection, pgVars

LEMMA PgRowsBegin == PgInit => PgRowsTold
  BY DEF PgInit, PgRowsTold, RowTold, NewRow, Executing

LEMMA PgTypes == PgInv /\ PgRowsTold => PgTypeOK
  BY DEF PgInv, PgRowsTold, RowTold, PgTypeOK, PgRecord, PgStatuses

-----------------------------------------------------------------------------
(* Types of the model call.                                                *)

\* What the log may hold when style h has had n attempts.
Budget(h, n) == (h - 1) * (Retries + 1) + n

\* The log has an entry for every attempt, of this style and of those given up.
LogBounds ==
  /\ answer = "none" => Len(log) <= Budget(hop, attempt)
  /\ Len(log) <= Budget(hop, attempt + 1)

LEMMA BudgetFacts ==
  ASSUME NEW h \in Nat, NEW n \in Nat, h >= 1
  PROVE  /\ Budget(h, n) \in Nat /\ Budget(h, n + 1) = Budget(h, n) + 1
         /\ n <= Retries => Budget(h, n + 1) <= Budget(h + 1, 0)
         /\ \A m \in Nat : h <= m /\ n <= Retries => Budget(h, n + 1) <= m * (Retries + 1)
<1> DEFINE R == Retries + 1
<1>1. R \in Nat /\ h - 1 \in Nat
  BY StylesAreListed
<1>2. (h - 1) * R \in Nat
  <2> HIDE DEF R
  <2> QED BY <1>1, SMT
<1>3. h * R = (h - 1) * R + R
  <2> HIDE DEF R
  <2> QED BY <1>1, SMT
<1>4. \A m \in Nat : h <= m => h * R <= m * R
  <2> HIDE DEF R
  <2> QED BY <1>1, SMT
<1>5. Budget(h, n) = (h - 1) * R + n /\ Budget(h, n + 1) = (h - 1) * R + n + 1
  BY <1>1, <1>2 DEF Budget
<1>6. Budget(h + 1, 0) = h * R
  BY <1>1, <1>2, <1>3 DEF Budget
<1>7. n <= Retries => n + 1 <= R
  BY StylesAreListed
<1>8. \A m \in Nat : m * R \in Nat
  <2> HIDE DEF R
  <2> QED BY <1>1, SMT
<1>9. n <= Retries => Budget(h, n + 1) <= h * R
  <2> HIDE DEF R
  <2> QED BY <1>1, <1>2, <1>3, <1>5, <1>7
<1>10. ASSUME NEW m \in Nat, h <= m, n <= Retries  PROVE Budget(h, n + 1) <= m * R
  <2>1. Budget(h, n + 1) <= h * R /\ h * R <= m * R /\ Budget(h, n + 1) \in Nat
    <3> HIDE DEF R
    <3> QED BY <1>2, <1>4, <1>5, <1>9, <1>10
  <2>2. h * R \in Nat /\ m * R \in Nat
    BY <1>8
  <2> HIDE DEF R
  <2> QED BY <2>1, <2>2
<1>11. Budget(h, n) \in Nat /\ Budget(h, n + 1) = Budget(h, n) + 1
  <2> HIDE DEF R
  <2> QED BY <1>2, <1>5
<1>12. \A m \in Nat : h <= m /\ n <= Retries => Budget(h, n + 1) <= m * (Retries + 1)
  <2> SUFFICES ASSUME NEW m \in Nat, h <= m, n <= Retries  PROVE Budget(h, n + 1) <= m * R
    OBVIOUS
  <2> QED BY <1>10
<1>13. n <= Retries => Budget(h, n + 1) <= Budget(h + 1, 0)
  <2> HIDE DEF R
  <2> QED BY <1>6, <1>9
<1> QED BY <1>11, <1>12, <1>13

LEMMA LogBoundsStep == ChatInv /\ LogBounds /\ [ChatNext]_chatVars => LogBounds'
<1> SUFFICES ASSUME ChatInv, LogBounds, [ChatNext]_chatVars  PROVE LogBounds'
  OBVIOUS
<1>1. /\ hop \in Nat /\ hop >= 1 /\ attempt \in Nat /\ attempt <= Retries /\ Len(log) \in Nat
      /\ log \in Seq(TryRecord) /\ (probing # 0 => answer = "none")
  BY StylesAreListed DEF ChatInv, ChatTyped
<1>2. /\ Budget(hop, attempt) \in Nat /\ Budget(hop, attempt + 1) = Budget(hop, attempt) + 1
      /\ Budget(hop, attempt + 1) <= Budget(hop + 1, 0)
      /\ Budget(hop + 1, 0) \in Nat /\ Budget(hop + 1, 0 + 1) = Budget(hop + 1, 0) + 1
      /\ Budget(hop, attempt + 1 + 1) = Budget(hop, attempt + 1) + 1
  <2>1. hop + 1 \in Nat /\ hop + 1 >= 1 /\ attempt + 1 \in Nat /\ 0 \in Nat
    BY <1>1
  <2>2. /\ Budget(hop, attempt) \in Nat /\ Budget(hop, attempt + 1) = Budget(hop, attempt) + 1
        /\ Budget(hop, attempt + 1) <= Budget(hop + 1, 0)
    BY <1>1, BudgetFacts
  <2>3. Budget(hop + 1, 0) \in Nat /\ Budget(hop + 1, 0 + 1) = Budget(hop + 1, 0) + 1
    BY <2>1, BudgetFacts
  <2>4. Budget(hop, attempt + 1 + 1) = Budget(hop, attempt + 1) + 1
    BY <1>1, <2>1, BudgetFacts
  <2> QED BY <2>2, <2>3, <2>4
<1>3. ASSUME NextStyle, answer = "none", Len(log') <= Budget(hop, attempt + 1), Len(log') \in Nat
      PROVE  LogBounds'
  <2>1. CASE hop' = hop + 1 /\ attempt' = 0
    <3>1. Len(log') <= Budget(hop + 1, 0) /\ Len(log') <= Budget(hop + 1, 0 + 1)
      BY <1>2, <1>3
    <3>2. Budget(hop, attempt)' = Budget(hop + 1, 0) /\ Budget(hop, attempt + 1)' = Budget(hop + 1, 0 + 1)
      BY <2>1 DEF Budget
    <3> QED BY <3>1, <3>2 DEF LogBounds
  <2>2. CASE answer' = "LLMError" /\ UNCHANGED <<hop, attempt>>
    BY <1>3, <2>2 DEF LogBounds, Budget
  <2> QED BY <1>3, <2>1, <2>2 DEF NextStyle
<1>4. CASE Resolve \/ Certify \/ RoutesChange \/ UNCHANGED chatVars
  BY <1>4 DEF Resolve, Certify, RoutesChange, chatVars, LogBounds, Budget
<1>5. CASE Unresolved
  <2>1. answer = "none" /\ log' = log /\ NextStyle
    BY <1>1, <1>5 DEF Unresolved
  <2>2. Len(log') <= Budget(hop, attempt + 1)
    BY <2>1 DEF LogBounds
  <2> QED BY <1>1, <1>3, <2>1, <2>2
<1>6. CASE Attempt
  <2>1. PICK e : log' = Append(log, e)
    BY <1>6 DEF Attempt, AttemptOn
  <2>2. answer = "none" /\ Len(log') = Len(log) + 1
    BY <1>1, <1>6, <2>1 DEF Attempt, AttemptOn
  <2>3. Len(log') <= Budget(hop, attempt + 1) /\ Len(log') \in Nat
    BY <1>1, <1>2, <2>2 DEF LogBounds
  <2>4. CASE NextStyle
    BY <1>3, <2>2, <2>3, <2>4
  <2>5. CASE answer' = "text" /\ UNCHANGED <<hop, attempt>>
    BY <2>3, <2>5 DEF LogBounds, Budget
  <2>6. CASE attempt' = attempt + 1 /\ UNCHANGED <<hop, answer>>
    <3>1. Budget(hop, attempt)' = Budget(hop, attempt + 1) /\ Budget(hop, attempt + 1)' = Budget(hop, attempt + 1 + 1)
      BY <2>6 DEF Budget
    <3>2. Len(log') <= Budget(hop, attempt + 1 + 1)
      BY <1>1, <1>2, <2>3
    <3> QED BY <2>3, <3>1, <3>2 DEF LogBounds
  <2> QED BY <1>6, <2>4, <2>5, <2>6 DEF Attempt, AttemptOn
<1> QED BY <1>4, <1>5, <1>6 DEF ChatNext

LEMMA LogBoundsBegin == ChatInit => LogBounds
<1> SUFFICES ASSUME ChatInit  PROVE LogBounds
  OBVIOUS
<1>1. Budget(1, 0) \in Nat /\ Budget(1, 0 + 1) = Budget(1, 0) + 1
  BY BudgetFacts
<1>2. Len(log) = 0
  BY DEF ChatInit
<1> QED BY <1>1, <1>2 DEF ChatInit, LogBounds

LEMMA ChatTypes == ChatInv /\ LogBounds => ChatTypeOK
<1> SUFFICES ASSUME ChatInv, LogBounds  PROVE ChatTypeOK
  OBVIOUS
<1>1. /\ hop \in Nat /\ hop >= 1 /\ hop <= Len(Styles) /\ attempt \in Nat /\ attempt <= Retries
      /\ Len(log) \in Nat /\ Len(Styles) \in Nat /\ Retries \in Nat
  BY StylesAreListed DEF ChatInv, ChatTyped
<1>2. Budget(hop, attempt + 1) <= Len(Styles) * (Retries + 1) /\ Budget(hop, attempt + 1) \in Nat
  <2>1. /\ Budget(hop, attempt) \in Nat /\ Budget(hop, attempt + 1) = Budget(hop, attempt) + 1
        /\ \A m \in Nat : hop <= m /\ attempt <= Retries => Budget(hop, attempt + 1) <= m * (Retries + 1)
    BY <1>1, BudgetFacts
  <2> QED BY <1>1, <2>1
<1>3. Len(Styles) * (Retries + 1) \in Nat
  BY <1>1, SMT
<1>4. Len(log) <= Len(Styles) * (Retries + 1)
  <2> DEFINE all == Len(Styles) * (Retries + 1)
  <2> HIDE DEF all
  <2>1. Len(log) <= Budget(hop, attempt + 1)
    BY DEF LogBounds
  <2> QED BY <1>1, <1>2, <1>3, <2>1 DEF all
<1>5. Len(default) <= 1
  <2>1. CASE default = <<>>
    BY <2>1
  <2>2. ASSUME NEW r \in RouteSet, default = <<r>>  PROVE Len(default) <= 1
    BY <2>2
  <2> QED BY <2>1, <2>2 DEF ChatInv, ChatTyped
<1> QED BY <1>4, <1>5 DEF ChatInv, ChatTyped, ChatTypeOK

-----------------------------------------------------------------------------
(* Types of the gateway.                                                   *)

InSteps(S) == {p \in Provisioners : prov[p].step \in S}

\* Steps that follow the making of a node, and of a connection; none of them is left
\* for an earlier one.
NodeMade == {"links", "link", "done", "failed"}
LinkMade == {"done", "failed"}

\* Every node was made by a command past that step, every connection too.
GatewayBounds ==
  /\ gateway \in {"down", "starting", "up"} /\ minted \in 1..MintBound
  /\ \A i \in DOMAIN keys : keys[i].key >= 1
  /\ \A p \in Provisioners : prov[p].step \in {"links", "link", "done"} => prov[p].node \in DOMAIN nodes
  /\ Len(nodes) <= Cardinality(InSteps(NodeMade))
  /\ \A i \in DOMAIN nodes : nodes[i] <= Cardinality(InSteps(LinkMade))

\* Command p goes to step s with node n in hand; the others stay.
Moved(p, s, n) == /\ prov'[p].step = s /\ prov'[p].node = n
                  /\ \A x \in Provisioners \ {p} : prov'[x] = prov[x]

LEMMA StepsCounted ==
  ASSUME NEW S
  PROVE  /\ IsFiniteSet(InSteps(S)) /\ Cardinality(InSteps(S)) \in Nat
         /\ Cardinality(InSteps(S)) <= Cardinality(Provisioners) /\ Cardinality(Provisioners) \in Nat
<1>1. IsFiniteSet(Provisioners) /\ InSteps(S) \subseteq Provisioners
  BY GatewayAssumption DEF InSteps
<1>2. IsFiniteSet(InSteps(S)) /\ Cardinality(InSteps(S)) <= Cardinality(Provisioners)
  BY <1>1, FS_Subset
<1> QED BY <1>1, <1>2, FS_CardinalityType

\* A command that does not leave the steps S counts once at most, and more when it comes.
LEMMA MovedCounts ==
  ASSUME NEW S, NEW p \in Provisioners, NEW s, NEW n, Moved(p, s, n), prov[p].step \in S => s \in S
  PROVE  /\ Cardinality(InSteps(S)) <= Cardinality(InSteps(S)') /\ Cardinality(InSteps(S)') \in Nat
         /\ prov[p].step \notin S /\ s \in S => Cardinality(InSteps(S)') = Cardinality(InSteps(S)) + 1
<1>1. IsFiniteSet(InSteps(S)) /\ Cardinality(InSteps(S)) \in Nat
  BY StepsCounted
<1>2. CASE prov[p].step \notin S /\ s \in S
  <2>1. InSteps(S)' = InSteps(S) \cup {p} /\ p \notin InSteps(S)
    BY <1>2 DEF InSteps, Moved
  <2> QED BY <1>1, <2>1, FS_AddElement
<1>3. CASE ~(prov[p].step \notin S /\ s \in S)
  <2>1. InSteps(S)' = InSteps(S)
    BY <1>3 DEF InSteps, Moved
  <2> QED BY <1>1, <1>3, <2>1
<1> QED BY <1>2, <1>3

LEMMA Moves ==
  ASSUME GatewayInv, NEW p \in Provisioners
  PROVE  /\ \A s \in SetupSteps : Step(p, s) => Moved(p, s, prov[p].node)
         /\ \A s \in SetupSteps, k \in Nat, d \in BOOLEAN : Holds(p, s, k, d) => Moved(p, s, prov[p].node)
         /\ \A s \in SetupSteps, n \in Nat : OnNode(p, s, n) => Moved(p, s, n)
<1>1. prov[p] \in SetupRecord /\ p \in DOMAIN prov
  BY DEF GatewayInv
<1>2. ASSUME NEW s \in SetupSteps, Step(p, s)  PROVE Moved(p, s, prov[p].node)
  <2>1. Stepped(prov[p], s).step = s /\ Stepped(prov[p], s).node = prov[p].node
    BY <1>1 DEF Stepped, SetupRecord
  <2>2. prov' = [prov EXCEPT ![p] = Stepped(prov[p], s)]
    BY <1>2 DEF Step, Stepped
  <2> QED BY <1>1, <2>1, <2>2 DEF Moved, GatewayInv
<1>3. ASSUME NEW s \in SetupSteps, NEW k \in Nat, NEW d \in BOOLEAN, Holds(p, s, k, d)
      PROVE  Moved(p, s, prov[p].node)
  <2>1. Held(prov[p], s, k, d).step = s /\ Held(prov[p], s, k, d).node = prov[p].node
    BY <1>1 DEF Held, SetupRecord
  <2>2. prov' = [prov EXCEPT ![p] = Held(prov[p], s, k, d)]
    BY <1>3 DEF Holds, Held
  <2> QED BY <1>1, <2>1, <2>2 DEF Moved, GatewayInv
<1>4. ASSUME NEW s \in SetupSteps, NEW n \in Nat, OnNode(p, s, n)  PROVE Moved(p, s, n)
  <2>1. Placed(prov[p], s, n).step = s /\ Placed(prov[p], s, n).node = n
    BY <1>1 DEF Placed, SetupRecord
  <2>2. prov' = [prov EXCEPT ![p] = Placed(prov[p], s, n)]
    BY <1>4 DEF OnNode, Placed
  <2> QED BY <1>1, <2>1, <2>2 DEF Moved, GatewayInv
<1> QED BY <1>2, <1>3, <1>4

\* A command goes on and leaves the nodes alone.
LEMMA MovedBounds ==
  ASSUME GatewayInv, GatewayBounds, NEW p \in Provisioners, NEW s, NEW n, Moved(p, s, n), UNCHANGED nodes,
         prov[p].step \in NodeMade => s \in NodeMade, prov[p].step \in LinkMade => s \in LinkMade,
         s \in {"links", "link", "done"} => n \in DOMAIN nodes,
         gateway' \in {"down", "starting", "up"}, minted' \in 1..MintBound,
         \A i \in DOMAIN keys' : keys'[i].key >= 1
  PROVE  GatewayBounds'
<1>1. /\ Cardinality(InSteps(NodeMade)) <= Cardinality(InSteps(NodeMade)')
      /\ Cardinality(InSteps(LinkMade)) <= Cardinality(InSteps(LinkMade)')
      /\ Cardinality(InSteps(NodeMade)') \in Nat /\ Cardinality(InSteps(LinkMade)') \in Nat
  BY MovedCounts
<1>2. Cardinality(InSteps(NodeMade)) \in Nat /\ Cardinality(InSteps(LinkMade)) \in Nat /\ Len(nodes) \in Nat
      /\ \A i \in DOMAIN nodes : nodes[i] \in Nat
  BY StepsCounted DEF GatewayInv
<1>3. Len(nodes') <= Cardinality(InSteps(NodeMade)')
  BY <1>1, <1>2 DEF GatewayBounds
<1>4. \A i \in DOMAIN nodes' : nodes'[i] <= Cardinality(InSteps(LinkMade)')
  BY <1>1, <1>2 DEF GatewayBounds
<1>5. \A x \in Provisioners : prov'[x].step \in {"links", "link", "done"} => prov'[x].node \in DOMAIN nodes'
  BY DEF Moved, GatewayBounds
<1> QED BY <1>3, <1>4, <1>5 DEF GatewayBounds, NodeMade, LinkMade, InSteps

\* Up to the key: no node is in hand.
LEMMA KeyBounds ==
  ASSUME GatewayInv, GatewayBounds, NEW p \in Provisioners,
         \/ FindDaemon(p) \/ AwaitDaemon(p) \/ ResolveAdmin(p) \/ ProveExisting(p)
         \/ ListKeys(p) \/ ProveMatch(p) \/ DeleteMatch(p) \/ Mint(p)
  PROVE  GatewayBounds'
<1>1. UNCHANGED nodes /\ prov[p].step \notin NodeMade /\ prov[p].step \notin LinkMade
  BY DEF FindDaemon, AwaitDaemon, ResolveAdmin, ProveExisting, ListKeys, ProveMatch, DeleteMatch, Mint,
         NodeMade, LinkMade
<1>2. gateway' \in {"down", "starting", "up"}
  BY DEF GatewayBounds, FindDaemon, AwaitDaemon, ResolveAdmin, ProveExisting, ListKeys, ProveMatch,
         DeleteMatch, Mint
<1>3. minted \in 1..MintBound /\ minted' \in 1..MintBound
  <2>1. minted \in 1..MintBound /\ MintBound \in Nat
    BY GatewayAssumption DEF GatewayBounds
  <2>2. minted' = minted \/ (minted < MintBound /\ minted' = minted + 1)
    BY DEF FindDaemon, AwaitDaemon, ResolveAdmin, ProveExisting, ListKeys, ProveMatch, DeleteMatch, Mint
  <2> QED BY <2>1, <2>2
<1>4. \A i \in DOMAIN keys' : keys'[i].key >= 1
  <2>1. CASE keys' = keys
    BY <2>1 DEF GatewayBounds
  <2>2. CASE DeleteMatch(p) /\ keys' # keys
    <3> DEFINE P == {i \in DOMAIN keys : keys[i].key # prov[p].key}
    <3>1. keys \in Seq(KeyRecord) /\ P \in SUBSET (1..Len(keys)) /\ keys' = SelectAt(keys, P)
      BY <2>2 DEF DeleteMatch, GatewayInv
    <3> HIDE DEF P
    <3>2. /\ SelectAt(keys, P) \in Seq(KeyRecord)
          /\ \A k \in 1..Len(SelectAt(keys, P)) : NthOf(P, k) \in P /\ SelectAt(keys, P)[k] = keys[NthOf(P, k)]
      BY <3>1, Selected
    <3>3. DOMAIN keys' = 1..Len(keys') /\ DOMAIN keys = 1..Len(keys)
      BY <3>1, <3>2
    <3> QED BY <3>1, <3>2, <3>3 DEF GatewayBounds
  <2>3. CASE Mint(p) /\ keys' # keys
    <3> DEFINE r == [key |-> minted', accepted |-> TRUE]
    <3>1. keys' = Append(keys, r) /\ keys \in Seq(KeyRecord) /\ r.key >= 1
      <4>1. keys' = Append(keys, r)
        BY <2>3 DEF Mint
      <4>2. minted' >= 1 /\ r.key = minted'
        BY <1>3
      <4> QED BY <4>1, <4>2 DEF GatewayInv
    <3> HIDE DEF r
    <3>2. DOMAIN keys' = 1..Len(keys) + 1 /\ DOMAIN keys = 1..Len(keys) /\ Len(keys) \in Nat
      BY <3>1
    <3>3. \A i \in 1..Len(keys) + 1 : keys'[i] = IF i \in DOMAIN keys THEN keys[i] ELSE r
      BY <3>1, <3>2
    <3> QED BY <3>1, <3>2, <3>3 DEF GatewayBounds
  <2> QED BY <2>1, <2>2, <2>3 DEF FindDaemon, AwaitDaemon, ResolveAdmin, ProveExisting, ListKeys, ProveMatch
<1>5. ASSUME NEW s \in SetupSteps \ {"links", "link", "done"}, Moved(p, s, prov[p].node)
      PROVE  GatewayBounds'
  BY <1>1, <1>2, <1>3, <1>4, <1>5, MovedBounds
<1>6. \A s \in {"wait", "admin", "existing", "list", "prove", "delete", "mint", "nodes", "failed"} :
         s \in SetupSteps \ {"links", "link", "done"}
  BY DEF SetupSteps
<1>7. ASSUME NEW s \in {"wait", "admin", "existing", "list", "mint", "failed"}, Step(p, s)
      PROVE  GatewayBounds'
  BY <1>5, <1>6, <1>7, Moves
<1>8. ASSUME NEW s \in {"list", "prove", "delete", "nodes"}, NEW k \in Nat, NEW d \in BOOLEAN, Holds(p, s, k, d)
      PROVE  GatewayBounds'
  BY <1>5, <1>6, <1>8, Moves
<1>9. \A v \in Verdicts(prov[p].key) : v.doubt \in BOOLEAN
  <2> TAKE v \in Verdicts(prov[p].key)
  <2>1. CASE v = [good |-> TRUE, doubt |-> TRUE]
    BY <2>1
  <2>2. CASE v = [good |-> KeyAccepted(prov[p].key), doubt |-> FALSE]
    BY <2>2
  <2> QED BY <2>1, <2>2 DEF Verdicts
<1>10. prov[p].key \in Nat
  BY DEF GatewayInv, SetupRecord
<1>11. CASE FindDaemon(p) \/ AwaitDaemon(p) \/ ResolveAdmin(p) \/ DeleteMatch(p)
  <2>1. \E s \in {"wait", "admin", "existing", "mint", "failed"} : Step(p, s)
    BY <1>11 DEF FindDaemon, AwaitDaemon, ResolveAdmin, DeleteMatch
  <2> QED BY <1>7, <2>1
<1>12. CASE ProveExisting(p)
  <2>1. \/ Step(p, "list") \/ Holds(p, "list", 0, FALSE)
        \/ \E v \in Verdicts(prov[p].key) : Holds(p, "nodes", prov[p].key, v.doubt)
    BY <1>12 DEF ProveExisting
  <2> QED BY <1>7, <1>8, <1>9, <1>10, <2>1
<1>13. CASE ListKeys(p)
  <2>1. ASSUME keys # <<>>  PROVE keys[1].key \in Nat
    <3>1. keys[1] \in KeyRecord
      BY <2>1 DEF GatewayInv
    <3> QED BY <3>1 DEF KeyRecord
  <2> QED BY <1>7, <1>8, <1>13, <2>1 DEF ListKeys
<1>14. CASE ProveMatch(p)
  <2>1. PICK v \in Verdicts(prov[p].key) : Holds(p, IF v.good THEN "nodes" ELSE "delete", prov[p].key, v.doubt)
    BY <1>14 DEF ProveMatch
  <2>2. CASE v.good
    BY <1>8, <1>9, <1>10, <2>1, <2>2
  <2>3. CASE ~v.good
    BY <1>8, <1>9, <1>10, <2>1, <2>3
  <2> QED BY <2>2, <2>3
<1>15. CASE Mint(p)
  <2>1. minted' \in Nat
    BY <1>3, GatewayAssumption
  <2> QED BY <1>7, <1>8, <1>15, <2>1 DEF Mint
<1> QED BY <1>11, <1>12, <1>13, <1>14, <1>15

LEMMA NodeBounds ==
  ASSUME GatewayInv, GatewayBounds, NEW p \in Provisioners,
         ListNodes(p) \/ MakeNode(p) \/ ListConnections(p) \/ MakeConnection(p)
  PROVE  GatewayBounds'
<1>1. /\ UNCHANGED <<gateway, keys, minted>> /\ nodes \in Seq(Nat) /\ DOMAIN nodes = 1..Len(nodes)
      /\ Len(nodes) \in Nat /\ prov[p].node \in Nat
  BY DEF ListNodes, MakeNode, ListConnections, MakeConnection, GatewayInv, SetupRecord
<1>2. /\ gateway' \in {"down", "starting", "up"} /\ minted' \in 1..MintBound
      /\ \A i \in DOMAIN keys' : keys'[i].key >= 1
  BY <1>1 DEF GatewayBounds
<1>3. ASSUME NEW s, NEW n, Moved(p, s, n), UNCHANGED nodes, prov[p].step \notin LinkMade,
             prov[p].step \in NodeMade => s \in NodeMade,
             s \in {"links", "link", "done"} => n \in DOMAIN nodes
      PROVE  GatewayBounds'
  BY <1>2, <1>3, MovedBounds
<1>4. {"nodes", "node", "links", "link", "done", "failed"} \subseteq SetupSteps
  BY DEF SetupSteps
<1>5. ASSUME NEW s \in {"node", "link", "done", "failed"}, Step(p, s), UNCHANGED nodes,
             prov[p].step \notin LinkMade, prov[p].step \in NodeMade => s \in NodeMade,
             s \in {"link", "done"} => prov[p].node \in DOMAIN nodes
      PROVE  GatewayBounds'
  <2>1. Moved(p, s, prov[p].node)
    BY <1>4, <1>5, Moves
  <2> QED BY <1>3, <1>5, <2>1
<1>6. CASE ListNodes(p)
  <2>1. prov[p].step = "nodes" /\ UNCHANGED nodes
    BY <1>6 DEF ListNodes
  <2>2. prov[p].step \notin LinkMade /\ prov[p].step \notin NodeMade
    BY <2>1 DEF LinkMade, NodeMade
  <2>3. CASE nodes # <<>> /\ OnNode(p, "links", 1)
    <3>1. Moved(p, "links", 1)
      BY <1>4, <2>3, Moves
    <3>2. 1 \in DOMAIN nodes
      BY <1>1, <2>3
    <3> QED BY <1>3, <2>1, <2>2, <3>1, <3>2
  <2> QED BY <1>5, <1>6, <2>1, <2>2, <2>3 DEF ListNodes
<1>7. CASE MakeNode(p)
  <2>1. prov[p].step = "node"
    BY <1>7 DEF MakeNode
  <2>2. prov[p].step \notin LinkMade /\ prov[p].step \notin NodeMade /\ "links" \in NodeMade /\ "links" \notin LinkMade
    BY <2>1 DEF LinkMade, NodeMade
  <2>3. CASE Step(p, "failed") /\ UNCHANGED nodes
    BY <1>5, <2>2, <2>3
  <2>4. CASE nodes' = Append(nodes, 0) /\ OnNode(p, "links", Len(nodes'))
    <3>1. /\ nodes' \in Seq(Nat) /\ Len(nodes') = Len(nodes) + 1 /\ DOMAIN nodes' = 1..Len(nodes) + 1
          /\ \A i \in DOMAIN nodes : nodes'[i] = nodes[i]
          /\ nodes'[Len(nodes) + 1] = 0
      BY <1>1, <2>4
    <3>2. Moved(p, "links", Len(nodes'))
      BY <1>1, <1>4, <2>4, <3>1, Moves
    <3>3. /\ Cardinality(InSteps(NodeMade)') = Cardinality(InSteps(NodeMade)) + 1
          /\ Cardinality(InSteps(LinkMade)) <= Cardinality(InSteps(LinkMade)')
          /\ Cardinality(InSteps(LinkMade)') \in Nat /\ Cardinality(InSteps(LinkMade)) \in Nat
          /\ Cardinality(InSteps(NodeMade)) \in Nat
      BY <2>2, <3>2, MovedCounts, StepsCounted
    <3>4. Len(nodes') <= Cardinality(InSteps(NodeMade)')
      BY <1>1, <3>1, <3>3 DEF GatewayBounds
    <3>5. ASSUME NEW i \in DOMAIN nodes'  PROVE nodes'[i] <= Cardinality(InSteps(LinkMade)')
      <4>1. CASE i \in DOMAIN nodes
        <5>1. nodes'[i] = nodes[i] /\ nodes[i] \in Nat /\ nodes[i] <= Cardinality(InSteps(LinkMade))
          BY <1>1, <3>1, <4>1 DEF GatewayBounds
        <5> QED BY <3>3, <5>1
      <4>2. CASE i = Len(nodes) + 1
        BY <3>1, <3>3, <4>2
      <4> QED BY <1>1, <3>1, <4>1, <4>2
    <3>6. \A x \in Provisioners : prov'[x].step \in {"links", "link", "done"} => prov'[x].node \in DOMAIN nodes'
      BY <1>1, <3>1, <3>2 DEF Moved, GatewayBounds
    <3> QED BY <1>2, <3>4, <3>5, <3>6 DEF GatewayBounds, InSteps, NodeMade, LinkMade
  <2> QED BY <1>7, <2>3, <2>4 DEF MakeNode
<1>8. CASE ListConnections(p)
  <2>1. prov[p].step = "links" /\ UNCHANGED nodes
    BY <1>8 DEF ListConnections
  <2>2. prov[p].step \notin LinkMade /\ prov[p].node \in DOMAIN nodes
    BY <2>1 DEF LinkMade, GatewayBounds
  <2>3. \A s \in {"link", "done", "failed"} : s \in NodeMade
    BY DEF NodeMade
  <2>4. \E s \in {"link", "done", "failed"} : Step(p, s)
    BY <1>8 DEF ListConnections
  <2> QED BY <1>5, <2>1, <2>2, <2>3, <2>4
<1>9. CASE MakeConnection(p)
  <2>1. prov[p].step = "link"
    BY <1>9 DEF MakeConnection
  <2>2. /\ prov[p].step \notin LinkMade /\ prov[p].node \in DOMAIN nodes
        /\ "failed" \in NodeMade /\ "done" \in NodeMade /\ "done" \in LinkMade
    BY <2>1 DEF LinkMade, NodeMade, GatewayBounds
  <2>3. CASE Step(p, "failed") /\ UNCHANGED nodes
    BY <1>5, <2>2, <2>3
  <2>4. CASE nodes' = [nodes EXCEPT ![prov[p].node] = @ + 1] /\ Step(p, "done")
    <3> DEFINE k == prov[p].node
    <3>1. Moved(p, "done", k)
      BY <1>4, <2>4, Moves
    <3>2. /\ Cardinality(InSteps(NodeMade)) <= Cardinality(InSteps(NodeMade)')
          /\ Cardinality(InSteps(LinkMade)') = Cardinality(InSteps(LinkMade)) + 1
          /\ Cardinality(InSteps(NodeMade)') \in Nat /\ Cardinality(InSteps(LinkMade)) \in Nat
          /\ Cardinality(InSteps(NodeMade)) \in Nat
      BY <2>2, <3>1, MovedCounts, StepsCounted
    <3>3. k \in DOMAIN nodes /\ nodes' = [nodes EXCEPT ![k] = nodes[k] + 1]
      BY <2>2, <2>4
    <3> HIDE DEF k
    <3>4. /\ DOMAIN nodes' = DOMAIN nodes /\ Len(nodes') = Len(nodes)
          /\ \A i \in DOMAIN nodes : nodes'[i] = nodes[i] \/ nodes'[i] = nodes[i] + 1
      BY <1>1, <3>3
    <3>5. Len(nodes') <= Cardinality(InSteps(NodeMade)')
      BY <1>1, <3>2, <3>4 DEF GatewayBounds
    <3>6. ASSUME NEW i \in DOMAIN nodes'  PROVE nodes'[i] <= Cardinality(InSteps(LinkMade)')
      <4>1. nodes[i] \in Nat /\ nodes[i] <= Cardinality(InSteps(LinkMade))
        BY <1>1, <3>4 DEF GatewayBounds
      <4>2. nodes'[i] = nodes[i] \/ nodes'[i] = nodes[i] + 1
        BY <3>4
      <4> QED BY <3>2, <4>1, <4>2
    <3>7. \A x \in Provisioners : prov'[x].step \in {"links", "link", "done"} => prov'[x].node \in DOMAIN nodes'
      BY <3>1, <3>3, <3>4 DEF Moved, GatewayBounds
    <3> QED BY <1>2, <3>5, <3>6, <3>7 DEF GatewayBounds, InSteps, NodeMade, LinkMade
  <2> QED BY <1>9, <2>3, <2>4 DEF MakeConnection
<1> QED BY <1>6, <1>7, <1>8, <1>9

LEMMA GatewayBoundsStep == GatewayInv /\ GatewayBounds /\ [GatewayNext]_gatewayVars => GatewayBounds'
<1> SUFFICES ASSUME GatewayInv, GatewayBounds, [GatewayNext]_gatewayVars  PROVE GatewayBounds'
  OBVIOUS
<1>1. keys \in Seq(KeyRecord) /\ nodes \in Seq(Nat)
  BY DEF GatewayInv
<1>2. CASE DaemonComesUp \/ UNCHANGED gatewayVars
  BY <1>2 DEF DaemonComesUp, gatewayVars, GatewayBounds, InSteps, NodeMade, LinkMade
<1>3. ASSUME NEW i \in DOMAIN keys, Revoke(i)  PROVE GatewayBounds'
  <2>1. keys' = [keys EXCEPT ![i].accepted = FALSE] /\ UNCHANGED <<gateway, minted, nodes, prov>>
    BY <1>3 DEF Revoke
  <2>2. DOMAIN keys' = DOMAIN keys /\ \A j \in DOMAIN keys : keys'[j].key = keys[j].key
    BY <1>1, <2>1 DEF KeyRecord
  <2> QED BY <2>1, <2>2 DEF GatewayBounds, InSteps, NodeMade, LinkMade
<1>4. ASSUME NEW i \in DOMAIN nodes, EndConnections(i)  PROVE GatewayBounds'
  <2>1. nodes' = [nodes EXCEPT ![i] = 0] /\ UNCHANGED <<gateway, keys, minted, prov>>
    BY <1>4 DEF EndConnections
  <2>2. /\ DOMAIN nodes' = DOMAIN nodes /\ Len(nodes') = Len(nodes)
        /\ \A j \in DOMAIN nodes : nodes'[j] = nodes[j] \/ nodes'[j] = 0
    BY <1>1, <2>1
  <2>3. Cardinality(InSteps(LinkMade)) \in Nat
    BY StepsCounted
  <2>4. \A j \in DOMAIN nodes' : nodes'[j] <= Cardinality(InSteps(LinkMade))
    BY <2>2, <2>3 DEF GatewayBounds
  <2> QED BY <2>1, <2>2, <2>4 DEF GatewayBounds, InSteps, NodeMade, LinkMade
<1> QED BY <1>2, <1>3, <1>4, KeyBounds, NodeBounds DEF GatewayNext

LEMMA GatewayBoundsBegin == GatewayInit => GatewayBounds
<1> SUFFICES ASSUME GatewayInit  PROVE GatewayBounds
  OBVIOUS
<1>1. Cardinality(InSteps(NodeMade)) \in Nat
  BY StepsCounted
<1>2. Len(nodes) = 0 /\ DOMAIN nodes = {}
  BY DEF GatewayInit
<1>3. minted \in 1..MintBound
  BY GatewayAssumption DEF GatewayInit
<1> QED BY <1>1, <1>2, <1>3 DEF GatewayInit, GatewayBounds

LEMMA GatewayTypes == GatewayInv /\ GatewayBounds => GatewayTypeOK
<1> SUFFICES ASSUME GatewayInv, GatewayBounds  PROVE GatewayTypeOK
  OBVIOUS
<1>1. /\ Cardinality(InSteps(NodeMade)) <= Cardinality(Provisioners) /\ Cardinality(InSteps(NodeMade)) \in Nat
      /\ Cardinality(InSteps(LinkMade)) <= Cardinality(Provisioners) /\ Cardinality(InSteps(LinkMade)) \in Nat
      /\ Cardinality(Provisioners) \in Nat
  BY StepsCounted
<1>2. Len(nodes) \in Nat /\ \A i \in DOMAIN nodes : nodes[i] \in Nat
  BY DEF GatewayInv
<1>3. Len(nodes) <= Cardinality(Provisioners)
  BY <1>1, <1>2 DEF GatewayBounds
<1>4. \A i \in DOMAIN nodes : nodes[i] <= Cardinality(Provisioners)
  BY <1>1, <1>2 DEF GatewayBounds
<1>5. ASSUME NEW i \in DOMAIN keys  PROVE keys[i] \in [key : 1..minted, accepted : BOOLEAN]
  <2>1. keys[i] \in KeyRecord /\ keys[i].key <= minted /\ keys[i].key >= 1 /\ minted \in Nat
    BY DEF GatewayInv, GatewayBounds
  <2>2. keys[i].key \in 1..minted
    BY <2>1 DEF KeyRecord
  <2> QED BY <2>1, <2>2 DEF KeyRecord
<1>6. \A p \in Provisioners : prov[p].key \in 0..minted /\ prov[p].doubt \in BOOLEAN
  BY DEF GatewayInv, SetupRecord
<1> QED BY <1>3, <1>4, <1>5, <1>6 DEF GatewayBounds, GatewayTypeOK

-----------------------------------------------------------------------------
(* Types of the evaluation and of the routing.                             *)

LEMMA EvalTypes == EvalInv => EvalTypeOK
  BY DEF EvalInv, EvalTypeOK, CallRecord, CoderRecord, CaseRecord

LEMMA RoutingTypes == RoutingInv => RoutingTypeOK
<1> SUFFICES ASSUME RoutingInv  PROVE RoutingTypeOK
  OBVIOUS
<1>1. /\ history \in Seq(Attempted) /\ filed \in Seq(Attempted \cup {Damaged})
      /\ \A a \in RouteCallers : routed[a] \in RoutedRecord /\ CallSound(routed[a])
  BY DEF RoutingInv, RoutingTyped
<1>2. Attempted = [model : Models, ok : BOOLEAN]
  BY DEF Attempted
<1>3. \A i \in DOMAIN filed : filed[i] \in [model : Models, ok : BOOLEAN] \cup {Damaged}
  BY <1>1, <1>2
<1>4. ASSUME NEW a \in RouteCallers
      PROVE  /\ routed[a].step \in {"idle", "calling", "done", "blocked", "refused", "raised"}
             /\ routed[a].at \in 0..Len(routed[a].chain)
             /\ routed[a].chain \in Seq(Models)
  BY <1>1 DEF RoutedRecord, CallSteps, CallSound
<1> QED BY <1>1, <1>2, <1>3, <1>4 DEF RoutingTypeOK

-----------------------------------------------------------------------------
(* The types of all parts, for every instance.                             *)

ServiceInv == AuditInv /\ PgInv /\ GatewayInv /\ ChatInv /\ EvalInv /\ RoutingInv
ServiceBounds == PgTrailInv /\ SeqInv /\ PgRowsTold /\ LogBounds /\ GatewayBounds
ServiceTypes == /\ AuditTypeOK /\ PgTypeOK /\ PgAuditTypeOK /\ GatewayTypeOK
                /\ ChatTypeOK /\ EvalTypeOK /\ RoutingTypeOK

LEMMA ServiceTypesKeep == Spec => []ServiceTypes
<1>1. Init => ServiceInv /\ ServiceBounds
  BY TrailBegins, PgBegins, GatewayBegins, ChatBegins, EvalBegins, RoutingBegins,
     PgTrailBegins, SeqBegins, PgRowsBegin, LogBoundsBegin, GatewayBoundsBegin
     DEF Init, ServiceInv, ServiceBounds
<1>2. ServiceInv /\ [Next]_vars => ServiceInv'
  <2>1. AuditInv /\ [AuditNext]_auditVars => AuditInv'
    BY TrailStep, VerdictStep DEF AuditInv
  <2> QED BY <2>1, ServiceSteps, ModelSteps, PgStep, GatewayStep, ChatStep, EvalStep, RoutingStep DEF ServiceInv
<1>3. ServiceInv /\ ServiceBounds /\ [Next]_vars => ServiceBounds'
  <2>1. [Next]_vars => [PgAuditNext]_pgAuditVars
    BY DEF Next, vars
  <2>2. AuditInv /\ SeqInv /\ [AuditNext]_auditVars => SeqInv'
    BY SeqStep DEF AuditInv
  <2> QED BY <2>1, <2>2, ServiceSteps, ModelSteps, PgTrailStep, PgRowsStep, LogBoundsStep, GatewayBoundsStep
          DEF ServiceInv, ServiceBounds
<1>4. ServiceInv /\ ServiceBounds => ServiceTypes
  <2>1. PgTrailInv => PgAuditTypeOK
    BY DEF PgTrailInv
  <2> QED BY <2>1, AuditTypes, PgTypes, GatewayTypes, ChatTypes, EvalTypes, RoutingTypes
          DEF ServiceInv, ServiceBounds, ServiceTypes
<1> QED BY <1>1, <1>2, <1>3, <1>4, PTL DEF Spec

\* The types and bounds of every part, for any number of requests, missions, rows, edits,
\* models, agents and commands: the sequence numbers of the trail have no repetition, a
\* worktree is removed only by a run that passed, what a plan changed has an original to
\* go back to, no call is logged more often than styles and retries allow, and setup
\* commands make one node and one connection each at most.
THEOREM PlatformTypes == Spec => []PlatformTypeOK
<1>1. RequestTypes /\ ChangeTypes /\ ServiceTypes => PlatformTypeOK
  BY DEF RequestTypes, ChangeTypes, ServiceTypes, PlatformTypeOK
<1> QED BY <1>1, RequestTypesKeep, ChangeTypesKeep, ServiceTypesKeep, PTL
=============================================================================
