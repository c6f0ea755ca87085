------------------------------- MODULE Gateway --------------------------------
(***************************************************************************)
(* Provisioning of the local 9router gateway, auto_provision of            *)
(* app/llm/ninerouter.py, by setup commands that may run at once: daemon,  *)
(* admin token, a usable gateway key, then a node and a connection for the *)
(* local model server, each reused where there is one.                     *)
(*                                                                         *)
(* The gateway is another program: it keeps keys by name and nodes by      *)
(* prefix (all here have the same one) and admits duplicates of both,      *)
(* revokes keys and ends connections at its owner's command, and may fail  *)
(* or be slow at any call.                                                 *)
(***************************************************************************)
EXTENDS Naturals, Sequences, FiniteSets, Selection

CONSTANTS Provisioners,  \* setup commands, each run once
          Holders,       \* those that have a key from an earlier run
          MintBound      \* bound: keys ever minted

ASSUME GatewayAssumption == /\ MintBound \in Nat \ {0} /\ Holders \subseteq Provisioners
                            /\ IsFiniteSet(Provisioners)

VARIABLES gateway,  \* "down", "starting", "up"
          keys,     \* the gateway's records of the name, in order: key and whether it is accepted
          minted,   \* keys made so far; a key is its number
          nodes,    \* provider nodes of the prefix, in order: their active connections
          prov      \* command -> step, key and node in hand, whether a fault kept the
                    \* key from being proved

gatewayVars == <<gateway, keys, minted, nodes, prov>>

\* One key is there at first, and a command may hold it.
GatewayInit ==
  /\ gateway \in {"down", "up"} /\ minted = 1
  /\ keys = <<[key |-> 1, accepted |-> TRUE]>> /\ nodes = <<>>
  /\ prov = [p \in Provisioners |->
               [step |-> "new", key |-> IF p \in Holders THEN 1 ELSE 0, doubt |-> FALSE, node |-> 0]]

KeyAccepted(k) == \E i \in DOMAIN keys : keys[i].key = k /\ keys[i].accepted

\* What a command knows of a key afterwards: the gateway refuses only a key it does
\* not accept; a fault, an upstream refusal, no route: the key counts as good.
Verdicts(k) == {[good |-> TRUE, doubt |-> TRUE]} \cup {[good |-> KeyAccepted(k), doubt |-> FALSE]}

Step(p, s) == prov' = [prov EXCEPT ![p].step = s]
Holds(p, s, k, doubt) == prov' = [prov EXCEPT ![p] = [@ EXCEPT !.step = s, !.key = k, !.doubt = doubt]]
OnNode(p, s, n) == prov' = [prov EXCEPT ![p] = [@ EXCEPT !.step = s, !.node = n]]

-----------------------------------------------------------------------------
(* ensure_daemon and resolve_admin                                         *)

FindDaemon(p) ==
  /\ prov[p].step = "new"
  /\ IF gateway = "up" THEN Step(p, "admin") /\ UNCHANGED gateway
     ELSE \/ Step(p, "failed") /\ UNCHANGED gateway    \* no CLI and none can be installed
          \/ Step(p, "wait") /\ gateway' = "starting"
  /\ UNCHANGED <<keys, minted, nodes>>

\* The daemon that was started is left running when it is too slow.
AwaitDaemon(p) ==
  /\ prov[p].step = "wait"
  /\ Step(p, IF gateway = "up" THEN "admin" ELSE "failed")
  /\ UNCHANGED <<gateway, keys, minted, nodes>>

\* A token from one of the data directories, accepted by the running daemon.
ResolveAdmin(p) ==
  /\ prov[p].step = "admin" /\ \E s \in {"existing", "failed"} : Step(p, s)
  /\ UNCHANGED <<gateway, keys, minted, nodes>>

-----------------------------------------------------------------------------
(* provision_gateway_key                                                   *)

ProveExisting(p) ==
  /\ prov[p].step = "existing"
  /\ IF prov[p].key = 0 THEN Step(p, "list")
     ELSE \E v \in Verdicts(prov[p].key) :
            IF v.good THEN Holds(p, "nodes", prov[p].key, v.doubt) ELSE Holds(p, "list", 0, FALSE)
  /\ UNCHANGED <<gateway, keys, minted, nodes>>

\* The first record of the name, if there is one.
ListKeys(p) ==
  /\ prov[p].step = "list"
  /\ \/ Step(p, "failed")
     \/ keys = <<>> /\ Step(p, "mint")
     \/ keys # <<>> /\ Holds(p, "prove", keys[1].key, FALSE)
  /\ UNCHANGED <<gateway, keys, minted, nodes>>

\* Mutant: a record of the name is replaced without a try.
ProveMatchNever(p) ==
  /\ prov[p].step = "prove" /\ Step(p, "delete") /\ UNCHANGED <<gateway, keys, minted, nodes>>

ProveMatch(p) ==
  /\ prov[p].step = "prove"
  /\ \E v \in Verdicts(prov[p].key) :
       Holds(p, IF v.good THEN "nodes" ELSE "delete", prov[p].key, v.doubt)
  /\ UNCHANGED <<gateway, keys, minted, nodes>>

\* The rejected record goes, if the call succeeds.
DeleteMatch(p) ==
  /\ prov[p].step = "delete"
  /\ \/ keys' = SelectAt(keys, {i \in DOMAIN keys : keys[i].key # prov[p].key})
     \/ keys' = keys
  /\ Step(p, "mint") /\ UNCHANGED <<gateway, minted, nodes>>

Mint(p) ==
  /\ prov[p].step = "mint"
  /\ \/ Step(p, "failed") /\ UNCHANGED <<keys, minted, nodes>>
     \/ /\ minted < MintBound /\ minted' = minted + 1
        /\ keys' = Append(keys, [key |-> minted', accepted |-> TRUE])
        /\ Holds(p, "nodes", minted', FALSE)
  /\ UNCHANGED <<gateway, nodes>>

-----------------------------------------------------------------------------
(* ensure_provider_node and ensure_provider_connection, for a local server *)

\* The first node of the prefix; it is refused if it has another address.
ListNodes(p) ==
  /\ prov[p].step = "nodes"
  /\ \/ Step(p, "failed")
     \/ nodes = <<>> /\ Step(p, "node")
     \/ nodes # <<>> /\ OnNode(p, "links", 1)
  /\ UNCHANGED <<gateway, keys, minted, nodes>>

MakeNode(p) ==
  /\ prov[p].step = "node"
  /\ \/ Step(p, "failed") /\ UNCHANGED nodes
     \/ nodes' = Append(nodes, 0) /\ OnNode(p, "links", Len(nodes'))
  /\ UNCHANGED <<gateway, keys, minted>>

ListConnections(p) ==
  /\ prov[p].step = "links"
  /\ \/ Step(p, "failed")
     \/ Step(p, IF nodes[prov[p].node] > 0 THEN "done" ELSE "link")
  /\ UNCHANGED <<gateway, keys, minted, nodes>>

MakeConnection(p) ==
  /\ prov[p].step = "link"
  /\ \/ Step(p, "failed") /\ UNCHANGED nodes
     \/ nodes' = [nodes EXCEPT ![prov[p].node] = @ + 1] /\ Step(p, "done")
  /\ UNCHANGED <<gateway, keys, minted>>

-----------------------------------------------------------------------------
(* The gateway and its owner                                               *)

DaemonComesUp == gateway = "starting" /\ gateway' = "up" /\ UNCHANGED <<keys, minted, nodes, prov>>

Revoke(i) == /\ keys[i].accepted /\ keys' = [keys EXCEPT ![i].accepted = FALSE]
             /\ UNCHANGED <<gateway, minted, nodes, prov>>

EndConnections(i) == /\ nodes[i] > 0 /\ nodes' = [nodes EXCEPT ![i] = 0]
                     /\ UNCHANGED <<gateway, keys, minted, prov>>

GatewayNext ==
  \/ \E p \in Provisioners :
       \/ FindDaemon(p) \/ AwaitDaemon(p) \/ ResolveAdmin(p) \/ ProveExisting(p)
       \/ ListKeys(p) \/ ProveMatch(p) \/ DeleteMatch(p) \/ Mint(p)
       \/ ListNodes(p) \/ MakeNode(p) \/ ListConnections(p) \/ MakeConnection(p)
  \/ DaemonComesUp
  \/ \E i \in DOMAIN keys : Revoke(i)
  \/ \E i \in DOMAIN nodes : EndConnections(i)

GatewaySpec == GatewayInit /\ [][GatewayNext]_gatewayVars

-----------------------------------------------------------------------------
(* Properties                                                              *)

\* Types; a command that goes on to connections has a node, and no command makes more
\* than one node and one connection.
GatewayTypeOK ==
  /\ gateway \in {"down", "starting", "up"} /\ minted \in 1..MintBound
  /\ \A i \in DOMAIN keys : keys[i] \in [key : 1..minted, accepted : BOOLEAN]
  /\ Len(nodes) <= Cardinality(Provisioners)
  /\ \A i \in DOMAIN nodes : nodes[i] <= Cardinality(Provisioners)
  /\ \A p \in Provisioners :
       /\ prov[p].key \in 0..minted /\ prov[p].doubt \in BOOLEAN
       /\ prov[p].step \in {"links", "link", "done"} => prov[p].node \in DOMAIN nodes

\* No command deletes a key the gateway accepts, whatever the others do meanwhile:
\* a key in use is never rotated away ("rotation happens ONLY for invalid local
\* credentials", ninerouter.py:1205-1208).
LiveKeysStay ==
  [][\A i \in DOMAIN keys : keys[i].accepted => \E j \in DOMAIN keys' : keys'[j].key = keys[i].key
    ]_gatewayVars

=============================================================================
