------------------------------ MODULE ApiIdentity ------------------------------
(***************************************************************************)
(* Who is behind a request and what it may change: resolve_principal       *)
(* (app/api/auth.py) over the identity stores (app/tenants/admins.py and   *)
(* clients.py), the matrix of app/api/rbac.py, and the management          *)
(* endpoints of app/main.py that change those stores.                      *)
(*                                                                         *)
(* A request reads the admin table, the client table and, without a match, *)
(* the admin table again to see whether the deployment is still open; each *)
(* read is a transaction of its own, and other requests change the tables  *)
(* in between.  A management request changes a table in one transaction    *)
(* and appends to the audit trail in the next one, which may fail.         *)
(***************************************************************************)
EXTENDS Naturals

CONSTANTS AdminNames, ClientNames, Requests,
          KeyBound,        \* bound: keys issued to one admin
          LocalProfile,    \* is the profile `local`?
          SharedKey,       \* is the legacy shared key configured?
          Roles            \* the roles that admins are given

ASSUME IdentityAssumption == /\ LocalProfile \in BOOLEAN /\ SharedKey \in BOOLEAN
                             /\ KeyBound \in Nat \ {0}
                             /\ Roles \subseteq {"superadmin", "operator", "auditor"}

VARIABLES admin,     \* name -> row of api_admins (key 0: no row)
          client,    \* name -> "absent", "enabled" or "disabled"
          readable,  \* can the identity stores be read?
          request,   \* request -> where it is
          unaudited  \* number of changes the trail misses

identityVars == <<admin, client, readable, request, unaudited>>

\* A key is what it opens and, for an admin, its place among the keys issued.
Key(kind, name, number) == [kind |-> kind, name |-> name, number |-> number]
NoKey == Key("none", "", 0)

AdminRow == [key : 0..KeyBound, role : Roles \cup {"none"}, disabled : BOOLEAN]

KeyIssued(k) == \/ k = NoKey
                \/ k.kind = "admin"  /\ k.number <= admin[k.name].key
                \/ k.kind = "client" /\ client[k.name] # "absent"
                \/ k.kind = "shared" /\ SharedKey

Keys == {Key("admin", a, n) : a \in AdminNames, n \in 1..KeyBound}
          \cup {Key("client", c, 1) : c \in ClientNames}
          \cup {Key("shared", "", 1), NoKey}

NoRequest == [pc |-> "idle", key |-> NoKey, who |-> "nobody", closed |-> FALSE, dead |-> FALSE]

IdentityInit == /\ admin = [a \in AdminNames |-> [key |-> 0, role |-> "none", disabled |-> FALSE]]
                /\ client = [c \in ClientNames |-> "absent"]
                /\ readable = TRUE
                /\ request = [r \in Requests |-> NoRequest]
                /\ unaudited = 0

-----------------------------------------------------------------------------
(* resolve_principal.  who is the role of the principal, "local-dev" for   *)
(* the anonymous superadmin, or the status of the refusal.                 *)

AnyAdmin == \E a \in AdminNames : admin[a].key > 0

\* admin_credential_surfaces: a disabled admin still counts.
AdminSurface == SharedKey \/ AnyAdmin

\* closed and dead remember, for the properties, whether the deployment was closed to
\* anonymous callers and the key superseded when the request arrived.
Arrive(r, key) ==
  /\ request[r].pc = "idle" /\ KeyIssued(key)
  /\ request' = [request EXCEPT ![r] =
       [pc |-> IF key = NoKey THEN "open?" ELSE "admins?", key |-> key, who |-> "nobody",
        closed |-> ~LocalProfile \/ AdminSurface,
        dead |-> key.kind = "admin" /\ key.number < admin[key.name].key]]
  /\ UNCHANGED <<admin, client, readable, unaudited>>

Settle(r, pc, who) == request' = [request EXCEPT ![r].pc = pc, ![r].who = who]

\* Mutant: an admin's row is found by name, and the key is not compared.
OpensAnyKey(k, a) == k.kind = "admin" /\ k.name = a /\ ~admin[a].disabled

\* The row whose key_hash is that of the key, unless it is disabled.
Opens(k, a) == /\ k.kind = "admin" /\ k.name = a
               /\ k.number = admin[a].key /\ ~admin[a].disabled

ReadAdmins(r) ==
  /\ request[r].pc = "admins?"
  /\ IF ~readable THEN Settle(r, "answered", "503")
     ELSE \/ \E a \in AdminNames : Opens(request[r].key, a) /\ Settle(r, "resolved", admin[a].role)
          \/ (\A a \in AdminNames : ~Opens(request[r].key, a)) /\ Settle(r, "clients?", "nobody")
  /\ UNCHANGED <<admin, client, readable, unaudited>>

ReadClients(r) ==
  /\ request[r].pc = "clients?"
  /\ LET key == request[r].key IN
     IF ~readable THEN Settle(r, "answered", "503")
     ELSE IF key.kind = "client" /\ client[key.name] = "enabled" THEN Settle(r, "resolved", "client")
     ELSE IF key.kind = "shared" THEN Settle(r, "resolved", "superadmin")
     ELSE Settle(r, "open?", "nobody")
  /\ UNCHANGED <<admin, client, readable, unaudited>>

\* Mutant: a store that cannot be read counts as an empty one.
OpenDevModeUnread(r) ==
  /\ request[r].pc = "open?"
  /\ IF LocalProfile /\ ~SharedKey /\ (~readable \/ ~AnyAdmin)
     THEN Settle(r, "resolved", "local-dev")
     ELSE Settle(r, "answered", "401")
  /\ UNCHANGED <<admin, client, readable, unaudited>>

\* open_dev_mode reads the stores afresh.
OpenDevMode(r) ==
  /\ request[r].pc = "open?"
  /\ IF ~LocalProfile THEN Settle(r, "answered", "401")
     ELSE IF ~readable THEN Settle(r, "answered", "503")
     ELSE IF AdminSurface THEN Settle(r, "answered", "401")
     ELSE Settle(r, "resolved", "local-dev")
  /\ UNCHANGED <<admin, client, readable, unaudited>>

-----------------------------------------------------------------------------
(* The endpoints.  Only superadmins hold admins.manage and clients.manage. *)

MayManage(r) == request[r].pc = "resolved" /\ request[r].who \in {"superadmin", "local-dev"}

Changed(r) == /\ readable
              /\ Settle(r, "to audit", request[r].who)
              /\ UNCHANGED <<readable, unaudited>>

CreateAdmin(r, a, role) ==
  /\ MayManage(r) /\ admin[a].key = 0
  /\ admin' = [admin EXCEPT ![a] = [key |-> 1, role |-> role, disabled |-> FALSE]]
  /\ Changed(r) /\ UNCHANGED client

RotateKey(r, a) ==
  /\ MayManage(r) /\ admin[a].key \in 1..KeyBound - 1 /\ ~admin[a].disabled
  /\ admin' = [admin EXCEPT ![a].key = @ + 1]
  /\ Changed(r) /\ UNCHANGED client

SetRole(r, a, role) ==
  /\ MayManage(r) /\ admin[a].key > 0
  /\ admin' = [admin EXCEPT ![a].role = role]
  /\ Changed(r) /\ UNCHANGED client

SetAdminDisabled(r, a, disabled) ==
  /\ MayManage(r) /\ admin[a].key > 0
  /\ admin' = [admin EXCEPT ![a].disabled = disabled]
  /\ Changed(r) /\ UNCHANGED client

\* Creating a client needs a free name; disabling and enabling need a row.
SetClient(r, c, state) ==
  /\ MayManage(r)
  /\ state = "disabled" => client[c] # "absent"
  /\ client' = [client EXCEPT ![c] = state]
  /\ Changed(r) /\ UNCHANGED admin

\* A request that changes nothing, or may not, or names what is not there.
Answer(r) ==
  /\ request[r].pc = "resolved"
  /\ Settle(r, "answered", request[r].who)
  /\ UNCHANGED <<admin, client, readable, unaudited>>

\* _audit_admin_action: a transaction of its own; when it fails the caller gets a 500
\* for a change that stands.
AuditChange(r, written) ==
  /\ request[r].pc = "to audit"
  /\ Settle(r, "answered", IF written THEN request[r].who ELSE "500")
  /\ unaudited' = IF written \/ unaudited > 0 THEN unaudited ELSE 1
  /\ UNCHANGED <<admin, client, readable>>

Leave(r) == /\ request[r].pc = "answered"
            /\ request' = [request EXCEPT ![r] = NoRequest]
            /\ UNCHANGED <<admin, client, readable, unaudited>>

StoreReadable(yes) == /\ readable # yes /\ readable' = yes
                      /\ UNCHANGED <<admin, client, request, unaudited>>

IdentityNext ==
  \/ \E yes \in BOOLEAN : StoreReadable(yes)
  \/ \E r \in Requests :
       \/ \E key \in Keys : Arrive(r, key)
       \/ ReadAdmins(r) \/ ReadClients(r) \/ OpenDevMode(r) \/ Answer(r) \/ Leave(r)
       \/ \E written \in BOOLEAN : AuditChange(r, written)
       \/ \E a \in AdminNames : RotateKey(r, a)
       \/ \E a \in AdminNames, role \in Roles : CreateAdmin(r, a, role) \/ SetRole(r, a, role)
       \/ \E a \in AdminNames, disabled \in BOOLEAN : SetAdminDisabled(r, a, disabled)
       \/ \E c \in ClientNames, state \in {"enabled", "disabled"} : SetClient(r, c, state)

IdentitySpec == IdentityInit /\ [][IdentityNext]_identityVars

-----------------------------------------------------------------------------
(* Properties.                                                             *)

\* Rows and requests are well formed; a row without a key has no role (admins.py).
IdentityTypeOK ==
  /\ admin \in [AdminNames -> AdminRow]
  /\ \A a \in AdminNames : admin[a].key = 0 <=> admin[a].role = "none"
  /\ client \in [ClientNames -> {"absent", "enabled", "disabled"}]
  /\ readable \in BOOLEAN /\ unaudited \in 0..1
  /\ \A r \in Requests :
       /\ request[r].pc \in {"idle", "admins?", "clients?", "open?", "resolved", "to audit", "answered"}
       /\ request[r].key \in Keys

\* The anonymous path closes the instant the first admin identity exists, whatever is
\* in flight and whether or not the stores can be read, and it does not open again when
\* the last admin is disabled (the docstrings of admin_credential_surfaces and
\* open_dev_mode).
ClosedForGood == \A r \in Requests : request[r].who = "local-dev" => ~request[r].closed

\* A key that had been rotated away when the request arrived never resolves to an admin
\* ("the old key stops working the moment the new hash is committed", admins.py:144).
OldKeyIsDead == \A r \in Requests : request[r].dead => request[r].who \notin Roles \cup {"local-dev"}

=============================================================================
