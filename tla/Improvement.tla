----------------------------- MODULE Improvement ------------------------------
(***************************************************************************)
(* Governed self-improvement, app/improvement: proposals made by the loop, *)
(* the approval gate, versioned activation and rollback.                   *)
(*                                                                         *)
(* The stores are opened by loops, reviewers and operators at once.  A     *)
(* transition reads the proposal in one transaction and saves the whole of *)
(* it in another; activation and rollback change the versions in one and   *)
(* the proposal in later ones.  Any of them may die in between.            *)
(***************************************************************************)
EXTENDS Naturals, Sequences

CONSTANTS Proposals, Agents,
          VersionBound     \* bound: activations ever made

ASSUME ImprovementAssumption == VersionBound \in Nat

VARIABLES status,    \* proposal -> its row's status, or "none"
          approved,  \* proposals that a reviewer has approved, at some time
          versions,  \* improvement_activations: proposal, previous version or 0, active
          agent      \* agent -> the step it is at, its proposal, the status it is about to save

improveVars == <<status, approved, versions, agent>>

TRANSITIONS ==
  {<<"DRAFT", "PENDING_REVIEW">>, <<"PENDING_REVIEW", "APPROVED">>,
   <<"PENDING_REVIEW", "REJECTED">>, <<"APPROVED", "ACTIVATED">>,
   <<"APPROVED", "ROLLED_BACK">>, <<"ACTIVATED", "ROLLED_BACK">>}

Statuses == {t[1] : t \in TRANSITIONS} \cup {t[2] : t \in TRANSITIONS}

AtRest == [at |-> "rest", of |-> "none", to |-> "none"]

ImproveInit == /\ status = [p \in Proposals |-> "none"] /\ approved = {}
               /\ versions = <<>> /\ agent = [a \in Agents |-> AtRest]

Now(a, at, p, to) == agent' = [agent EXCEPT ![a] = [at |-> at, of |-> p, to |-> to]]
Rests(a) == agent' = [agent EXCEPT ![a] = AtRest]
Resting(a) == agent[a].at = "rest"

-----------------------------------------------------------------------------
(* ProposalStore.transition, and the gate of approval.py that calls it     *)

Gate == {"PENDING_REVIEW", "APPROVED", "REJECTED"}

BeginTransition(a, p, to) ==
  /\ Resting(a) /\ to \in Gate /\ <<status[p], to>> \in TRANSITIONS
  /\ Now(a, "save", p, to) /\ UNCHANGED <<status, approved, versions>>

\* save writes every column of the proposal as it was read.
Save(a) ==
  /\ agent[a].at = "save"
  /\ status' = [status EXCEPT ![agent[a].of] = agent[a].to]
  /\ approved' = IF agent[a].to = "APPROVED" THEN approved \cup {agent[a].of} ELSE approved
  /\ Rests(a) /\ UNCHANGED versions

-----------------------------------------------------------------------------
(* SelfImprovingLoop.run_iteration, for one candidate                      *)

\* A new content hash becomes a draft; a known one is suppressed.
Propose(a, p) ==
  /\ Resting(a) /\ status[p] = "none"
  /\ status' = [status EXCEPT ![p] = "DRAFT"]
  /\ Now(a, "judge", p, "DRAFT") /\ UNCHANGED <<approved, versions>>

\* Benchmark and regression evidence, where there are scores, is saved with the
\* draft as the loop holds it; what passes is submitted.
JudgeProposal(a) ==
  /\ agent[a].at = "judge"
  /\ LET p == agent[a].of IN
       \/ Now(a, "submit", p, "DRAFT") /\ UNCHANGED status
       \/ /\ status' = [status EXCEPT ![p] = "DRAFT"]
          /\ Now(a, "submit", p, "DRAFT") \/ Rests(a)
  /\ UNCHANGED <<approved, versions>>

\* The held object is a draft; the transition reads the row.
Submit(a) ==
  /\ agent[a].at = "submit"
  /\ IF <<status[agent[a].of], "PENDING_REVIEW">> \in TRANSITIONS
     THEN Now(a, "save", agent[a].of, "PENDING_REVIEW") ELSE Rests(a)
  /\ UNCHANGED <<status, approved, versions>>

-----------------------------------------------------------------------------
(* ActivationStore                                                         *)

ActiveVersions == {v \in DOMAIN versions : versions[v].active}
NewestActive == IF ActiveVersions = {} THEN 0
                ELSE CHOOSE v \in ActiveVersions : \A w \in ActiveVersions : w <= v

\* Mutant: a proposal that waits for its review is good enough.
ActivateUnreviewed(a, p) ==
  /\ Resting(a) /\ status[p] \in {"PENDING_REVIEW", "APPROVED"}
  /\ Now(a, "insert", p, "ACTIVATED") /\ UNCHANGED <<status, approved, versions>>

Activate(a, p) ==
  /\ Resting(a) /\ status[p] = "APPROVED"
  /\ Now(a, "insert", p, "ACTIVATED") /\ UNCHANGED <<status, approved, versions>>

Inactive(vs, v) == [w \in DOMAIN vs |-> IF w = v THEN [vs[w] EXCEPT !.active = FALSE] ELSE vs[w]]

\* One transaction: the active version gives way to the next.
InsertVersion(a) ==
  /\ agent[a].at = "insert" /\ Len(versions) < VersionBound
  /\ versions' = Append(Inactive(versions, NewestActive),
                        [of |-> agent[a].of, previous |-> NewestActive, active |-> TRUE])
  /\ Now(a, "mark", agent[a].of, "ACTIVATED") /\ UNCHANGED <<status, approved>>

\* Mutant: the version before the newest is restored, whether or not it was active then.
RollbackByNumber(a) ==
  /\ Resting(a) /\ NewestActive # 0
  /\ LET v == NewestActive IN
       /\ versions' = [w \in DOMAIN versions |->
                         [versions[w] EXCEPT !.active = (w = v - 1)]]
       /\ Now(a, "mark", versions[v].of, "ROLLED_BACK")
  /\ UNCHANGED <<status, approved>>

\* One transaction: the active version goes, the one it replaced is active again.
Rollback(a) ==
  /\ Resting(a) /\ NewestActive # 0
  /\ LET v == NewestActive IN
       /\ versions' = [w \in DOMAIN versions |->
                         IF w = v THEN [versions[w] EXCEPT !.active = FALSE]
                         ELSE IF w = versions[v].previous THEN [versions[w] EXCEPT !.active = TRUE]
                         ELSE versions[w]]
       /\ Now(a, "mark", versions[v].of, "ROLLED_BACK")
  /\ UNCHANGED <<status, approved>>

\* The proposal follows, if its row allows it; else the call raises, the versions stay.
Mark(a) ==
  /\ agent[a].at = "mark"
  /\ IF <<status[agent[a].of], agent[a].to>> \in TRANSITIONS
     THEN Now(a, "save", agent[a].of, agent[a].to) ELSE Rests(a)
  /\ UNCHANGED <<status, approved, versions>>

Dies(a) == ~Resting(a) /\ Rests(a) /\ UNCHANGED <<status, approved, versions>>

ImproveNext == \E a \in Agents :
  \/ Save(a) \/ JudgeProposal(a) \/ Submit(a) \/ InsertVersion(a) \/ Rollback(a) \/ Mark(a) \/ Dies(a)
  \/ \E p \in Proposals :
       \/ Propose(a, p) \/ Activate(a, p)
       \/ \E to \in Gate : BeginTransition(a, p, to)

ImproveSpec == ImproveInit /\ [][ImproveNext]_improveVars

-----------------------------------------------------------------------------
(* Properties                                                              *)

\* Statuses are those of TRANSITIONS; a version follows an older one or none.
ImproveTypeOK ==
  /\ status \in [Proposals -> Statuses \cup {"none"}] /\ approved \subseteq Proposals
  /\ \A v \in DOMAIN versions :
       versions[v] \in [of : Proposals, previous : 0..(v - 1), active : BOOLEAN]
  /\ \A a \in Agents : agent[a].to \in Statuses \cup {"none"}

\* Whoever dies or races, one version is active at most, and every version is of
\* a proposal that a reviewer has approved (versioning.py:1-10: silent mutation is
\* impossible).
ActivationIsGoverned ==
  /\ \A v, w \in ActiveVersions : v = w
  /\ \A v \in DOMAIN versions : versions[v].of \in approved

\* An activation takes the place of what was active, a rollback brings back what
\* the version that goes had replaced, and nothing else changes what is active.
ActiveFollowsLineage ==
  [][NewestActive' # NewestActive =>
       IF Len(versions') > Len(versions) THEN versions'[Len(versions')].previous = NewestActive
       ELSE NewestActive' = versions[NewestActive].previous]_improveVars

=============================================================================
