----------------------------- MODULE ModelRouting -----------------------------
(***************************************************************************)
(* The adaptive router of agents: AgentRuntimeRouter of                    *)
(* app/runtime/router over app/routing.  A call ranks the models its       *)
(* policy allows, tries the first few in that order, and its attempts are  *)
(* appended to a history that ranks the next call.  Several calls share    *)
(* one router; its history is saved and read back explicitly.              *)
(*                                                                         *)
(* A model is its place in the order of keys.  Of the thresholds of a      *)
(* policy the cost stands for them all; merit sums the terms of a score    *)
(* that no call changes.                                                   *)
(***************************************************************************)
EXTENDS Integers, Sequences, FiniteSets, FiniteSetsExt, Functions, Selection

CONSTANTS Catalogue,      \* models in the order of their keys: [local, context, tools, able, cost, merit]
          RouteCallers,   \* agents that share the router
          RouteRequests,  \* what they ask: [complexity, tools, context, budget, place, denied, retries]
          MaxFallbacks,   \* models tried by one call
          RouteBound      \* bound: calls ever begun

ASSUME RoutingAssumption ==
  /\ MaxFallbacks \in Nat \ {0} /\ RouteBound \in Nat /\ IsFiniteSet(RouteCallers)
  /\ Catalogue \in Seq(Range(Catalogue))
  /\ \A r \in RouteRequests : r.retries \in Nat /\ \A m \in DOMAIN Catalogue : Catalogue[m].merit[r.complexity] \in Int

VARIABLES history,  \* attempts recorded, in order
          filed,   \* the file: the rows last saved, or "corrupt" for a damaged one
          routed,   \* agent -> its call: request, chain, and how far along the chain
          begun,    \* calls begun
          made      \* ghost: attempts made, by model and outcome

routingVars == <<history, filed, routed, begun, made>>

Models == DOMAIN Catalogue
Point  == 2520   \* one point of score: every rate over at most ten samples is whole

NoCallYet == [step |-> "idle", ask |-> CHOOSE r \in RouteRequests : TRUE, chain |-> <<>>, at |-> 0]

RoutingInit ==
  /\ history = <<>> /\ filed = <<>> /\ begun = 0
  /\ routed = [a \in RouteCallers |-> NoCallYet]
  /\ made = [m \in Models |-> [won |-> 0, lost |-> 0]]

-----------------------------------------------------------------------------
(* What a failure is taken for (classify_failure): the status of an HTTP   *)
(* answer first, then the first mark that its text bears.                  *)

FailureKind == {"timeout", "rate_limited", "server_error", "auth_unavailable",
                "provider_unavailable", "deterministic"}

TextMarks == <<[says |-> "timed out",       kind |-> "timeout"],
               [says |-> "connection",      kind |-> "provider_unavailable"],
               [says |-> "auth is missing", kind |-> "auth_unavailable"],
               [says |-> "429",             kind |-> "rate_limited"],
               [says |-> "503",             kind |-> "server_error"]>>

CallFaults == [status : {0, 400, 401, 429, 503}, says : SUBSET {"timed out", "auth is missing", "503"}]

ClassifyFailure(e) ==
  LET marks == {i \in DOMAIN TextMarks : TextMarks[i].says \in e.says}
  IN  IF e.status = 429 THEN "rate_limited"
      ELSE IF e.status >= 500 THEN "server_error"
      ELSE IF e.status \in {401, 403} THEN "auth_unavailable"
      ELSE IF marks = {} THEN "deterministic"
      ELSE TextMarks[Min(marks)].kind

MayFailOver(kind) == kind \in FailureKind \ {"deterministic"}

-----------------------------------------------------------------------------
(* The order of the models for a request (AdaptiveRouter)                  *)

NeedsTools(r) == r.tools \/ r.complexity = "hard"

Allows(r, m) ==
  /\ m \notin r.denied
  /\ r.place = "local_only"  => Catalogue[m].local
  /\ r.place = "remote_only" => ~Catalogue[m].local

Eligible(r) ==
  {m \in Models : /\ Allows(r, m)
                  /\ Catalogue[m].context >= r.context
                  /\ Catalogue[m].cost <= r.budget
                  /\ NeedsTools(r) => Catalogue[m].tools}

\* A local model with scores that do for any task (meets_minimum).
CapableLocal(m) == Catalogue[m].local /\ Catalogue[m].able

Of(m) == SelectAt(history, {i \in DOMAIN history : history[i].model = m})
Misses(h) == Cardinality({i \in DOMAIN h : ~h[i].ok})

\* Of its last five attempts.
RecentFailures(m) ==
  LET h == Of(m) IN Misses(SubSeq(h, Max({1, Len(h) - 4}), Len(h)))

\* Twice the distance of the success rate from one half, in points.
HistoryBonus(m) ==
  LET n == Len(Of(m)) IN IF n = 0 THEN 0 ELSE ((n - 2 * Misses(Of(m))) * Point) \div n

Penalty(m, r) ==
  IF RecentFailures(m) = 0 THEN 0
  ELSE Min({2 * Point, RecentFailures(m) * (Point \div 2) + r.retries * (Point \div 10)})

ScoreOf(m, r) ==
  Catalogue[m].merit[r.complexity] * Point + HistoryBonus(m) - Penalty(m, r)
    + IF r.place \in {"prefer_local", "local_only"} /\ CapableLocal(m) THEN (3 * Point) \div 2 ELSE 0

\* By score, then by key.
Better(r, m, n) == \/ ScoreOf(m, r) > ScoreOf(n, r)
                   \/ ScoreOf(m, r) = ScoreOf(n, r) /\ m < n

\* The capable local model that goes before all when a local one is preferred, if any.
BestLocal(r) ==
  {m \in Eligible(r) : /\ r.place = "prefer_local" /\ CapableLocal(m)
                       /\ \A n \in Eligible(r) : CapableLocal(n) => n = m \/ Better(r, m, n)}

Before(r, m, n) == n \notin BestLocal(r) /\ (m \in BestLocal(r) \/ Better(r, m, n))

\* The eligible models, each at the place that its predecessors leave to it.
RankOf(r, m) == Cardinality({n \in Eligible(r) : n = m \/ Before(r, n, m)})
Ranked(r) == [k \in 1..Cardinality(Eligible(r)) |-> CHOOSE m \in Eligible(r) : RankOf(r, m) = k]

-----------------------------------------------------------------------------
(* A call: route, then walk the chain (run and execute_with_failover)      *)

Route(a) ==
  /\ routed[a].step # "calling" /\ begun < RouteBound
  /\ \E r \in RouteRequests :
       LET order == Ranked(r)
       IN  routed' = [routed EXCEPT ![a] =
             IF order = <<>> THEN [NoCallYet EXCEPT !.step = "refused", !.ask = r]
             ELSE [step |-> "calling", ask |-> r, at |-> 1,
                   chain |-> SubSeq(order, 1, Min({MaxFallbacks, Len(order)}))]]
  /\ begun' = begun + 1
  /\ UNCHANGED <<history, filed, made>>

Calling(a) == routed[a].step = "calling"
Called(a)  == routed[a].chain[routed[a].at]

\* The row of an attempt.
WonOn(m)  == [model |-> m, ok |-> TRUE]
LostOn(m) == [model |-> m, ok |-> FALSE]

\* Every attempt of the call; all before the last have failed.
RecordAttempts(a, last) ==
  LET call == routed[a] IN
    history' = history \o [i \in 1..call.at |-> IF i = call.at THEN last ELSE LostOn(call.chain[i])]

CallSucceeds(a) ==
  /\ Calling(a) /\ RecordAttempts(a, WonOn(Called(a)))
  /\ made' = [made EXCEPT ![Called(a)].won = @ + 1]
  /\ routed' = [routed EXCEPT ![a].step = "done"]
  /\ UNCHANGED <<filed, begun>>

\* A deterministic failure is raised through run, which records nothing then.
CallFails(a) ==
  /\ Calling(a) /\ made' = [made EXCEPT ![Called(a)].lost = @ + 1]
  /\ \E e \in CallFaults :
       IF ~MayFailOver(ClassifyFailure(e))
       THEN routed' = [routed EXCEPT ![a].step = "raised"] /\ UNCHANGED history
       ELSE IF routed[a].at < Len(routed[a].chain)
       THEN routed' = [routed EXCEPT ![a].at = @ + 1] /\ UNCHANGED history
       ELSE routed' = [routed EXCEPT ![a].step = "blocked"] /\ RecordAttempts(a, LostOn(Called(a)))
  /\ UNCHANGED <<filed, begun>>

-----------------------------------------------------------------------------
(* The history file                                                        *)

SaveHistory ==
  /\ filed # history /\ filed' = history
  /\ UNCHANGED <<history, routed, begun, made>>

Damaged == [corrupt |-> TRUE]

DamageRow ==
  /\ \E i \in DOMAIN filed : filed' = [filed EXCEPT ![i] = Damaged]
  /\ UNCHANGED <<history, routed, begun, made>>

\* A new process reads the rows that parse and skips the others.
Reload ==
  /\ history' = SelectAt(filed, {i \in DOMAIN filed : filed[i] # Damaged})
  /\ routed' = [a \in RouteCallers |-> NoCallYet]
  /\ UNCHANGED <<filed, begun, made>>

RoutingNext ==
  \/ \E a \in RouteCallers : Route(a) \/ CallSucceeds(a) \/ CallFails(a)
  \/ SaveHistory \/ DamageRow \/ Reload

-----------------------------------------------------------------------------
\* Records, calls and the file have their shapes.
RoutingTypeOK ==
  /\ history \in Seq([model : Models, ok : BOOLEAN])
  /\ \A i \in DOMAIN filed : filed[i] \in [model : Models, ok : BOOLEAN] \cup {Damaged}
  /\ \A a \in RouteCallers :
       /\ routed[a].step \in {"idle", "calling", "done", "blocked", "refused", "raised"}
       /\ routed[a].at \in 0..Len(routed[a].chain)
       /\ routed[a].chain \in Seq(Models)

TimesIn(h, row) == Cardinality({i \in DOMAIN h : h[i] = row})

\* The history holds no attempt that was not made, whatever calls run at once and
\* whatever the file went through (record_result, load).
HistoryIsEarned ==
  \A m \in Models : TimesIn(history, WonOn(m)) <= made[m].won /\ TimesIn(history, LostOn(m)) <= made[m].lost

\* A call is blocked only after as many different eligible models as it may try
\* (RoutingExhausted), and one that prefers a capable local model began with one,
\* however badly that model did before.
BlockedIsLast ==
  \A a \in RouteCallers :
    LET call == routed[a] IN
    /\ call.step = "blocked" =>
         /\ call.at = Len(call.chain)
         /\ Cardinality(Range(call.chain)) = Min({MaxFallbacks, Cardinality(Eligible(call.ask))})
    /\ call.step # "idle" /\ call.ask.place = "prefer_local"
         /\ (\E m \in Eligible(call.ask) : CapableLocal(m)) => CapableLocal(call.chain[1])
=============================================================================
