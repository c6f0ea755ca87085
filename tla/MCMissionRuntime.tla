--------------------------- MODULE MCMissionRuntime ---------------------------
(* Small instances of MissionRuntime for TLC.                              *)
EXTENDS MissionRuntime, TLC

CONSTANTS m1, m2, m3, c1, c2, c3, r1, r2

OneRepo == [m \in Missions |-> r1]
OwnGoal == [m \in Missions |-> m]
NoDeps == [m \in Missions |-> << >>]
OneClient == [m \in Missions |-> "client"]
Unlimited == [client \in {"client"} |-> Cardinality(Missions)]
ByName == [m \in Missions |-> CASE m = m1 -> 1 [] m = m2 -> 2 [] OTHER -> 3]

\* Dependencies: m3 waits for m1 and m2, or m2 for m1.
TwoRepos == [m \in Missions |-> IF m = m2 THEN r2 ELSE r1]
Join == [m \in Missions |-> IF m = m3 THEN <<m1, m2>> ELSE << >>]
Pair == [m \in Missions |-> IF m = m2 THEN <<m1>> ELSE << >>]
OneAtATime == [client \in {"client"} |-> 1]

SameGoal == [m \in Missions |-> "goal"]

\* Bounds of the stall run: no cancel requests, no crashes (a crash only takes
\* threads away), and every failure is a FAIL.
StallBound ==
  /\ \A m \in Missions : /\ ~rows[m].cancel
                          /\ rows[m].status \notin {"BLOCKED", "BLOCKED_EXTERNAL"}
  /\ \A c \in Coordinators :
       /\ mode[c] # "crashed"
       /\ \A m \in Missions : task[c][m].to # "BLOCKED_EXTERNAL" /\ task[c][m].pc # "own_blocked"

Perms == Permutations(Coordinators)
=============================================================================
