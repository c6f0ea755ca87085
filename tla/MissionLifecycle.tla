--------------------------- MODULE MissionLifecycle ---------------------------
(***************************************************************************)
(* What the mission runtime promises a client about a mission, whatever    *)
(* coordinators, threads, leases and watchdogs do underneath: it is        *)
(* queued, held by one executor at a time, given back only before its      *)
(* worker ran, worked on at most once, and finished once for good.  It is  *)
(* held only after all its parents passed, and passes only if it was       *)
(* worked on (or is a dry run).  One transaction of the store may move     *)
(* several missions, so a step of the whole is a step of some of them.     *)
(***************************************************************************)
CONSTANTS Missions, Parents, DryRun, Outcomes, Pass, None

VARIABLE life   \* mission -> [phase, outcome, worked]

Life == [phase : {"absent", "queued", "held", "done"},
         outcome : Outcomes \cup {None}, worked : BOOLEAN]

Init == life = [m \in Missions |->
                  [phase |-> "absent", outcome |-> None, worked |-> FALSE]]

Submit(m) ==
  /\ life[m].phase = "absent"
  /\ \A p \in Parents[m] : life[p].phase # "absent"
  /\ life'[m] = [life[m] EXCEPT !.phase = "queued"]

Claim(m) ==
  /\ life[m].phase = "queued"
  /\ \A p \in Parents[m] : life[p].outcome = Pass
  /\ life'[m] = [life[m] EXCEPT !.phase = "held"]

GiveBack(m) ==
  /\ life[m].phase = "held" /\ ~life[m].worked
  /\ life'[m] = [life[m] EXCEPT !.phase = "queued"]

Work(m) ==
  /\ life[m].phase = "held" /\ ~life[m].worked
  /\ life'[m] = [life[m] EXCEPT !.worked = TRUE]

Finish(m) ==
  /\ life[m].phase \in {"queued", "held"}
  /\ \E o \in Outcomes :
       /\ o = Pass => life[m].phase = "held" /\ (life[m].worked \/ m \in DryRun)
       /\ life'[m] = [life[m] EXCEPT !.phase = "done", !.outcome = o]

Next ==
  \A m \in Missions :
    \/ life'[m] = life[m]
    \/ Submit(m) \/ Claim(m) \/ GiveBack(m) \/ Work(m) \/ Finish(m)

Spec == Init /\ [][Next]_life
=============================================================================
