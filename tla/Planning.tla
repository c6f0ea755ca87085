------------------------------- MODULE Planning -------------------------------
(***************************************************************************)
(* Validation and execution order of a plan: _find_cycles and              *)
(* _topological_sort of app/planning/decomposition.py, run one after the   *)
(* other by validate_plan, and get_execution_order of planner.py, over     *)
(* every dependency graph on a few steps.                                  *)
(*                                                                         *)
(* The depth-first search keeps its stack of calls in `path`: the step at  *)
(* the end is the active call, and untried says which of the dependencies  *)
(* of each step its loop has still to look at.  Dependencies are sets,     *)
(* taken in the order of the steps, all of them in the plan.               *)
(***************************************************************************)
EXTENDS Naturals, Sequences, FiniteSets, Selection

CONSTANT StepCount

ASSUME PlanningAssumption == StepCount \in Nat

PlanSteps == 1..StepCount

VARIABLES deps,      \* step -> the steps it depends on
          phase,     \* "cycles", "sort", "levels", "done" or "invalid"
          path,      \* _find_cycles: the stack, rec_stack
          visited,
          untried,   \* step -> dependencies its loop has not reached
          cycles,    \* the steps at which a cycle was closed
          indegree,  \* _topological_sort
          queue,
          result,
          levels     \* get_execution_order: sets of steps

planVars == <<deps, phase, path, visited, untried, cycles, indegree, queue, result, levels>>

InSeq(x, s) == \E i \in DOMAIN s : s[i] = x

PlanInit == /\ deps \in [PlanSteps -> SUBSET PlanSteps]
            /\ phase = "cycles"
            /\ path = << >>
            /\ visited = {}
            /\ untried = deps
            /\ cycles = {}
            /\ indegree = [s \in PlanSteps |-> Cardinality(deps[s])]
            /\ queue = << >>
            /\ result = << >>
            /\ levels = << >>

-----------------------------------------------------------------------------
(* _find_cycles.                                                           *)

Tip == path[Len(path)]

StartSearch(s) ==
  /\ phase = "cycles" /\ path = << >>
  /\ s \notin visited /\ \A x \in PlanSteps : x < s => x \in visited
  /\ path' = <<s>>
  /\ visited' = visited \cup {s}
  /\ UNCHANGED <<deps, phase, untried, cycles, indegree, queue, result, levels>>

\* Mutant: a visited step is not followed, on the stack or not.
VisitDependencyOnce(d) ==
  /\ phase = "cycles" /\ path # << >> /\ d \in untried[Tip] /\ \A x \in untried[Tip] : d <= x
  /\ untried' = [untried EXCEPT ![Tip] = @ \ {d}]
  /\ visited' = visited \cup {d}
  /\ path' = IF d \in visited THEN path ELSE Append(path, d)
  /\ UNCHANGED <<deps, phase, cycles, indegree, queue, result, levels>>

\* The next dependency of the active call: descended into, a cycle, or passed over.
VisitDependency(d) ==
  /\ phase = "cycles" /\ path # << >> /\ d \in untried[Tip] /\ \A x \in untried[Tip] : d <= x
  /\ untried' = [untried EXCEPT ![Tip] = @ \ {d}]
  /\ visited' = visited \cup {d}
  /\ path' = IF d \in visited THEN path ELSE Append(path, d)
  /\ cycles' = IF d \in visited /\ InSeq(d, path) THEN cycles \cup {d} ELSE cycles
  /\ UNCHANGED <<deps, phase, indegree, queue, result, levels>>

ReturnFromVisit ==
  /\ phase = "cycles" /\ path # << >> /\ untried[Tip] = {}
  /\ path' = SubSeq(path, 1, Len(path) - 1)
  /\ UNCHANGED <<deps, phase, visited, untried, cycles, indegree, queue, result, levels>>

-----------------------------------------------------------------------------
(* _topological_sort (Kahn).                                               *)

\* The steps of S, in the order of the plan.
InOrder(S) == [k \in 1..Cardinality(S) |-> NthOf(S, k)]

BeginSort ==
  /\ phase = "cycles" /\ path = << >> /\ visited = PlanSteps
  /\ phase' = "sort"
  /\ queue' = InOrder({s \in PlanSteps : indegree[s] = 0})
  /\ UNCHANGED <<deps, path, visited, untried, cycles, indegree, result, levels>>

\* Mutant: the step popped is the last of the queue, and released steps are those
\* the popped one depends on (the dead code behind the first return).
PopStepBackwards ==
  LET node == Head(queue)
      less == [s \in PlanSteps |-> IF s \in deps[node] /\ indegree[s] > 0
                                   THEN indegree[s] - 1 ELSE indegree[s]]
  IN /\ phase = "sort" /\ queue # << >>
     /\ result' = Append(result, node)
     /\ indegree' = less
     /\ queue' = Tail(queue) \o InOrder({s \in deps[node] : less[s] = 0 /\ indegree[s] > 0})
     /\ UNCHANGED <<deps, phase, path, visited, untried, cycles, levels>>

PopStep ==
  LET node == Head(queue)
      less == [s \in PlanSteps |-> IF node \in deps[s] THEN indegree[s] - 1 ELSE indegree[s]]
  IN /\ phase = "sort" /\ queue # << >>
     /\ result' = Append(result, node)
     /\ indegree' = less
     /\ queue' = Tail(queue) \o InOrder({s \in PlanSteps : node \in deps[s] /\ less[s] = 0})
     /\ UNCHANGED <<deps, phase, path, visited, untried, cycles, levels>>

\* Steps of a cycle are appended; a plan with a cycle is invalid.
EndSort ==
  /\ phase = "sort" /\ queue = << >>
  /\ result' = result \o InOrder({s \in PlanSteps : ~InSeq(s, result)})
  /\ phase' = IF cycles = {} THEN "levels" ELSE "invalid"
  /\ UNCHANGED <<deps, path, visited, untried, cycles, indegree, queue, levels>>

-----------------------------------------------------------------------------
(* get_execution_order.                                                    *)

Levelled == UNION {levels[i] : i \in DOMAIN levels}

\* Mutant: a step also waits no longer for steps of its own level.
NextLevelEager ==
  LET level == {s \in PlanSteps \ Levelled : Cardinality(deps[s] \ Levelled) <= 1}
  IN /\ phase = "levels"
     /\ IF level = {} THEN phase' = "done" /\ UNCHANGED levels
                      ELSE levels' = Append(levels, level) /\ UNCHANGED phase
     /\ UNCHANGED <<deps, path, visited, untried, cycles, indegree, queue, result>>

\* A level is computed against the levels before it.
NextLevel ==
  LET level == {s \in PlanSteps \ Levelled : deps[s] \subseteq Levelled}
  IN /\ phase = "levels"
     /\ IF level = {} THEN phase' = "done" /\ UNCHANGED levels
                      ELSE levels' = Append(levels, level) /\ UNCHANGED phase
     /\ UNCHANGED <<deps, path, visited, untried, cycles, indegree, queue, result>>

PlanNext == \/ \E s \in PlanSteps : StartSearch(s) \/ VisitDependency(s)
            \/ ReturnFromVisit \/ BeginSort \/ PopStep \/ EndSort \/ NextLevel

PlanSpec == PlanInit /\ [][PlanNext]_planVars

-----------------------------------------------------------------------------
\* Shapes; the stack of the search has no step twice.
PlanTypeOK == /\ deps \in [PlanSteps -> SUBSET PlanSteps]
              /\ phase \in {"cycles", "sort", "levels", "done", "invalid"}
              /\ path \in Seq(PlanSteps) /\ queue \in Seq(PlanSteps)
              /\ result \in Seq(PlanSteps) /\ levels \in Seq(SUBSET PlanSteps)
              /\ visited \subseteq PlanSteps /\ cycles \subseteq PlanSteps
              /\ untried \in [PlanSteps -> SUBSET PlanSteps]
              /\ indegree \in [PlanSteps -> Nat]
              /\ \A i, k \in DOMAIN path : path[i] = path[k] => i = k

\* Some steps wait for each other.
CyclicPlan == \E C \in SUBSET PlanSteps : C # {} /\ \A s \in C : deps[s] \cap C # {}

\* The search finds a cycle in exactly the plans that have one.
CyclesFound == phase \notin {"cycles"} => (cycles # {} <=> CyclicPlan)

\* A valid plan is ordered with every step once and behind all it depends on.
OrderRespectsDependencies ==
  phase \in {"levels", "done"} =>
    /\ Len(result) = StepCount
    /\ \A s \in PlanSteps : \A d \in deps[s] :
         \E i, k \in DOMAIN result : i < k /\ result[i] = d /\ result[k] = s

\* The execution levels of a valid plan hold every step, and no step depends on one
\* of its own level: a level may run in parallel.
LevelsAreParallel ==
  phase = "done" => /\ Levelled = PlanSteps
                    /\ \A i \in DOMAIN levels : \A s \in levels[i] : deps[s] \cap levels[i] = {}
=============================================================================
