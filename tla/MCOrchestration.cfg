SPECIFICATION Spec
CONSTANTS
  w1 = w1
  w2 = w2
  op = op
  j1 = j1
  j2 = j2
  StepCount = 3
  Tasks = {1, 2, 3}
  TaskDeps <- TaskGraph
  Plans = {{1, 2}, {3}}
  TaskWorkers = {w1}
  WorkerLimit = 1
  GlobalLimit = 64
  Preemptible = {1}
  TaskRetries = 1
  TaskOperators = {op}
  Jobs = {1}
  JobWorkers = {w1, w2}
  JobMortals = {w1}
  JobOperators = {w2}
  ActionKeys = {}
  JobRetries = 1
  RJobs = {j1, j2}
  Nodes = {w1, w2}
  Capacity = 1
  Crashers = {w1}
  Operated = {w2}
  RejoinStale = FALSE
  RejoinBound = 1
  SkillSteps <- ThreeSteps
  Contracts = 2
INVARIANTS OrchTypeOK TasksInOrder PoolIsSound 
PROPERTIES  AbandonedIsHandedOn 
CHECK_DEADLOCK FALSE
