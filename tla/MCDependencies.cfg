\* m3 waits for m1 and m2; one client, limited to one execution at a time, on two
\* coordinators.
SPECIFICATION Spec
CONSTANTS
  m1 = m1
  m2 = m2
  m3 = m3
  c1 = c1
  c2 = c2
  c3 = c3
  r1 = r1
  r2 = r2
  NoOwner = NoOwner
  Missions = {m1, m2, m3}
  Coordinators = {c1, c2}
  Repos = {r1, r2}
  RepoOf <- TwoRepos
  GoalOf <- OwnGoal
  DepsOf <- Join
  ClientOf <- OneClient
  LimitOf <- OneAtATime
  Rank <- ByName
  ScanLimit = 25
  MaxConcurrent = 1
  DryRun = {}
  PlainWorker = {}
  Mortal = {c1, c2}
  Faults = {}
SYMMETRY Perms
INVARIANTS
  DependencyGate
  
CHECK_DEADLOCK FALSE
