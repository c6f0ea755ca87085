\* One goal is submitted twice for one repository, once as a dry run and once for a
\* plain worker; processes crash and releases of leases may fail.
SPECIFICATION Spec
CONSTANTS
  m1 = m1
  m2 = m2
  m3 = m3
  c1 = c1
  c2 = c2
  c3 = c3
  r1 = r1
  r2 = r2
  NoOwner = NoOwner
  Missions = {m1, m2}
  Coordinators = {c1, c2}
  Repos = {r1}
  RepoOf <- OneRepo
  GoalOf <- SameGoal
  DepsOf <- NoDeps
  ClientOf <- OneClient
  LimitOf <- Unlimited
  Rank <- ByName
  ScanLimit = 25
  MaxConcurrent = 2
  DryRun = {m1}
  PlainWorker = {m2}
  Mortal = {c1, c2}
  Faults = {"release_error"}
SYMMETRY Perms
INVARIANTS
  SingleFlight
  
CHECK_DEADLOCK FALSE
