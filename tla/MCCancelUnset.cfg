\* One mission, no faults, nobody crashes.
SPECIFICATION Spec
CONSTANTS
  m1 = m1
  m2 = m2
  m3 = m3
  c1 = c1
  c2 = c2
  c3 = c3
  r1 = r1
  r2 = r2
  NoOwner = NoOwner
  Missions = {m1}
  Coordinators = {c1}
  Repos = {r1}
  RepoOf <- OneRepo
  GoalOf <- OwnGoal
  DepsOf <- NoDeps
  ClientOf <- OneClient
  LimitOf <- Unlimited
  Rank <- ByName
  ScanLimit = 25
  MaxConcurrent = 2
  DryRun = {}
  PlainWorker = {}
  Mortal = {}
  Faults = {}
SYMMETRY Perms
PROPERTIES
  CancelNeverUnset
CHECK_DEADLOCK FALSE
