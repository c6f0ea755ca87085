\* Two missions of one repository on two coordinators that crash, stop and meet
\* store errors at any step.
SPECIFICATION Spec
CONSTANTS
  m1 = m1
  m2 = m2
  m3 = m3
  c1 = c1
  c2 = c2
  c3 = c3
  r1 = r1
  r2 = r2
  NoOwner = NoOwner
  Missions = {m1, m2}
  Coordinators = {c1, c2}
  Repos = {r1}
  RepoOf <- OneRepo
  GoalOf <- OwnGoal
  DepsOf <- NoDeps
  ClientOf <- OneClient
  LimitOf <- Unlimited
  Rank <- ByName
  ScanLimit = 25
  MaxConcurrent = 2
  DryRun = {}
  PlainWorker = {}
  Mortal = {c1, c2}
  Faults = {"error"}
SYMMETRY Perms
INVARIANTS
  TypeOK
  RepoExclusion
  RecordAgrees
  PassEarned
PROPERTIES
  ImplementsLifecycle
  WatchdogSparesLive
  CancelSticks
CHECK_DEADLOCK FALSE
