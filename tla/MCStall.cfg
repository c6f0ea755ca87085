\* Two missions of one repository whose owners stop beating while their threads
\* run: watchdogs fail missions that are executing, leases are stolen, and c1 may
\* be stopped with threads left over.
SPECIFICATION Spec
CONSTANTS
  m1 = m1
  m2 = m2
  m3 = m3
  c1 = c1
  c2 = c2
  c3 = c3
  r1 = r1
  r2 = r2
  NoOwner = NoOwner
  Missions = {m1, m2}
  Coordinators = {c1, c2}
  Repos = {r1}
  RepoOf <- OneRepo
  GoalOf <- OwnGoal
  DepsOf <- NoDeps
  ClientOf <- OneClient
  LimitOf <- Unlimited
  Rank <- ByName
  ScanLimit = 25
  MaxConcurrent = 1
  DryRun = {}
  PlainWorker = {}
  Mortal = {c1}
  Faults = {"stall", "drain_timeout"}
CONSTRAINT StallBound
INVARIANTS
  OneExecutor
  ExecutedAtMostOnce
CHECK_DEADLOCK FALSE
