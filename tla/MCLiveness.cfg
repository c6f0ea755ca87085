\* m2 waits for m1; c1 may stop or crash at any step, c2 lives on.
SPECIFICATION LiveSpec
CONSTANTS
  m1 = m1
  m2 = m2
  m3 = m3
  c1 = c1
  c2 = c2
  c3 = c3
  r1 = r1
  r2 = r2
  NoOwner = NoOwner
  Missions = {m1, m2}
  Coordinators = {c1, c2}
  Repos = {r1}
  RepoOf <- OneRepo
  GoalOf <- OwnGoal
  DepsOf <- Pair
  ClientOf <- OneClient
  LimitOf <- Unlimited
  Rank <- ByName
  ScanLimit = 25
  MaxConcurrent = 1
  DryRun = {}
  PlainWorker = {}
  Mortal = {c1}
  Faults = {}
PROPERTIES
  EveryMissionEnds
  LeaseNeverStuck
CHECK_DEADLOCK FALSE
