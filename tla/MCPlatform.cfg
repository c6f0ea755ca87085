SPECIFICATION Spec
CONSTANTS
  EventBound = 3
  DayBound = 3
  Accidents = TRUE
  Callers = {m1, m2, m3}
  Burst = 2
  Refill = 1
  TimeBound = 3
  GrantBound = 8
  AdminNames = {a1}
  ClientNames = {cl1}
  Requests = {x1, x2}
  KeyBound = 2
  LocalProfile = TRUE
  SharedKey = FALSE
  Roles = {"superadmin", "auditor"}
  Calls = {m1, m2, m3}
  IdKeys = {k1}
  Goals = {x1, x2}
  MaxAttempts = 2
  PgMissions = {m1, m2, m3}
  PgClient <- OneClient
  Coordinators = {x1, x2}
  QuotaLimit = 1
  ScanRows = 2
  Auditors = {m1, m2, m3}
  Starts = {x1, x2}
  Stops = {t1}
  InodeBound = 3
  RespawnBound = 1
  Files = {x1, x2}
  MaxRetries = 1
  PathNames = {"a", "./a", "b"}
  PathOf <- TwoNames
  Present = {"a"}
  EditBound = 3
  Styles <- ChatStyles
  Routes <- ChatRoutes
  Fallbacks <- ChatFallbacks
  Retries = 2
  Provisioners = {p1, p2}
  Holders = {p1}
  MintBound = 3
  Proposals = {x1, x2}
  Agents = {g1, g2}
  VersionBound = 2
  SeesPixels = TRUE
  WireRetries = 2
  ParseRetries = 1
  RepairRetries = 1
  EditsCheckout = TRUE
  Catalogue <- Registry
  RouteCallers = {x1, x2}
  RouteRequests <- Asks
  MaxFallbacks = 2
  RouteBound = 2
  RootMissions = {m1, m2}
SYMMETRY Alike
INVARIANTS   BurstBounded  SubmittedOnce
           CleanExitLeavesNothing  FaultsAreJudged
PROPERTIES ClaimsAreExact  ActivationIsSound 
CHECK_DEADLOCK FALSE
