SPECIFICATION MCSpec
CONSTANTS
  Users = {u1, u2}
  Vehicles = {v1}
  ClaimIds = {c1, c2}
  Requests = {r1, r2}
  ReadOnlyVehicles = {}
  MaxAttempts = 1
  ClaimTtl = 1
  LastSecond = 1
  Catalog <- TwoTargets
  Recovery = recovery
  PortalCalls = {p1}
  LastVersion = 1
  Lifetimes = {1}
  LastTime = 1
  MaxEvents = 3
  Emails = {home, work}
  Phones = {ch, de}
  None = None
  PreferenceRuns = {r1, r2}
  RateLimit = 1
  Repertoires <- Pages
  MaxCalls = 4
  Topics = {"speed"}
  Signals = {"speed"}
  Excluded = {"heartbeat"}
  Window = 2
  Horizon = 0
  ChunkSize = 2
  MaxRetries = 1
  Past <- PastSamples
  FirstMoment = 3
  LastMoment = 4
SYMMETRY Alike
CHECK_DEADLOCK FALSE
INVARIANTS
  AuditIsTrue
  OneActiveOwner
  TablesTypeOK
  OperationIsGranted
  AmbiguityFailsClosed
  ConfirmedWasProved
  TextIsAllowed
  ApprovalIsExplained
  RefreshIsWhole
PROPERTY
  ExhaustedClaimIsDead
