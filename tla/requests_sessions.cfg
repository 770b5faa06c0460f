SPECIFICATION RequestsSpec
CONSTANTS
  None = None
  Requests = {r1, r2, r3}
  app1 = app1
  cookie1 = cookie1
  b1 = b1
  b2 = b2
  Applications = {app1}
  ClientKeys = {cookie1}
  AffinityKeys <- MCAffinityKeys
  Backends = {b1, b2}
  ShardCount = 1
  ShardOf <- MCShardOf
  Ttl = 2
  max_entries = 20
  CleanupPeriod = 2
  MaxTime = 2
  subdomain_routes <- NoRoutes
  path_routes <- NoRoutes
  default_app = app1
  RequestInputs <- SessionInputs
  PoolChoices <- BothBackends
  StickyChoices = {TRUE}
  MaxUpdates = 1
  MaxReuses = 0
  ErrorStatuses = {}
  SerialSessions = TRUE
SYMMETRY RequestSymmetry
INVARIANTS SessionsStick FailedBackendForgotten
