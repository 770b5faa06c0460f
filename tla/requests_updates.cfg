SPECIFICATION RequestsFairSpec
CONSTANTS
  None = None
  Requests = {r1, r2}
  app1 = app1
  cookie1 = cookie1
  b1 = b1
  b2 = b2
  Applications = {app1}
  ClientKeys = {cookie1}
  AffinityKeys <- MCAffinityKeys
  Backends = {b1, b2}
  ShardCount = 2
  ShardOf <- MCShardOf
  Ttl = 1
  max_entries = 1
  CleanupPeriod = 2
  MaxTime = 0
  subdomain_routes <- SubdomainRoutes
  path_routes <- PathRoutes
  default_app = None
  RequestInputs <- RoutedInputs
  PoolChoices <- AllPools
  StickyChoices = {TRUE, FALSE}
  MaxUpdates = 2
  MaxReuses = 1
  ErrorStatuses = {502}
  SerialSessions = FALSE
INVARIANTS RequestsTypeOK PeerFromSnapshot RetriedOnce
PROPERTIES EveryRequestAnswered
