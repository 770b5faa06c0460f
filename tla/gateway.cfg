SPECIFICATION GatewaySpec
CONSTANTS
  None = None
  StartCalls = {s1, s2}
  StopCalls = {k1}
  UpdateCalls = {u1, u2, u3}
  Callers <- MCCallers
  Names <- MCNames
  Lbs = {u1, u2, u3}
  app1 = app1
  e1 = e1
  Applications = {app1}
  AppNames = {app1}
  SniApps = {}
  Endpoints = {e1}
  UpstreamArgs <- OneUpstream
  TaskPanics = FALSE
  EphemeralPort = TRUE
  AwaitBeforeRestart = TRUE
  UpdatesAwaitLifecycle = TRUE
  Connections = {r1}
SYMMETRY CallSymmetry
INVARIANTS GatewayTypeOK SentToAddedUpstream AddedUpstreamHasPool StartedProxyConnects
  HealthLoopForEveryPool StoppedMeansSilent
PROPERTY LifecycleIsAtomic
