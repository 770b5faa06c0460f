SPECIFICATION FairSpec
CONSTANTS
  None = None
  StartCalls = {s1, s2}
  StopCalls = {k1, k2}
  UpdateCalls = {u1}
  Callers <- MCCallers
  Names <- MCNames
  Lbs = {u1}
  app1 = app1
  app2 = app2
  ghost = ghost
  e1 = e1
  e2 = e2
  Applications = {app1}
  AppNames = {app1}
  SniApps = {}
  Endpoints = {e1, e2}
  UpstreamArgs <- OneUpstream
  TaskPanics = TRUE
  EphemeralPort = TRUE
  AwaitBeforeRestart = FALSE
  UpdatesAwaitLifecycle = FALSE
CHECK_DEADLOCK FALSE
INVARIANTS TypeOK NoInternalError StopWaitersServed NoTaskOrphaned RegisteredIsServing
PROPERTIES EveryCallSettles
