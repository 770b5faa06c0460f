SPECIFICATION Spec
CONSTANTS
  None = None
  StartCalls = {s1}
  StopCalls = {k1}
  UpdateCalls = {}
  Callers <- MCCallers
  Names <- MCNames
  Lbs = {}
  app1 = app1
  app2 = app2
  ghost = ghost
  e1 = e1
  e2 = e2
  Applications = {app1}
  AppNames = {app1}
  SniApps = {}
  Endpoints = {e1, e2}
  UpstreamArgs <- OneUpstream
  TaskPanics = FALSE
  EphemeralPort = FALSE
  AwaitBeforeRestart = TRUE
  UpdatesAwaitLifecycle = FALSE
INVARIANTS ResolvedStopReleasesListener
