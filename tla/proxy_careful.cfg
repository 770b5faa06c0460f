SPECIFICATION Spec
CONSTANTS
  None = None
  StartCalls = {s1, s2}
  StopCalls = {k1, k2}
  UpdateCalls = {u1, u2}
  Callers <- MCCallers
  Names <- MCNames
  Lbs = {u1, u2}
  app1 = app1
  app2 = app2
  ghost = ghost
  e1 = e1
  e2 = e2
  Applications = {app1, app2}
  AppNames = {app1, app2, ghost}
  SniApps = {app2}
  Endpoints = {e1, e2}
  UpstreamArgs <- TableArgs
  TaskPanics = FALSE
  EphemeralPort = TRUE
  AwaitBeforeRestart = TRUE
  UpdatesAwaitLifecycle = FALSE
SYMMETRY CallSymmetry
INVARIANTS RunningMeansListening OneListener StoppedReleasesListener StartWaitersServed
  RouterServesTable
PROPERTIES LifecycleOrder UpdatesAreAtomic
