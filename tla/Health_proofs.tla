---------------------------- MODULE Health_proofs ----------------------------
(***************************************************************************)
(* The background tasks that run between the calls of a client that keeps  *)
(* both disciplines: it makes no start() before its earlier start() and    *)
(* stop() promises have settled, and no upstream update overlaps a start() *)
(* or stop().                                                              *)
(***************************************************************************)
EXTENDS Lifecycle_proofs

\* Updates and lifecycle calls are never in flight together.
ApartInv ==
  \A c \in LifecycleCalls, u \in UpdateCalls : ~(InFlight(c) /\ InFlight(u))

\* Health tasks are left to spawn, or to end, only for a start before its
\* listener is registered and for an update that committed while the proxy
\* ran.
TodoInv ==
  /\ \A s \in StartCalls : pc[s] \notin {"setup", "lbs"} => todo[s] = {}
  /\ \A u \in UpdateCalls :
       pc[u] # "services" \/ state # "Running" => todo[u] = {} /\ to_remove[u] = {}

\* Whoever registered a task is not done, or the proxy runs: otherwise the
\* registry is empty.
EmptyInv ==
  \/ \A name \in Names : services[name] = None
  \/ state = "Running"
  \/ \E s \in StartCalls : pc[s] \in {"lbs", "commit", "cancel"}
  \/ \E c \in StopCalls : pc[c] = "wait_start"

\* The service of a pool and the health task it should have.
PoolName(k) == lb_service_name(k[1], k[2])
PoolTask(k) == [name |-> PoolName(k), lb |-> pools[k].lb]

\* The registry has the health task of the pool's balancer, or none if there
\* is no pool.
Matches(k) ==
  IF pools[k] = None THEN services[PoolName(k)] = None
  ELSE services[PoolName(k)] # None /\ services[PoolName(k)].lb = pools[k].lb

\* What a start has left to do: health tasks of pools, and where a pool's
\* task is not left to do the registry already matches the pool.
StarterTasksInv ==
  \A s \in StartCalls : Precommit(s) =>
    /\ \A t \in todo[s] : \E k \in Keys : pools[k] # None /\ t = PoolTask(k)
    /\ \A k \in Keys : Matches(k) \/ (pools[k] # None /\ PoolTask(k) \in todo[s])

\* What an update has left to do, likewise.
UpdateTasksInv ==
  /\ \A u \in UpdateCalls :
       /\ \A t \in todo[u] : \E k \in Keys : pools[k] # None /\ t = PoolTask(k)
       /\ \A name \in to_remove[u] : \E k \in Keys : pools[k] = None /\ name = PoolName(k)
  /\ state = "Running" =>
       \A k \in Keys :
         \/ Matches(k)
         \/ \E u \in UpdateCalls :
              IF pools[k] = None THEN PoolName(k) \in to_remove[u] ELSE PoolTask(k) \in todo[u]

\* The listener's task runs no balancer.
MainLbInv == services[MainHttp] # None => services[MainHttp].lb = None

\* The inductive invariant of a client that keeps both disciplines.
HealthInv ==
  /\ CarefulInv /\ LockInv /\ RouterInv
  /\ ApartInv /\ TodoInv /\ EmptyInv /\ StarterTasksInv /\ UpdateTasksInv /\ MainLbInv

-----------------------------------------------------------------------------
\* Every step keeps updates apart from start() and stop().
LEMMA ApartStep ==
  ASSUME UpdatesAwaitLifecycle, TypeInv, ApartInv, [Next]_vars
  PROVE  ApartInv'
<1>1. ASSUME NEW s \in StartCalls, StartJoins(s) PROVE ApartInv'
  BY <1>1, CallTypes
  DEF StartJoins, ApartInv, InFlight, Settled, TypeInv, TypeOK, MayBegin, Goto, Outcomes
<1>2. ASSUME NEW s \in StartCalls, StartRefused(s) PROVE ApartInv'
  BY <1>2, CallTypes
  DEF StartRefused, ApartInv, InFlight, Settled, TypeInv, TypeOK, MayBegin, Goto, Outcomes
<1>3. ASSUME NEW s \in StartCalls, StartBegins(s) PROVE ApartInv'
  BY <1>3, CallTypes
  DEF StartBegins, ApartInv, InFlight, Settled, TypeInv, TypeOK, MayBegin, Goto, Outcomes
<1>4. ASSUME NEW s \in StartCalls, StartSetup(s) PROVE ApartInv'
  BY <1>4, CallTypes
  DEF StartSetup, ApartInv, InFlight, Settled, TypeInv, TypeOK, Goto, Outcomes
<1>5. ASSUME NEW s \in StartCalls, StartSetupFails(s) PROVE ApartInv'
  BY <1>5, CallTypes
  DEF StartSetupFails, ApartInv, InFlight, Settled, TypeInv, TypeOK, Goto, Outcomes
<1>6. ASSUME NEW s \in StartCalls, StartSetupPanics(s) PROVE ApartInv'
  BY <1>6, CallTypes
  DEF StartSetupPanics, ApartInv, InFlight, Settled, TypeInv, TypeOK, Goto, Outcomes
<1>7. ASSUME NEW s \in StartCalls, StartLbTask(s) PROVE ApartInv'
  BY <1>7, CallTypes
  DEF StartLbTask, ApartInv, InFlight, Settled, TypeInv, TypeOK, taskVars, Outcomes
<1>8. ASSUME NEW s \in StartCalls, StartMainHttp(s) PROVE ApartInv'
  BY <1>8, CallTypes
  DEF StartMainHttp, ApartInv, InFlight, Settled, TypeInv, TypeOK, Goto, Outcomes
<1>9. ASSUME NEW s \in StartCalls, StartCommits(s) PROVE ApartInv'
  BY <1>9, CallTypes
  DEF StartCommits, ApartInv, InFlight, Settled, TypeInv, TypeOK, Goto, Outcomes
<1>10. ASSUME NEW s \in StartCalls, StartCancelStopAll(s) PROVE ApartInv'
  BY <1>10, CallTypes
  DEF StartCancelStopAll, ApartInv, InFlight, Settled, TypeInv, TypeOK, Goto, Outcomes
<1>11. ASSUME NEW s \in StartCalls, StartCancelled(s) PROVE ApartInv'
  BY <1>11, CallTypes
  DEF StartCancelled, ApartInv, InFlight, Settled, TypeInv, TypeOK, Goto, Outcomes
<1>12. ASSUME NEW s \in StartCalls, StartReady(s) PROVE ApartInv'
  BY <1>12, CallTypes
  DEF StartReady, ApartInv, InFlight, Settled, TypeInv, TypeOK, Goto, SettledBy, RxMade, Outcomes
<1>13. ASSUME NEW c \in StopCalls, StopFindsStopped(c) PROVE ApartInv'
  BY <1>13, CallTypes
  DEF StopFindsStopped, ApartInv, InFlight, Settled, TypeInv, TypeOK, MayBegin, Goto, Outcomes
<1>14. ASSUME NEW c \in StopCalls, StopJoins(c) PROVE ApartInv'
  BY <1>14, CallTypes
  DEF StopJoins, ApartInv, InFlight, Settled, TypeInv, TypeOK, MayBegin, Goto, Outcomes
<1>15. ASSUME NEW c \in StopCalls, StopBegins(c) PROVE ApartInv'
  BY <1>15, CallTypes
  DEF StopBegins, ApartInv, InFlight, Settled, TypeInv, TypeOK, MayBegin, Goto, Outcomes
<1>16. ASSUME NEW c \in StopCalls, StopStopsAll(c) PROVE ApartInv'
  BY <1>16, CallTypes
  DEF StopStopsAll, ApartInv, InFlight, Settled, TypeInv, TypeOK, Goto, Outcomes
<1>17. ASSUME NEW c \in StopCalls, StopFinishes(c) PROVE ApartInv'
  BY <1>17, CallTypes
  DEF StopFinishes, StopEnds, ApartInv, InFlight, Settled, TypeInv, TypeOK, Goto, Outcomes
<1>18. ASSUME NEW c \in StopCalls, StopReady(c) PROVE ApartInv'
  BY <1>18, CallTypes
  DEF StopReady, ApartInv, InFlight, Settled, TypeInv, TypeOK, Goto, SettledBy, RxMade, Outcomes
<1>19. ASSUME NEW u \in UpdateCalls, UpdateCalled(u) PROVE ApartInv'
  BY <1>19, CallTypes
  DEF UpdateCalled, ApartInv, InFlight, Settled, TypeInv, TypeOK, MayBegin, Goto, Outcomes
<1>20. ASSUME NEW u \in UpdateCalls, UpdateRefused(u) PROVE ApartInv'
  BY <1>20, CallTypes
  DEF UpdateRefused, ApartInv, InFlight, Settled, TypeInv, TypeOK, Goto, Outcomes
<1>21. ASSUME NEW u \in UpdateCalls, UpdateChecked(u) PROVE ApartInv'
  BY <1>21, CallTypes
  DEF UpdateChecked, UpdateReadsTable, ApartInv, InFlight, Settled, TypeInv, TypeOK, Goto, Outcomes
<1>22. ASSUME NEW u \in UpdateCalls, UpdateRebuildFails(u) PROVE ApartInv'
  BY <1>22, CallTypes
  DEF UpdateRebuildFails, ApartInv, InFlight, Settled, TypeInv, TypeOK, Goto, Outcomes
<1>23. ASSUME NEW u \in UpdateCalls, UpdateCommits(u) PROVE ApartInv'
  BY <1>23, CallTypes
  DEF UpdateCommits, ApartInv, InFlight, Settled, TypeInv, TypeOK, Goto, Outcomes
<1>24. ASSUME NEW u \in UpdateCalls, UpdateUpserts(u) PROVE ApartInv'
  BY <1>24, CallTypes
  DEF UpdateUpserts, ApartInv, InFlight, Settled, TypeInv, TypeOK, taskVars, Outcomes
<1>25. ASSUME NEW u \in UpdateCalls, UpdateRemoves(u) PROVE ApartInv'
  BY <1>25, CallTypes
  DEF UpdateRemoves, ApartInv, InFlight, Settled, TypeInv, TypeOK, taskVars, Outcomes
<1>26. ASSUME NEW u \in UpdateCalls, UpdateDone(u) PROVE ApartInv'
  BY <1>26, CallTypes
  DEF UpdateDone, ApartInv, InFlight, Settled, TypeInv, TypeOK, Goto, Outcomes
<1>27. ASSUME NEW c \in Callers, SignalStep(c) PROVE ApartInv'
  BY <1>27, CallTypes
  DEF SignalStep, ApartInv, InFlight, Settled, TypeInv, TypeOK, taskVars, Outcomes
<1>28. ASSUME NEW h \in signalled, TaskStep(h) PROVE ApartInv'
  BY <1>28, CallTypes
  DEF TaskStep, ApartInv, InFlight, Settled, TypeInv, TypeOK, taskVars, Outcomes
<1>29. CASE UNCHANGED vars
  BY <1>29, CallTypes
  DEF vars, ApartInv, InFlight, Settled, TypeInv, TypeOK, taskVars, Outcomes
<1> QED
  BY <1>1, <1>2, <1>3, <1>4, <1>5, <1>6, <1>7, <1>8, <1>9, <1>10, <1>11, <1>12, <1>13, <1>14, <1>15,
     <1>16, <1>17, <1>18, <1>19, <1>20, <1>21, <1>22, <1>23, <1>24, <1>25, <1>26, <1>27, <1>28,
     <1>29
  DEF Next, StartCallMade, StartStep, StopCallMade, StopStep, UpdateStep, AllSettled

\* Every step leaves health tasks to do only where TodoInv says.
LEMMA TodoStep ==
  ASSUME UpdatesAwaitLifecycle, CarefulInv, TodoInv, [Next]_vars
  PROVE  TodoInv'
<1>1. ASSUME NEW s \in StartCalls, StartJoins(s) PROVE TodoInv'
  BY <1>1, CallTypes
  DEF StartJoins, TodoInv, CarefulInv, TypeInv, TypeOK, MayBegin, Goto, lifecycleVars
<1>2. ASSUME NEW s \in StartCalls, StartRefused(s) PROVE TodoInv'
  BY <1>2, CallTypes
  DEF StartRefused, TodoInv, CarefulInv, TypeInv, TypeOK, MayBegin, Goto, lifecycleVars
<1>3. ASSUME NEW s \in StartCalls, StartBegins(s) PROVE TodoInv'
  BY <1>3, CallTypes
  DEF StartBegins, TodoInv, CarefulInv, TypeInv, TypeOK, MayBegin, Goto, lifecycleVars
<1>4. ASSUME NEW s \in StartCalls, StartSetup(s) PROVE TodoInv'
  BY <1>4, CallTypes
  DEF StartSetup, TodoInv, CarefulInv, TypeInv, TypeOK, Goto, lifecycleVars
<1>5. ASSUME NEW s \in StartCalls, StartSetupFails(s) PROVE TodoInv'
  BY <1>5, CallTypes
  DEF StartSetupFails, TodoInv, CarefulInv, TypeInv, TypeOK, StarterInv, StopperInv, Precommit,
      Cancelling, Stopper, Goto, lifecycleVars
<1>6. ASSUME NEW s \in StartCalls, StartSetupPanics(s) PROVE TodoInv'
  BY <1>6, CallTypes
  DEF StartSetupPanics, TodoInv, CarefulInv, TypeInv, TypeOK, Goto, lifecycleVars
<1>7. ASSUME NEW s \in StartCalls, StartLbTask(s) PROVE TodoInv'
  BY <1>7, CallTypes
  DEF StartLbTask, TodoInv, CarefulInv, TypeInv, TypeOK, taskVars, lifecycleVars
<1>8. ASSUME NEW s \in StartCalls, StartMainHttp(s) PROVE TodoInv'
  BY <1>8, CallTypes
  DEF StartMainHttp, TodoInv, CarefulInv, TypeInv, TypeOK, Goto, lifecycleVars
<1>9. ASSUME NEW s \in StartCalls, StartCommits(s) PROVE TodoInv'
  BY <1>9, CallTypes
  DEF StartCommits, TodoInv, CarefulInv, TypeInv, TypeOK, StarterInv, StopperInv, Precommit,
      Cancelling, Stopper, Goto, lifecycleVars
<1>10. ASSUME NEW s \in StartCalls, StartCancelStopAll(s) PROVE TodoInv'
  BY <1>10, CallTypes
  DEF StartCancelStopAll, TodoInv, CarefulInv, TypeInv, TypeOK, Goto, lifecycleVars
<1>11. ASSUME NEW s \in StartCalls, StartCancelled(s) PROVE TodoInv'
  BY <1>11, CallTypes
  DEF StartCancelled, TodoInv, CarefulInv, TypeInv, TypeOK, StarterInv, StopperInv, Precommit,
      Cancelling, Stopper, Goto, lifecycleVars
<1>12. ASSUME NEW s \in StartCalls, StartReady(s) PROVE TodoInv'
  BY <1>12, CallTypes
  DEF StartReady, TodoInv, CarefulInv, TypeInv, TypeOK, Goto, SettledBy, RxMade, lifecycleVars
<1>13. ASSUME NEW c \in StopCalls, StopFindsStopped(c) PROVE TodoInv'
  BY <1>13, CallTypes
  DEF StopFindsStopped, TodoInv, CarefulInv, TypeInv, TypeOK, MayBegin, Goto, lifecycleVars
<1>14. ASSUME NEW c \in StopCalls, StopJoins(c) PROVE TodoInv'
  BY <1>14, CallTypes
  DEF StopJoins, TodoInv, CarefulInv, TypeInv, TypeOK, MayBegin, Goto, lifecycleVars
<1>15. ASSUME NEW c \in StopCalls, StopBegins(c) PROVE TodoInv'
  BY <1>15, CallTypes
  DEF StopBegins, TodoInv, CarefulInv, TypeInv, TypeOK, MayBegin, InFlight, Settled, Outcomes, Goto,
      lifecycleVars
<1>16. ASSUME NEW c \in StopCalls, StopStopsAll(c) PROVE TodoInv'
  BY <1>16, CallTypes
  DEF StopStopsAll, TodoInv, CarefulInv, TypeInv, TypeOK, Goto, lifecycleVars
<1>17. ASSUME NEW c \in StopCalls, StopFinishes(c) PROVE TodoInv'
  BY <1>17, CallTypes
  DEF StopFinishes, StopEnds, TodoInv, CarefulInv, TypeInv, TypeOK, StarterInv, StopperInv,
      Precommit, Cancelling, Stopper, Goto, lifecycleVars
<1>18. ASSUME NEW c \in StopCalls, StopReady(c) PROVE TodoInv'
  BY <1>18, CallTypes
  DEF StopReady, TodoInv, CarefulInv, TypeInv, TypeOK, Goto, SettledBy, RxMade, lifecycleVars
<1>19. ASSUME NEW u \in UpdateCalls, UpdateCalled(u) PROVE TodoInv'
  BY <1>19, CallTypes
  DEF UpdateCalled, TodoInv, CarefulInv, TypeInv, TypeOK, MayBegin, Goto, lifecycleVars
<1>20. ASSUME NEW u \in UpdateCalls, UpdateRefused(u) PROVE TodoInv'
  BY <1>20, CallTypes
  DEF UpdateRefused, TodoInv, CarefulInv, TypeInv, TypeOK, Goto, lifecycleVars
<1>21. ASSUME NEW u \in UpdateCalls, UpdateChecked(u) PROVE TodoInv'
  BY <1>21, CallTypes
  DEF UpdateChecked, UpdateReadsTable, TodoInv, CarefulInv, TypeInv, TypeOK, Goto, lifecycleVars
<1>22. ASSUME NEW u \in UpdateCalls, UpdateRebuildFails(u) PROVE TodoInv'
  BY <1>22, CallTypes
  DEF UpdateRebuildFails, TodoInv, CarefulInv, TypeInv, TypeOK, Goto, lifecycleVars
<1>23. ASSUME NEW u \in UpdateCalls, UpdateCommits(u) PROVE TodoInv'
  BY <1>23, CallTypes
  DEF UpdateCommits, TodoInv, CarefulInv, TypeInv, TypeOK, Goto, lifecycleVars
<1>24. ASSUME NEW u \in UpdateCalls, UpdateUpserts(u) PROVE TodoInv'
  BY <1>24, CallTypes
  DEF UpdateUpserts, TodoInv, CarefulInv, TypeInv, TypeOK, taskVars, lifecycleVars
<1>25. ASSUME NEW u \in UpdateCalls, UpdateRemoves(u) PROVE TodoInv'
  BY <1>25, CallTypes
  DEF UpdateRemoves, TodoInv, CarefulInv, TypeInv, TypeOK, taskVars, lifecycleVars
<1>26. ASSUME NEW u \in UpdateCalls, UpdateDone(u) PROVE TodoInv'
  BY <1>26, CallTypes
  DEF UpdateDone, TodoInv, CarefulInv, TypeInv, TypeOK, Goto, lifecycleVars
<1>27. ASSUME NEW c \in Callers, SignalStep(c) PROVE TodoInv'
  BY <1>27, CallTypes
  DEF SignalStep, TodoInv, CarefulInv, TypeInv, TypeOK, taskVars, lifecycleVars
<1>28. ASSUME NEW h \in signalled, TaskStep(h) PROVE TodoInv'
  BY <1>28, CallTypes
  DEF TaskStep, TodoInv, CarefulInv, TypeInv, TypeOK, taskVars, lifecycleVars
<1>29. CASE UNCHANGED vars
  BY <1>29, CallTypes
  DEF vars, TodoInv, CarefulInv, TypeInv, TypeOK, taskVars, lifecycleVars
<1> QED
  BY <1>1, <1>2, <1>3, <1>4, <1>5, <1>6, <1>7, <1>8, <1>9, <1>10, <1>11, <1>12, <1>13, <1>14, <1>15,
     <1>16, <1>17, <1>18, <1>19, <1>20, <1>21, <1>22, <1>23, <1>24, <1>25, <1>26, <1>27, <1>28,
     <1>29
  DEF Next, StartCallMade, StartStep, StopCallMade, StopStep, UpdateStep, AllSettled

\* Every step leaves the registry empty unless EmptyInv says who uses it.
LEMMA EmptyStep ==
  ASSUME CarefulInv, TodoInv, EmptyInv, [Next]_vars
  PROVE  EmptyInv'
<1>1. ASSUME NEW s \in StartCalls, StartJoins(s) PROVE EmptyInv'
  BY <1>1, CallTypes
  DEF StartJoins, EmptyInv, CarefulInv, TypeInv, TypeOK, ServerTypeOK, MayBegin, Goto, serverVars,
      lifecycleVars
<1>2. ASSUME NEW s \in StartCalls, StartRefused(s) PROVE EmptyInv'
  BY <1>2, CallTypes
  DEF StartRefused, EmptyInv, CarefulInv, TypeInv, TypeOK, ServerTypeOK, MayBegin, Goto, serverVars,
      lifecycleVars
<1>3. ASSUME NEW s \in StartCalls, StartBegins(s) PROVE EmptyInv'
  BY <1>3, CallTypes
  DEF StartBegins, EmptyInv, CarefulInv, TypeInv, TypeOK, ServerTypeOK, MayBegin, Goto, serverVars,
      lifecycleVars
<1>4. ASSUME NEW s \in StartCalls, StartSetup(s) PROVE EmptyInv'
  BY <1>4, CallTypes
  DEF StartSetup, EmptyInv, CarefulInv, TypeInv, TypeOK, ServerTypeOK, Goto, serverVars,
      lifecycleVars
<1>5. ASSUME NEW s \in StartCalls, StartSetupFails(s) PROVE EmptyInv'
  BY <1>5, CallTypes
  DEF StartSetupFails, EmptyInv, CarefulInv, TypeInv, TypeOK, ServerTypeOK, StarterInv, StopperInv,
      Precommit, Cancelling, Stopper, Goto, serverVars, lifecycleVars
<1>6. ASSUME NEW s \in StartCalls, StartSetupPanics(s) PROVE EmptyInv'
  BY <1>6, CallTypes
  DEF StartSetupPanics, EmptyInv, CarefulInv, TypeInv, TypeOK, ServerTypeOK, Goto, serverVars,
      lifecycleVars
<1>7. ASSUME NEW s \in StartCalls, StartLbTask(s) PROVE EmptyInv'
  BY <1>7, CallTypes
  DEF StartLbTask, EmptyInv, CarefulInv, TypeInv, TypeOK, ServerTypeOK, upsert_service, taskVars,
      lifecycleVars
<1>8. ASSUME NEW s \in StartCalls, StartMainHttp(s) PROVE EmptyInv'
  BY <1>8, CallTypes
  DEF StartMainHttp, EmptyInv, CarefulInv, TypeInv, TypeOK, ServerTypeOK, upsert_service, Goto,
      lifecycleVars
<1>9. ASSUME NEW s \in StartCalls, StartCommits(s) PROVE EmptyInv'
  BY <1>9, CallTypes
  DEF StartCommits, EmptyInv, CarefulInv, TypeInv, TypeOK, ServerTypeOK, StarterInv, StopperInv,
      Precommit, Cancelling, Stopper, Goto, serverVars, lifecycleVars
<1>10. ASSUME NEW s \in StartCalls, StartCancelStopAll(s) PROVE EmptyInv'
  BY <1>10, CallTypes
  DEF StartCancelStopAll, EmptyInv, CarefulInv, TypeInv, TypeOK, ServerTypeOK, stop_all, Goto,
      lifecycleVars
<1>11. ASSUME NEW s \in StartCalls, StartCancelled(s) PROVE EmptyInv'
  BY <1>11, CallTypes
  DEF StartCancelled, EmptyInv, CarefulInv, TypeInv, TypeOK, ServerTypeOK, StarterInv, StopperInv,
      Precommit, Cancelling, Stopper, Goto, serverVars, lifecycleVars
<1>12. ASSUME NEW s \in StartCalls, StartReady(s) PROVE EmptyInv'
  BY <1>12, CallTypes
  DEF StartReady, EmptyInv, CarefulInv, TypeInv, TypeOK, ServerTypeOK, Goto, SettledBy, RxMade,
      serverVars, lifecycleVars
<1>13. ASSUME NEW c \in StopCalls, StopFindsStopped(c) PROVE EmptyInv'
  BY <1>13, CallTypes
  DEF StopFindsStopped, EmptyInv, CarefulInv, TypeInv, TypeOK, ServerTypeOK, MayBegin, Goto,
      serverVars, lifecycleVars
<1>14. ASSUME NEW c \in StopCalls, StopJoins(c) PROVE EmptyInv'
  BY <1>14, CallTypes
  DEF StopJoins, EmptyInv, CarefulInv, TypeInv, TypeOK, ServerTypeOK, MayBegin, Goto, serverVars,
      lifecycleVars
<1>15. ASSUME NEW c \in StopCalls, StopBegins(c) PROVE EmptyInv'
  BY <1>15, CallTypes
  DEF StopBegins, EmptyInv, CarefulInv, TypeInv, TypeOK, ServerTypeOK, MayBegin, Goto, serverVars,
      lifecycleVars
<1>16. ASSUME NEW c \in StopCalls, StopStopsAll(c) PROVE EmptyInv'
  BY <1>16, CallTypes
  DEF StopStopsAll, EmptyInv, CarefulInv, TypeInv, TypeOK, ServerTypeOK, stop_all, Goto,
      lifecycleVars
<1>17. ASSUME NEW c \in StopCalls, StopFinishes(c) PROVE EmptyInv'
  BY <1>17, CallTypes
  DEF StopFinishes, StopEnds, EmptyInv, CarefulInv, TypeInv, TypeOK, ServerTypeOK, StarterInv,
      StopperInv, Precommit, Cancelling, Stopper, Goto, serverVars, lifecycleVars
<1>18. ASSUME NEW c \in StopCalls, StopReady(c) PROVE EmptyInv'
  BY <1>18, CallTypes
  DEF StopReady, EmptyInv, CarefulInv, TypeInv, TypeOK, ServerTypeOK, Goto, SettledBy, RxMade,
      serverVars, lifecycleVars
<1>19. ASSUME NEW u \in UpdateCalls, UpdateCalled(u) PROVE EmptyInv'
  BY <1>19, CallTypes
  DEF UpdateCalled, EmptyInv, CarefulInv, TypeInv, TypeOK, ServerTypeOK, MayBegin, Goto, serverVars,
      lifecycleVars
<1>20. ASSUME NEW u \in UpdateCalls, UpdateRefused(u) PROVE EmptyInv'
  BY <1>20, CallTypes
  DEF UpdateRefused, EmptyInv, CarefulInv, TypeInv, TypeOK, ServerTypeOK, Goto, serverVars,
      lifecycleVars
<1>21. ASSUME NEW u \in UpdateCalls, UpdateChecked(u) PROVE EmptyInv'
  BY <1>21, CallTypes
  DEF UpdateChecked, UpdateReadsTable, EmptyInv, CarefulInv, TypeInv, TypeOK, ServerTypeOK, Goto,
      serverVars, lifecycleVars
<1>22. ASSUME NEW u \in UpdateCalls, UpdateRebuildFails(u) PROVE EmptyInv'
  BY <1>22, CallTypes
  DEF UpdateRebuildFails, EmptyInv, CarefulInv, TypeInv, TypeOK, ServerTypeOK, Goto, serverVars,
      lifecycleVars
<1>23. ASSUME NEW u \in UpdateCalls, UpdateCommits(u) PROVE EmptyInv'
  BY <1>23, CallTypes
  DEF UpdateCommits, EmptyInv, CarefulInv, TypeInv, TypeOK, ServerTypeOK, Goto, serverVars,
      lifecycleVars
<1>24. ASSUME NEW u \in UpdateCalls, UpdateUpserts(u) PROVE EmptyInv'
  BY <1>24, CallTypes
  DEF UpdateUpserts, EmptyInv, CarefulInv, TypeInv, TypeOK, ServerTypeOK, upsert_service, TodoInv,
      taskVars, lifecycleVars
<1>25. ASSUME NEW u \in UpdateCalls, UpdateRemoves(u) PROVE EmptyInv'
  BY <1>25, CallTypes
  DEF UpdateRemoves, EmptyInv, CarefulInv, TypeInv, TypeOK, ServerTypeOK, remove_service, taskVars,
      lifecycleVars
<1>26. ASSUME NEW u \in UpdateCalls, UpdateDone(u) PROVE EmptyInv'
  BY <1>26, CallTypes
  DEF UpdateDone, EmptyInv, CarefulInv, TypeInv, TypeOK, ServerTypeOK, Goto, serverVars,
      lifecycleVars
<1>27. ASSUME NEW c \in Callers, SignalStep(c) PROVE EmptyInv'
  BY <1>27, CallTypes
  DEF SignalStep, EmptyInv, CarefulInv, TypeInv, TypeOK, ServerTypeOK, Signal, taskVars,
      lifecycleVars
<1>28. ASSUME NEW h \in signalled, TaskStep(h) PROVE EmptyInv'
  BY <1>28, CallTypes
  DEF TaskStep, EmptyInv, CarefulInv, TypeInv, TypeOK, ServerTypeOK, TaskEnds, taskVars,
      lifecycleVars
<1>29. CASE UNCHANGED vars
  BY <1>29, CallTypes
  DEF vars, EmptyInv, CarefulInv, TypeInv, TypeOK, ServerTypeOK, taskVars, serverVars, lifecycleVars
<1> QED
  BY <1>1, <1>2, <1>3, <1>4, <1>5, <1>6, <1>7, <1>8, <1>9, <1>10, <1>11, <1>12, <1>13, <1>14, <1>15,
     <1>16, <1>17, <1>18, <1>19, <1>20, <1>21, <1>22, <1>23, <1>24, <1>25, <1>26, <1>27, <1>28,
     <1>29
  DEF Next, StartCallMade, StartStep, StopCallMade, StopStep, UpdateStep, AllSettled

\* Every step registers the listener's task without a balancer.
LEMMA MainLbStep ==
  ASSUME CarefulInv, MainLbInv, [Next]_vars
  PROVE  MainLbInv'
<1>1. ASSUME NEW s \in StartCalls, StartJoins(s) PROVE MainLbInv'
  BY <1>1, CallTypes, MainHttpType
  DEF StartJoins, MainLbInv, CarefulInv, TypeInv, TypeOK, ServerTypeOK, serverVars
<1>2. ASSUME NEW s \in StartCalls, StartRefused(s) PROVE MainLbInv'
  BY <1>2, CallTypes, MainHttpType
  DEF StartRefused, MainLbInv, CarefulInv, TypeInv, TypeOK, ServerTypeOK, serverVars
<1>3. ASSUME NEW s \in StartCalls, StartBegins(s) PROVE MainLbInv'
  BY <1>3, CallTypes, MainHttpType
  DEF StartBegins, MainLbInv, CarefulInv, TypeInv, TypeOK, ServerTypeOK, serverVars
<1>4. ASSUME NEW s \in StartCalls, StartSetup(s) PROVE MainLbInv'
  BY <1>4, CallTypes, MainHttpType
  DEF StartSetup, MainLbInv, CarefulInv, TypeInv, TypeOK, ServerTypeOK, serverVars
<1>5. ASSUME NEW s \in StartCalls, StartSetupFails(s) PROVE MainLbInv'
  BY <1>5, CallTypes, MainHttpType
  DEF StartSetupFails, MainLbInv, CarefulInv, TypeInv, TypeOK, ServerTypeOK, serverVars
<1>6. ASSUME NEW s \in StartCalls, StartSetupPanics(s) PROVE MainLbInv'
  BY <1>6, CallTypes, MainHttpType
  DEF StartSetupPanics, MainLbInv, CarefulInv, TypeInv, TypeOK, ServerTypeOK, serverVars
<1>7. ASSUME NEW s \in StartCalls, StartLbTask(s) PROVE MainLbInv'
  BY <1>7, CallTypes, MainHttpType
  DEF StartLbTask, MainLbInv, CarefulInv, TypeInv, TypeOK, ServerTypeOK, upsert_service,
      HealthNamesInv, HealthTask
<1>8. ASSUME NEW s \in StartCalls, StartMainHttp(s) PROVE MainLbInv'
  BY <1>8, CallTypes, MainHttpType
  DEF StartMainHttp, MainLbInv, CarefulInv, TypeInv, TypeOK, ServerTypeOK, upsert_service
<1>9. ASSUME NEW s \in StartCalls, StartCommits(s) PROVE MainLbInv'
  BY <1>9, CallTypes, MainHttpType
  DEF StartCommits, MainLbInv, CarefulInv, TypeInv, TypeOK, ServerTypeOK, serverVars
<1>10. ASSUME NEW s \in StartCalls, StartCancelStopAll(s) PROVE MainLbInv'
  BY <1>10, CallTypes, MainHttpType
  DEF StartCancelStopAll, MainLbInv, CarefulInv, TypeInv, TypeOK, ServerTypeOK, stop_all
<1>11. ASSUME NEW s \in StartCalls, StartCancelled(s) PROVE MainLbInv'
  BY <1>11, CallTypes, MainHttpType
  DEF StartCancelled, MainLbInv, CarefulInv, TypeInv, TypeOK, ServerTypeOK, serverVars
<1>12. ASSUME NEW s \in StartCalls, StartReady(s) PROVE MainLbInv'
  BY <1>12, CallTypes, MainHttpType
  DEF StartReady, MainLbInv, CarefulInv, TypeInv, TypeOK, ServerTypeOK, serverVars
<1>13. ASSUME NEW c \in StopCalls, StopFindsStopped(c) PROVE MainLbInv'
  BY <1>13, CallTypes, MainHttpType
  DEF StopFindsStopped, MainLbInv, CarefulInv, TypeInv, TypeOK, ServerTypeOK, serverVars
<1>14. ASSUME NEW c \in StopCalls, StopJoins(c) PROVE MainLbInv'
  BY <1>14, CallTypes, MainHttpType
  DEF StopJoins, MainLbInv, CarefulInv, TypeInv, TypeOK, ServerTypeOK, serverVars
<1>15. ASSUME NEW c \in StopCalls, StopBegins(c) PROVE MainLbInv'
  BY <1>15, CallTypes, MainHttpType
  DEF StopBegins, MainLbInv, CarefulInv, TypeInv, TypeOK, ServerTypeOK, serverVars
<1>16. ASSUME NEW c \in StopCalls, StopStopsAll(c) PROVE MainLbInv'
  BY <1>16, CallTypes, MainHttpType
  DEF StopStopsAll, MainLbInv, CarefulInv, TypeInv, TypeOK, ServerTypeOK, stop_all
<1>17. ASSUME NEW c \in StopCalls, StopFinishes(c) PROVE MainLbInv'
  BY <1>17, CallTypes, MainHttpType
  DEF StopFinishes, StopEnds, MainLbInv, CarefulInv, TypeInv, TypeOK, ServerTypeOK, serverVars
<1>18. ASSUME NEW c \in StopCalls, StopReady(c) PROVE MainLbInv'
  BY <1>18, CallTypes, MainHttpType
  DEF StopReady, MainLbInv, CarefulInv, TypeInv, TypeOK, ServerTypeOK, serverVars
<1>19. ASSUME NEW u \in UpdateCalls, UpdateCalled(u) PROVE MainLbInv'
  BY <1>19, CallTypes, MainHttpType
  DEF UpdateCalled, MainLbInv, CarefulInv, TypeInv, TypeOK, ServerTypeOK, serverVars
<1>20. ASSUME NEW u \in UpdateCalls, UpdateRefused(u) PROVE MainLbInv'
  BY <1>20, CallTypes, MainHttpType
  DEF UpdateRefused, MainLbInv, CarefulInv, TypeInv, TypeOK, ServerTypeOK, serverVars
<1>21. ASSUME NEW u \in UpdateCalls, UpdateChecked(u) PROVE MainLbInv'
  BY <1>21, CallTypes, MainHttpType
  DEF UpdateChecked, UpdateReadsTable, MainLbInv, CarefulInv, TypeInv, TypeOK, ServerTypeOK,
      serverVars
<1>22. ASSUME NEW u \in UpdateCalls, UpdateRebuildFails(u) PROVE MainLbInv'
  BY <1>22, CallTypes, MainHttpType
  DEF UpdateRebuildFails, MainLbInv, CarefulInv, TypeInv, TypeOK, ServerTypeOK, serverVars
<1>23. ASSUME NEW u \in UpdateCalls, UpdateCommits(u) PROVE MainLbInv'
  BY <1>23, CallTypes, MainHttpType
  DEF UpdateCommits, MainLbInv, CarefulInv, TypeInv, TypeOK, ServerTypeOK, serverVars
<1>24. ASSUME NEW u \in UpdateCalls, UpdateUpserts(u) PROVE MainLbInv'
  BY <1>24, CallTypes, MainHttpType
  DEF UpdateUpserts, MainLbInv, CarefulInv, TypeInv, TypeOK, ServerTypeOK, upsert_service,
      HealthNamesInv, HealthTask
<1>25. ASSUME NEW u \in UpdateCalls, UpdateRemoves(u) PROVE MainLbInv'
  BY <1>25, CallTypes, MainHttpType
  DEF UpdateRemoves, MainLbInv, CarefulInv, TypeInv, TypeOK, ServerTypeOK, remove_service,
      HealthNamesInv
<1>26. ASSUME NEW u \in UpdateCalls, UpdateDone(u) PROVE MainLbInv'
  BY <1>26, CallTypes, MainHttpType
  DEF UpdateDone, MainLbInv, CarefulInv, TypeInv, TypeOK, ServerTypeOK, serverVars
<1>27. ASSUME NEW c \in Callers, SignalStep(c) PROVE MainLbInv'
  BY <1>27, CallTypes, MainHttpType
  DEF SignalStep, MainLbInv, CarefulInv, TypeInv, TypeOK, ServerTypeOK, Signal
<1>28. ASSUME NEW h \in signalled, TaskStep(h) PROVE MainLbInv'
  BY <1>28, CallTypes, MainHttpType
  DEF TaskStep, MainLbInv, CarefulInv, TypeInv, TypeOK, ServerTypeOK, TaskEnds
<1>29. CASE UNCHANGED vars
  BY <1>29, CallTypes, MainHttpType
  DEF vars, MainLbInv, CarefulInv, TypeInv, TypeOK, ServerTypeOK, serverVars
<1> QED
  BY <1>1, <1>2, <1>3, <1>4, <1>5, <1>6, <1>7, <1>8, <1>9, <1>10, <1>11, <1>12, <1>13, <1>14, <1>15,
     <1>16, <1>17, <1>18, <1>19, <1>20, <1>21, <1>22, <1>23, <1>24, <1>25, <1>26, <1>27, <1>28,
     <1>29
  DEF Next, StartCallMade, StartStep, StopCallMade, StopStep, UpdateStep, AllSettled

-----------------------------------------------------------------------------
\* Distinct pools have distinct service names, none of them the listener's.
LEMMA PoolNames ==
  ASSUME NEW k \in Keys
  PROVE  /\ PoolName(k) \in Names /\ PoolName(k) # MainHttp
         /\ \A j \in Keys : PoolName(j) = PoolName(k) => j = k
<1>1. ASSUME NEW j \in Keys, PoolName(j) = PoolName(k) PROVE j = k
  <2>1. j[1] = k[1]
    BY <1>1 DEF PoolName, lb_service_name
  <2>2. j[2] \in TransportKind /\ k[2] \in TransportKind
    BY DEF Keys
  <2>3. [Http1 |-> "http", Http2 |-> "http2", Ws |-> "ws"][j[2]]
          = [Http1 |-> "http", Http2 |-> "http2", Ws |-> "ws"][k[2]]
    BY <1>1 DEF PoolName, lb_service_name
  <2>4. j[2] = k[2]
    BY <2>2, <2>3 DEF TransportKind
  <2> QED BY <2>1, <2>4 DEF Keys
<1> QED BY <1>1, ServiceNameType DEF PoolName

\* A pool's health task keeps its name and balancer.
LEMMA PoolTaskFields ==
  ASSUME NEW k
  PROVE  PoolTask(k).name = PoolName(k) /\ PoolTask(k).lb = pools[k].lb
BY DEF PoolTask

\* Registering the health task of a pool makes that pool match and leaves
\* the others as they are.
LEMMA UpsertMatches ==
  ASSUME TypeInv, NEW c \in Callers, NEW k \in Keys, pools[k] # None, pools' = pools,
         upsert_service(c, PoolTask(k).name, PoolTask(k).lb)
  PROVE  Matches(k)' /\ \A j \in Keys \ {k} : Matches(j)' = Matches(j)
<1> DEFINE h == [by |-> c, name |-> PoolName(k), lb |-> pools[k].lb]
<1>1. services' = [services EXCEPT ![PoolName(k)] = h]
  BY PoolTaskFields DEF upsert_service
<1>2. pools[k].lb \in UpdateCalls
  BY DEF TypeInv, TypeOK, PoolConfig
<1>3. h \in ServiceHandle
  BY <1>2, PoolNames, CallTypes DEF ServiceHandle
<1>4. h # None /\ h.lb = pools[k].lb
  BY <1>3, NoneAssumption
<1> HIDE DEF h
<1>5. Matches(k)'
  BY <1>1, <1>4, PoolNames DEF Matches, TypeInv, TypeOK, ServerTypeOK, PoolName
<1>6. ASSUME NEW j \in Keys \ {k} PROVE Matches(j)' = Matches(j)
  BY <1>1, PoolNames DEF Matches, TypeInv, TypeOK, ServerTypeOK, PoolName
<1> QED BY <1>5, <1>6

\* A step that leaves the pools and their services alone changes no match.
LEMMA MatchFrame ==
  ASSUME pools' = pools, \A k \in Keys : services'[PoolName(k)] = services[PoolName(k)]
  PROVE  \A k \in Keys : Matches(k)' = Matches(k)
BY DEF Matches, PoolName

\* The same for the tasks themselves.
LEMMA TaskFrame ==
  ASSUME pools' = pools
  PROVE  \A k : PoolTask(k)' = PoolTask(k)
BY DEF PoolTask, PoolName

\* StarterTasksInv for a step that changes neither pools nor their services
\* nor what the start has to do, and lets no start begin.
LEMMA StarterTasksFrame ==
  ASSUME StarterTasksInv, pools' = pools,
         \A k \in Keys : services'[PoolName(k)] = services[PoolName(k)],
         \A s \in StartCalls : Precommit(s)' => Precommit(s) /\ todo'[s] = todo[s]
  PROVE  StarterTasksInv'
BY MatchFrame, TaskFrame DEF StarterTasksInv

\* Every step keeps a start's health tasks in line with the pools.
LEMMA StarterTasksStep ==
  ASSUME AwaitBeforeRestart, CarefulInv, ApartInv, EmptyInv, StarterTasksInv, [Next]_vars
  PROVE  StarterTasksInv'
<1>1. ASSUME NEW s \in StartCalls, StartJoins(s) PROVE StarterTasksInv'
  BY <1>1, CallTypes, StarterTasksFrame, PoolNames
  DEF StartJoins, Precommit, CarefulInv, TypeInv, TypeOK, ServerTypeOK, tableVars, serverVars, Goto,
      MayBegin
<1>2. ASSUME NEW s \in StartCalls, StartRefused(s) PROVE StarterTasksInv'
  BY <1>2, CallTypes, StarterTasksFrame, PoolNames
  DEF StartRefused, Precommit, CarefulInv, TypeInv, TypeOK, ServerTypeOK, tableVars, serverVars,
      Goto, MayBegin
<1>3. ASSUME NEW s \in StartCalls, StartBegins(s) PROVE StarterTasksInv'
  <2>1. \A name \in Names : services[name] = None
    BY <1>3, CallTypes
    DEF StartBegins, MayBegin, EmptyInv, InFlight, Settled, Outcomes
  <2>2. \A t \in StartCalls : Precommit(t)' <=> t = s
    BY <1>3, CallTypes
    DEF StartBegins, MayBegin, Precommit, InFlight, Settled, Outcomes, Goto, CarefulInv, TypeInv,
        TypeOK
  <2>3. todo'[s] = initial_lb_tasks /\ pools' = pools /\ services' = services
    BY <1>3, CallTypes DEF StartBegins, CarefulInv, TypeInv, TypeOK, tableVars, serverVars
  <2>4. \A t : t \in initial_lb_tasks <=> \E k \in Keys : pools[k] # None /\ t = PoolTask(k)
    BY DEF initial_lb_tasks, PoolTask, PoolName
  <2>5. \A k \in Keys : pools[k] = None => Matches(k)
    BY <2>1, PoolNames DEF Matches
  <2>6. \A k \in Keys : Matches(k)' = Matches(k) /\ PoolTask(k)' = PoolTask(k)
    BY <2>3, MatchFrame, TaskFrame
  <2> QED BY <2>2, <2>3, <2>4, <2>5, <2>6 DEF StarterTasksInv
<1>4. ASSUME NEW s \in StartCalls, StartSetup(s) PROVE StarterTasksInv'
  BY <1>4, CallTypes, StarterTasksFrame, PoolNames
  DEF StartSetup, Precommit, CarefulInv, TypeInv, TypeOK, ServerTypeOK, tableVars, serverVars, Goto
<1>5. ASSUME NEW s \in StartCalls, StartSetupFails(s) PROVE StarterTasksInv'
  BY <1>5, CallTypes, StarterTasksFrame, PoolNames
  DEF StartSetupFails, Precommit, CarefulInv, TypeInv, TypeOK, ServerTypeOK, tableVars, serverVars,
      Goto
<1>6. ASSUME NEW s \in StartCalls, StartSetupPanics(s) PROVE StarterTasksInv'
  BY <1>6, CallTypes, StarterTasksFrame, PoolNames
  DEF StartSetupPanics, Precommit, CarefulInv, TypeInv, TypeOK, ServerTypeOK, tableVars, serverVars,
      Goto
<1>7. ASSUME NEW s \in StartCalls, StartLbTask(s) PROVE StarterTasksInv'
  <2>1. PICK t \in todo[s] : upsert_service(s, t.name, t.lb) /\ todo' = [todo EXCEPT ![s] = @ \ {t}]
    BY <1>7 DEF StartLbTask
  <2>2. Precommit(s) /\ pools' = pools /\ pc' = pc
    BY <1>7 DEF StartLbTask, Precommit, tableVars
  <2>3. \A v \in StartCalls : Precommit(v)' <=> v = s
    BY <2>2 DEF Precommit, CarefulInv, StarterInv
  <2>4. PICK k \in Keys : pools[k] # None /\ t = PoolTask(k)
    BY <2>2 DEF StarterTasksInv
  <2>5. Matches(k)' /\ \A j \in Keys \ {k} : Matches(j)' = Matches(j)
    BY <2>1, <2>2, <2>4, UpsertMatches, CallTypes DEF CarefulInv
  <2>6. \A j \in Keys \ {k} : PoolTask(j) # t
    BY <2>4, PoolNames, PoolTaskFields
  <2>7. todo'[s] = todo[s] \ {t} /\ \A j \in Keys : PoolTask(j)' = PoolTask(j)
    BY <2>1, <2>2, TaskFrame, CallTypes DEF CarefulInv, TypeInv, TypeOK
  <2> QED BY <2>2, <2>3, <2>5, <2>6, <2>7 DEF StarterTasksInv
<1>8. ASSUME NEW s \in StartCalls, StartMainHttp(s) PROVE StarterTasksInv'
  BY <1>8, CallTypes, StarterTasksFrame, PoolNames
  DEF StartMainHttp, Precommit, CarefulInv, TypeInv, TypeOK, ServerTypeOK, tableVars,
      upsert_service, Goto
<1>9. ASSUME NEW s \in StartCalls, StartCommits(s) PROVE StarterTasksInv'
  BY <1>9, CallTypes, StarterTasksFrame, PoolNames
  DEF StartCommits, Precommit, CarefulInv, TypeInv, TypeOK, ServerTypeOK, tableVars, serverVars,
      Goto
<1>10. ASSUME NEW s \in StartCalls, StartCancelStopAll(s) PROVE StarterTasksInv'
  <2>1. \A t \in StartCalls : ~Precommit(t)'
    BY <1>10, CallTypes
    DEF StartCancelStopAll, Precommit, Cancelling, CarefulInv, StarterInv, TypeInv, TypeOK, Goto
  <2> QED BY <2>1 DEF StarterTasksInv
<1>11. ASSUME NEW s \in StartCalls, StartCancelled(s) PROVE StarterTasksInv'
  BY <1>11, CallTypes, StarterTasksFrame, PoolNames
  DEF StartCancelled, Precommit, CarefulInv, TypeInv, TypeOK, ServerTypeOK, tableVars, serverVars,
      Goto
<1>12. ASSUME NEW s \in StartCalls, StartReady(s) PROVE StarterTasksInv'
  BY <1>12, CallTypes, StarterTasksFrame, PoolNames
  DEF StartReady, Precommit, CarefulInv, TypeInv, TypeOK, ServerTypeOK, tableVars, serverVars, Goto,
      SettledBy, RxMade
<1>13. ASSUME NEW c \in StopCalls, StopFindsStopped(c) PROVE StarterTasksInv'
  BY <1>13, CallTypes, StarterTasksFrame, PoolNames
  DEF StopFindsStopped, Precommit, CarefulInv, TypeInv, TypeOK, ServerTypeOK, tableVars, serverVars,
      Goto, MayBegin
<1>14. ASSUME NEW c \in StopCalls, StopJoins(c) PROVE StarterTasksInv'
  BY <1>14, CallTypes, StarterTasksFrame, PoolNames
  DEF StopJoins, Precommit, CarefulInv, TypeInv, TypeOK, ServerTypeOK, tableVars, serverVars, Goto,
      MayBegin
<1>15. ASSUME NEW c \in StopCalls, StopBegins(c) PROVE StarterTasksInv'
  BY <1>15, CallTypes, StarterTasksFrame, PoolNames
  DEF StopBegins, Precommit, CarefulInv, TypeInv, TypeOK, ServerTypeOK, tableVars, serverVars, Goto,
      MayBegin
<1>16. ASSUME NEW c \in StopCalls, StopStopsAll(c) PROVE StarterTasksInv'
  <2>1. start_notifier = None
    BY <1>16 DEF StopStopsAll, CarefulInv, StopperInv, StartChannelInv, Answered
  <2>2. \A s \in StartCalls : ~Precommit(s)'
    BY <1>16, <2>1, CallTypes
    DEF StopStopsAll, Precommit, CarefulInv, StarterInv, TypeInv, TypeOK, Goto
  <2> QED BY <2>2 DEF StarterTasksInv
<1>17. ASSUME NEW c \in StopCalls, StopFinishes(c) PROVE StarterTasksInv'
  BY <1>17, CallTypes, StarterTasksFrame, PoolNames
  DEF StopFinishes, StopEnds, Precommit, CarefulInv, TypeInv, TypeOK, ServerTypeOK, tableVars,
      serverVars, Goto
<1>18. ASSUME NEW c \in StopCalls, StopReady(c) PROVE StarterTasksInv'
  BY <1>18, CallTypes, StarterTasksFrame, PoolNames
  DEF StopReady, Precommit, CarefulInv, TypeInv, TypeOK, ServerTypeOK, tableVars, serverVars, Goto,
      SettledBy, RxMade
<1>19. ASSUME NEW u \in UpdateCalls, UpdateCalled(u) PROVE StarterTasksInv'
  BY <1>19, CallTypes, StarterTasksFrame, PoolNames
  DEF UpdateCalled, Precommit, CarefulInv, TypeInv, TypeOK, ServerTypeOK, tableVars, serverVars,
      Goto, MayBegin
<1>20. ASSUME NEW u \in UpdateCalls, UpdateRefused(u) PROVE StarterTasksInv'
  BY <1>20, CallTypes, StarterTasksFrame, PoolNames
  DEF UpdateRefused, Precommit, CarefulInv, TypeInv, TypeOK, ServerTypeOK, tableVars, serverVars,
      Goto
<1>21. ASSUME NEW u \in UpdateCalls, UpdateChecked(u) PROVE StarterTasksInv'
  BY <1>21, CallTypes, StarterTasksFrame, PoolNames
  DEF UpdateChecked, UpdateReadsTable, Precommit, CarefulInv, TypeInv, TypeOK, ServerTypeOK,
      tableVars, serverVars, Goto
<1>22. ASSUME NEW u \in UpdateCalls, UpdateRebuildFails(u) PROVE StarterTasksInv'
  BY <1>22, CallTypes, StarterTasksFrame, PoolNames
  DEF UpdateRebuildFails, Precommit, CarefulInv, TypeInv, TypeOK, ServerTypeOK, tableVars,
      serverVars, Goto
<1>23. ASSUME NEW u \in UpdateCalls, UpdateCommits(u) PROVE StarterTasksInv'
  <2>1. \A s \in StartCalls : ~Precommit(s)'
    BY <1>23, CallTypes
    DEF UpdateCommits, ApartInv, InFlight, Settled, Outcomes, Precommit, Goto, CarefulInv, TypeInv,
        TypeOK
  <2> QED BY <2>1 DEF StarterTasksInv
<1>24. ASSUME NEW u \in UpdateCalls, UpdateUpserts(u) PROVE StarterTasksInv'
  <2>1. \A s \in StartCalls : ~Precommit(s)'
    BY <1>24, CallTypes
    DEF UpdateUpserts, ApartInv, InFlight, Settled, Outcomes, Precommit, CarefulInv, TypeInv, TypeOK
  <2> QED BY <2>1 DEF StarterTasksInv
<1>25. ASSUME NEW u \in UpdateCalls, UpdateRemoves(u) PROVE StarterTasksInv'
  <2>1. \A s \in StartCalls : ~Precommit(s)'
    BY <1>25, CallTypes
    DEF UpdateRemoves, ApartInv, InFlight, Settled, Outcomes, Precommit, CarefulInv, TypeInv, TypeOK
  <2> QED BY <2>1 DEF StarterTasksInv
<1>26. ASSUME NEW u \in UpdateCalls, UpdateDone(u) PROVE StarterTasksInv'
  BY <1>26, CallTypes, StarterTasksFrame, PoolNames
  DEF UpdateDone, Precommit, CarefulInv, TypeInv, TypeOK, ServerTypeOK, tableVars, serverVars, Goto
<1>27. ASSUME NEW c \in Callers, SignalStep(c) PROVE StarterTasksInv'
  BY <1>27, CallTypes, StarterTasksFrame, PoolNames
  DEF SignalStep, Precommit, CarefulInv, TypeInv, TypeOK, ServerTypeOK, tableVars, Signal, taskVars
<1>28. ASSUME NEW h \in signalled, TaskStep(h) PROVE StarterTasksInv'
  BY <1>28, CallTypes, StarterTasksFrame, PoolNames
  DEF TaskStep, Precommit, CarefulInv, TypeInv, TypeOK, ServerTypeOK, tableVars, TaskEnds, taskVars
<1>29. CASE UNCHANGED vars
  BY <1>29, CallTypes, StarterTasksFrame, PoolNames
  DEF vars, Precommit, CarefulInv, TypeInv, TypeOK, ServerTypeOK, tableVars, serverVars, taskVars
<1> QED
  BY <1>1, <1>2, <1>3, <1>4, <1>5, <1>6, <1>7, <1>8, <1>9, <1>10, <1>11, <1>12, <1>13, <1>14, <1>15,
     <1>16, <1>17, <1>18, <1>19, <1>20, <1>21, <1>22, <1>23, <1>24, <1>25, <1>26, <1>27, <1>28,
     <1>29
  DEF Next, StartCallMade, StartStep, StopCallMade, StopStep, UpdateStep, AllSettled

\* UpdateTasksInv for a step that changes neither pools nor their services
\* nor what the updates have to do, and does not make the proxy run.
LEMMA UpdateTasksFrame ==
  ASSUME UpdateTasksInv, pools' = pools,
         state' = "Running" =>
           state = "Running" /\ \A k \in Keys : services'[PoolName(k)] = services[PoolName(k)],
         \A u \in UpdateCalls : todo'[u] = todo[u] /\ to_remove'[u] = to_remove[u]
  PROVE  UpdateTasksInv'
<1>1. \A k : PoolTask(k)' = PoolTask(k) /\ PoolName(k)' = PoolName(k)
  BY TaskFrame DEF PoolName
<1>2. \A u \in UpdateCalls :
        /\ \A t \in todo'[u] : \E k \in Keys : pools'[k] # None /\ t = PoolTask(k)'
        /\ \A name \in to_remove'[u] : \E k \in Keys : pools'[k] = None /\ name = PoolName(k)'
  BY <1>1 DEF UpdateTasksInv
<1>3. ASSUME state' = "Running", NEW k \in Keys
      PROVE  \/ Matches(k)'
             \/ \E u \in UpdateCalls :
                  IF pools'[k] = None THEN PoolName(k)' \in to_remove'[u]
                  ELSE PoolTask(k)' \in todo'[u]
  <2>1. state = "Running" /\ Matches(k)' = Matches(k)
    BY <1>3, MatchFrame
  <2> QED BY <1>1, <2>1 DEF UpdateTasksInv
<1> QED BY <1>2, <1>3 DEF UpdateTasksInv

\* Every step keeps an update's health tasks in line with the pools.
LEMMA UpdateTasksStep ==
  ASSUME CarefulInv, LockInv, TodoInv, StarterTasksInv, UpdateTasksInv, [Next]_vars
  PROVE  UpdateTasksInv'
<1>1. ASSUME NEW s \in StartCalls, StartJoins(s) PROVE UpdateTasksInv'
  BY <1>1, CallTypes, UpdateTasksFrame, PoolNames
  DEF StartJoins, CarefulInv, TypeInv, TypeOK, ServerTypeOK, tableVars, lifecycleVars, serverVars
<1>2. ASSUME NEW s \in StartCalls, StartRefused(s) PROVE UpdateTasksInv'
  BY <1>2, CallTypes, UpdateTasksFrame, PoolNames
  DEF StartRefused, CarefulInv, TypeInv, TypeOK, ServerTypeOK, tableVars, lifecycleVars, serverVars
<1>3. ASSUME NEW s \in StartCalls, StartBegins(s) PROVE UpdateTasksInv'
  BY <1>3, CallTypes, UpdateTasksFrame, PoolNames
  DEF StartBegins, CarefulInv, TypeInv, TypeOK, ServerTypeOK, tableVars, lifecycleVars, serverVars
<1>4. ASSUME NEW s \in StartCalls, StartSetup(s) PROVE UpdateTasksInv'
  BY <1>4, CallTypes, UpdateTasksFrame, PoolNames
  DEF StartSetup, CarefulInv, TypeInv, TypeOK, ServerTypeOK, tableVars, lifecycleVars, serverVars
<1>5. ASSUME NEW s \in StartCalls, StartSetupFails(s) PROVE UpdateTasksInv'
  BY <1>5, CallTypes, UpdateTasksFrame, PoolNames
  DEF StartSetupFails, CarefulInv, TypeInv, TypeOK, ServerTypeOK, tableVars, lifecycleVars,
      serverVars
<1>6. ASSUME NEW s \in StartCalls, StartSetupPanics(s) PROVE UpdateTasksInv'
  BY <1>6, CallTypes, UpdateTasksFrame, PoolNames
  DEF StartSetupPanics, CarefulInv, TypeInv, TypeOK, ServerTypeOK, tableVars, lifecycleVars,
      serverVars
<1>7. ASSUME NEW s \in StartCalls, StartLbTask(s) PROVE UpdateTasksInv'
  BY <1>7, CallTypes, UpdateTasksFrame, PoolNames
  DEF StartLbTask, CarefulInv, TypeInv, TypeOK, ServerTypeOK, tableVars, lifecycleVars, StarterInv,
      StopperInv, Precommit, Cancelling, Stopper, upsert_service
<1>8. ASSUME NEW s \in StartCalls, StartMainHttp(s) PROVE UpdateTasksInv'
  BY <1>8, CallTypes, UpdateTasksFrame, PoolNames
  DEF StartMainHttp, CarefulInv, TypeInv, TypeOK, ServerTypeOK, tableVars, lifecycleVars,
      StarterInv, StopperInv, Precommit, Cancelling, Stopper, upsert_service
<1>9. ASSUME NEW s \in StartCalls, StartCommits(s) PROVE UpdateTasksInv'
  <2>1. todo[s] = {} /\ Precommit(s)
    BY <1>9 DEF StartCommits, TodoInv, Precommit
  <2>2. /\ pools' = pools /\ services' = services
        /\ \A u \in UpdateCalls : todo'[u] = todo[u] /\ to_remove'[u] = to_remove[u]
    BY <1>9 DEF StartCommits, tableVars, serverVars
  <2>3. \A k \in Keys : Matches(k)'
    BY <2>1, <2>2, MatchFrame DEF StarterTasksInv
  <2>4. \A k : PoolTask(k)' = PoolTask(k) /\ PoolName(k)' = PoolName(k)
    BY <2>2, TaskFrame DEF PoolName
  <2> QED BY <2>2, <2>3, <2>4 DEF UpdateTasksInv
<1>10. ASSUME NEW s \in StartCalls, StartCancelStopAll(s) PROVE UpdateTasksInv'
  BY <1>10, CallTypes, UpdateTasksFrame, PoolNames
  DEF StartCancelStopAll, CarefulInv, TypeInv, TypeOK, ServerTypeOK, tableVars, lifecycleVars,
      StarterInv, StopperInv, Precommit, Cancelling, Stopper, stop_all
<1>11. ASSUME NEW s \in StartCalls, StartCancelled(s) PROVE UpdateTasksInv'
  BY <1>11, CallTypes, UpdateTasksFrame, PoolNames
  DEF StartCancelled, CarefulInv, TypeInv, TypeOK, ServerTypeOK, tableVars, lifecycleVars,
      serverVars
<1>12. ASSUME NEW s \in StartCalls, StartReady(s) PROVE UpdateTasksInv'
  BY <1>12, CallTypes, UpdateTasksFrame, PoolNames
  DEF StartReady, CarefulInv, TypeInv, TypeOK, ServerTypeOK, tableVars, lifecycleVars, serverVars
<1>13. ASSUME NEW c \in StopCalls, StopFindsStopped(c) PROVE UpdateTasksInv'
  BY <1>13, CallTypes, UpdateTasksFrame, PoolNames
  DEF StopFindsStopped, CarefulInv, TypeInv, TypeOK, ServerTypeOK, tableVars, lifecycleVars,
      serverVars
<1>14. ASSUME NEW c \in StopCalls, StopJoins(c) PROVE UpdateTasksInv'
  BY <1>14, CallTypes, UpdateTasksFrame, PoolNames
  DEF StopJoins, CarefulInv, TypeInv, TypeOK, ServerTypeOK, tableVars, lifecycleVars, serverVars
<1>15. ASSUME NEW c \in StopCalls, StopBegins(c) PROVE UpdateTasksInv'
  BY <1>15, CallTypes, UpdateTasksFrame, PoolNames
  DEF StopBegins, CarefulInv, TypeInv, TypeOK, ServerTypeOK, tableVars, lifecycleVars, serverVars
<1>16. ASSUME NEW c \in StopCalls, StopStopsAll(c) PROVE UpdateTasksInv'
  BY <1>16, CallTypes, UpdateTasksFrame, PoolNames
  DEF StopStopsAll, CarefulInv, TypeInv, TypeOK, ServerTypeOK, tableVars, lifecycleVars, StarterInv,
      StopperInv, Precommit, Cancelling, Stopper, stop_all
<1>17. ASSUME NEW c \in StopCalls, StopFinishes(c) PROVE UpdateTasksInv'
  BY <1>17, CallTypes, UpdateTasksFrame, PoolNames
  DEF StopFinishes, StopEnds, CarefulInv, TypeInv, TypeOK, ServerTypeOK, tableVars, lifecycleVars,
      serverVars
<1>18. ASSUME NEW c \in StopCalls, StopReady(c) PROVE UpdateTasksInv'
  BY <1>18, CallTypes, UpdateTasksFrame, PoolNames
  DEF StopReady, CarefulInv, TypeInv, TypeOK, ServerTypeOK, tableVars, lifecycleVars, serverVars
<1>19. ASSUME NEW u \in UpdateCalls, UpdateCalled(u) PROVE UpdateTasksInv'
  BY <1>19, CallTypes, UpdateTasksFrame, PoolNames
  DEF UpdateCalled, CarefulInv, TypeInv, TypeOK, ServerTypeOK, tableVars, lifecycleVars, serverVars
<1>20. ASSUME NEW u \in UpdateCalls, UpdateRefused(u) PROVE UpdateTasksInv'
  BY <1>20, CallTypes, UpdateTasksFrame, PoolNames
  DEF UpdateRefused, CarefulInv, TypeInv, TypeOK, ServerTypeOK, tableVars, lifecycleVars, serverVars
<1>21. ASSUME NEW u \in UpdateCalls, UpdateChecked(u) PROVE UpdateTasksInv'
  BY <1>21, CallTypes, UpdateTasksFrame, PoolNames
  DEF UpdateChecked, UpdateReadsTable, CarefulInv, TypeInv, TypeOK, ServerTypeOK, tableVars,
      lifecycleVars, serverVars
<1>22. ASSUME NEW u \in UpdateCalls, UpdateRebuildFails(u) PROVE UpdateTasksInv'
  BY <1>22, CallTypes, UpdateTasksFrame, PoolNames
  DEF UpdateRebuildFails, CarefulInv, TypeInv, TypeOK, ServerTypeOK, tableVars, lifecycleVars,
      serverVars
<1>23. ASSUME NEW u \in UpdateCalls, UpdateCommits(u) PROVE UpdateTasksInv'
  <2> DEFINE app == req[u].app
             mine == {app} \X TransportKind
             new(k) == IF k[1] = app THEN RebuiltPool(u, next_upstreams[u], k[2]) ELSE pools[k]
             up == {[name |-> lb_service_name(k[1], k[2]), lb |-> u] :
                     k \in {k \in mine : new(k) # None}}
             gone == {lb_service_name(k[1], k[2]) :
                     k \in {k \in mine : new(k) = None /\ pools[k] # None}}
  <2>1. /\ pools' = [k \in Keys |-> new(k)] /\ services' = services /\ state' = state
        /\ todo' = [todo EXCEPT ![u] = IF state = "Running" THEN up ELSE {}]
        /\ to_remove' = [to_remove EXCEPT ![u] = IF state = "Running" THEN gone ELSE {}]
        /\ pc[u] = "rebuild"
    BY <1>23 DEF UpdateCommits, serverVars, lifecycleVars
  <2>2. mine \subseteq Keys /\ \A k \in Keys : k[1] = app => k \in mine
    BY <2>1 DEF CarefulInv, TypeInv, ReqMade, Keys
  <2>3. \A k \in Keys : k[1] = app /\ new(k) # None => new(k).lb = u
    BY DEF RebuiltPool
  <2> HIDE DEF new, mine
  <2>4. \A v \in UpdateCalls : todo[v] = {} /\ to_remove[v] = {}
    BY <2>1 DEF TodoInv, LockInv
  <2>5. /\ \A v \in UpdateCalls \ {u} : todo'[v] = {} /\ to_remove'[v] = {}
        /\ todo'[u] = IF state = "Running" THEN up ELSE {}
        /\ to_remove'[u] = IF state = "Running" THEN gone ELSE {}
    BY <2>1, <2>4, CallTypes DEF CarefulInv, TypeInv, TypeOK
  <2>6. \A k \in Keys : pools'[k] = new(k)
    BY <2>1
  <2>7. \A t \in up : \E k \in Keys : pools'[k] # None /\ t = PoolTask(k)'
    <3> SUFFICES ASSUME NEW k \in mine, new(k) # None
                 PROVE  pools'[k] # None /\ [name |-> lb_service_name(k[1], k[2]), lb |-> u] = PoolTask(k)'
      BY <2>2
    <3>1. k \in Keys /\ k[1] = app
      BY <2>2 DEF mine
    <3> QED BY <3>1, <2>3, <2>6 DEF PoolTask, PoolName
  <2>8. \A name \in gone : \E k \in Keys : pools'[k] = None /\ name = PoolName(k)'
    BY <2>2, <2>6 DEF PoolName
  <2>9. ASSUME state' = "Running", NEW k \in Keys
        PROVE  \/ Matches(k)'
               \/ IF pools'[k] = None THEN PoolName(k)' \in to_remove'[u] ELSE PoolTask(k)' \in todo'[u]
    <3>1. Matches(k) /\ state = "Running"
      BY <2>1, <2>4, <2>9 DEF UpdateTasksInv
    <3>2. CASE k[1] # app
      <4>1. pools'[k] = pools[k]
        BY <3>2, <2>6 DEF new
      <4> QED BY <3>1, <4>1, <2>1 DEF Matches, PoolName
    <3>3. CASE k[1] = app /\ new(k) # None
      <4>1. PoolTask(k)' = [name |-> lb_service_name(k[1], k[2]), lb |-> u]
        BY <3>3, <2>3, <2>6 DEF PoolTask, PoolName
      <4>2. PoolTask(k)' \in up
        BY <4>1, <3>3, <2>2
      <4> QED BY <4>2, <3>1, <3>3, <2>5, <2>6
    <3>4. CASE k[1] = app /\ new(k) = None /\ pools[k] # None
      <4>1. PoolName(k)' \in gone
        BY <3>4, <2>2 DEF PoolName
      <4> QED BY <4>1, <3>1, <3>4, <2>5, <2>6
    <3>5. CASE k[1] = app /\ new(k) = None /\ pools[k] = None
      BY <3>1, <3>5, <2>1, <2>6 DEF Matches, PoolName
    <3> QED BY <3>2, <3>3, <3>4, <3>5
  <2>10. \A v \in UpdateCalls :
           /\ \A t \in todo'[v] : \E k \in Keys : pools'[k] # None /\ t = PoolTask(k)'
           /\ \A name \in to_remove'[v] : \E k \in Keys : pools'[k] = None /\ name = PoolName(k)'
    BY <2>5, <2>7, <2>8
  <2> QED BY <2>9, <2>10 DEF UpdateTasksInv
<1>24. ASSUME NEW u \in UpdateCalls, UpdateUpserts(u) PROVE UpdateTasksInv'
  <2>1. PICK t \in todo[u] : upsert_service(u, t.name, t.lb) /\ todo' = [todo EXCEPT ![u] = @ \ {t}]
    BY <1>24 DEF UpdateUpserts
  <2>2. pools' = pools /\ to_remove' = to_remove /\ state' = state
    BY <1>24 DEF UpdateUpserts, tableVars, lifecycleVars
  <2>3. PICK k \in Keys : pools[k] # None /\ t = PoolTask(k)
    BY DEF UpdateTasksInv
  <2>4. Matches(k)' /\ \A j \in Keys \ {k} : Matches(j)' = Matches(j)
    BY <2>1, <2>2, <2>3, UpsertMatches, CallTypes DEF CarefulInv
  <2>5. \A j \in Keys \ {k} : PoolTask(j) # t
    BY <2>3, PoolNames, PoolTaskFields
  <2>6. \A v \in UpdateCalls : todo'[v] = IF v = u THEN todo[u] \ {t} ELSE todo[v]
    BY <2>1, CallTypes DEF CarefulInv, TypeInv, TypeOK
  <2>7. \A j : PoolTask(j)' = PoolTask(j) /\ PoolName(j)' = PoolName(j)
    BY <2>2, TaskFrame DEF PoolName
  <2>8. \A v \in UpdateCalls :
          /\ \A x \in todo'[v] : \E j \in Keys : pools'[j] # None /\ x = PoolTask(j)'
          /\ \A name \in to_remove'[v] : \E j \in Keys : pools'[j] = None /\ name = PoolName(j)'
    BY <2>2, <2>6, <2>7 DEF UpdateTasksInv
  <2>9. ASSUME state' = "Running", NEW j \in Keys
        PROVE  \/ Matches(j)'
               \/ \E v \in UpdateCalls :
                    IF pools'[j] = None THEN PoolName(j)' \in to_remove'[v]
                    ELSE PoolTask(j)' \in todo'[v]
    BY <2>2, <2>4, <2>5, <2>6, <2>7, <2>9 DEF UpdateTasksInv
  <2> QED BY <2>8, <2>9 DEF UpdateTasksInv
<1>25. ASSUME NEW u \in UpdateCalls, UpdateRemoves(u) PROVE UpdateTasksInv'
  <2>1. PICK name \in to_remove[u] :
          remove_service(u, name) /\ to_remove' = [to_remove EXCEPT ![u] = @ \ {name}]
    BY <1>25 DEF UpdateRemoves
  <2>2. pools' = pools /\ todo' = todo /\ state' = state
    BY <1>25 DEF UpdateRemoves, tableVars, lifecycleVars
  <2>3. PICK k \in Keys : pools[k] = None /\ name = PoolName(k)
    BY DEF UpdateTasksInv
  <2>4. services' = [services EXCEPT ![PoolName(k)] = None]
    BY <2>1, <2>3 DEF remove_service
  <2>5. Matches(k)' /\ \A j \in Keys \ {k} : Matches(j)' = Matches(j)
    <3>1. Matches(k)'
      BY <2>2, <2>3, <2>4, PoolNames DEF Matches, CarefulInv, TypeInv, TypeOK, ServerTypeOK,
         PoolName
    <3>2. ASSUME NEW j \in Keys \ {k} PROVE Matches(j)' = Matches(j)
      BY <2>2, <2>4, PoolNames DEF Matches, CarefulInv, TypeInv, TypeOK, ServerTypeOK, PoolName
    <3> QED BY <3>1, <3>2
  <2>6. \A v \in UpdateCalls : to_remove'[v] = IF v = u THEN to_remove[u] \ {name} ELSE to_remove[v]
    BY <2>1 DEF CarefulInv, TypeInv, TypeOK
  <2>7. \A j : PoolTask(j)' = PoolTask(j) /\ PoolName(j)' = PoolName(j)
    BY <2>2, TaskFrame DEF PoolName
  <2>8. \A v \in UpdateCalls :
          /\ \A x \in todo'[v] : \E j \in Keys : pools'[j] # None /\ x = PoolTask(j)'
          /\ \A n \in to_remove'[v] : \E j \in Keys : pools'[j] = None /\ n = PoolName(j)'
    BY <2>2, <2>6, <2>7 DEF UpdateTasksInv
  <2>9. ASSUME state' = "Running", NEW j \in Keys
        PROVE  \/ Matches(j)'
               \/ \E v \in UpdateCalls :
                    IF pools'[j] = None THEN PoolName(j)' \in to_remove'[v]
                    ELSE PoolTask(j)' \in todo'[v]
    BY <2>2, <2>3, <2>5, <2>6, <2>7, <2>9, PoolNames DEF UpdateTasksInv
  <2> QED BY <2>8, <2>9 DEF UpdateTasksInv
<1>26. ASSUME NEW u \in UpdateCalls, UpdateDone(u) PROVE UpdateTasksInv'
  BY <1>26, CallTypes, UpdateTasksFrame, PoolNames
  DEF UpdateDone, CarefulInv, TypeInv, TypeOK, ServerTypeOK, tableVars, lifecycleVars, serverVars
<1>27. ASSUME NEW c \in Callers, SignalStep(c) PROVE UpdateTasksInv'
  BY <1>27, CallTypes, UpdateTasksFrame, PoolNames
  DEF SignalStep, CarefulInv, TypeInv, TypeOK, ServerTypeOK, tableVars, lifecycleVars, Signal,
      taskVars
<1>28. ASSUME NEW h \in signalled, TaskStep(h) PROVE UpdateTasksInv'
  BY <1>28, CallTypes, UpdateTasksFrame, PoolNames
  DEF TaskStep, CarefulInv, TypeInv, TypeOK, ServerTypeOK, tableVars, lifecycleVars, TaskEnds,
      taskVars
<1>29. CASE UNCHANGED vars
  BY <1>29, CallTypes, UpdateTasksFrame, PoolNames
  DEF vars, CarefulInv, TypeInv, TypeOK, ServerTypeOK, tableVars, lifecycleVars, serverVars,
      taskVars
<1> QED
  BY <1>1, <1>2, <1>3, <1>4, <1>5, <1>6, <1>7, <1>8, <1>9, <1>10, <1>11, <1>12, <1>13, <1>14, <1>15,
     <1>16, <1>17, <1>18, <1>19, <1>20, <1>21, <1>22, <1>23, <1>24, <1>25, <1>26, <1>27, <1>28,
     <1>29
  DEF Next, StartCallMade, StartStep, StopCallMade, StopStep, UpdateStep, AllSettled

-----------------------------------------------------------------------------
\* The invariant of a client that keeps both disciplines holds throughout.
LEMMA HealthInvariant ==
  ASSUME AwaitBeforeRestart, UpdatesAwaitLifecycle
  PROVE  Spec => []HealthInv
<1>1. Init => HealthInv
  <2> SUFFICES ASSUME Init PROVE HealthInv
    OBVIOUS
  <2>1. CarefulInv
    BY InitCareful
  <2>2. LockInv
    BY CallTypes DEF Init, LockInv
  <2>3. RouterInv
    BY DEF Init, RouterInv, PoolServes, build_router_config, Keys
  <2>4. ApartInv /\ TodoInv /\ EmptyInv /\ StarterTasksInv /\ UpdateTasksInv
    BY CallTypes
    DEF Init, ServerInit, ApartInv, InFlight, TodoInv, EmptyInv, StarterTasksInv, Precommit,
        UpdateTasksInv
  <2>5. MainLbInv
    BY MainHttpType DEF Init, ServerInit, MainLbInv
  <2> QED BY <2>1, <2>2, <2>3, <2>4, <2>5 DEF HealthInv
<1>2. HealthInv /\ [Next]_vars => HealthInv'
  BY CarefulStep, LockStep, RouterStep, ApartStep, TodoStep, EmptyStep, StarterTasksStep,
     UpdateTasksStep, MainLbStep
  DEF HealthInv, CarefulInv
<1> QED BY <1>1, <1>2, PTL DEF Spec

\* When all calls have settled, the running tasks are the registered ones.
LEMMA QuietLive ==
  ASSUME TypeInv, HeldInv, \A c \in Callers : ~InFlight(c)
  PROVE  /\ \A name \in Names : services[name] # None =>
              services[name] \in live /\ services[name].name = name
         /\ \A h \in live : h.name \in Names /\ h # None /\ services[h.name] = h
<1>1. \A name \in Names : services[name] # None => services[name] \in live /\ services[name].name = name
  BY DEF TypeInv, ServerInv, RegisteredIsServing, Registered, NamesMatch
<1>2. ASSUME NEW h \in live PROVE h.name \in Names /\ h # None /\ services[h.name] = h
  <2>1. \A c \in Callers : held[c] = {}
    BY DEF HeldInv, InFlight, Settled, Outcomes
  <2>2. h.name \in Names /\ h # None
    BY NoneAssumption DEF TypeInv, TypeOK, ServerTypeOK, ServiceHandle
  <2> QED BY <2>1, <2>2 DEF TypeInv, ServerInv, NoHandleLost
<1> QED BY <1>1, <1>2

\* Nothing runs in a stopped proxy whose calls have settled: neither the
\* listener nor a health task survives, however start() and stop() raced.
THEOREM StoppedIsSilent ==
  ASSUME AwaitBeforeRestart, UpdatesAwaitLifecycle
  PROVE  Spec => []StoppedMeansSilent
<1>1. HealthInv => StoppedMeansSilent
  <2> SUFFICES ASSUME HealthInv, state = "Stopped", \A c \in Callers : ~InFlight(c)
               PROVE  live = {}
    BY DEF StoppedMeansSilent
  <2>1. \A c \in Callers : pc[c] \notin {"lbs", "commit", "cancel", "wait_start"}
    BY DEF InFlight, Settled, Outcomes
  <2>2. \A name \in Names : services[name] = None
    BY <2>1, CallTypes DEF HealthInv, EmptyInv
  <2> QED BY <2>2, QuietLive DEF HealthInv, CarefulInv
<1> QED BY <1>1, HealthInvariant, PTL

\* In a running proxy whose calls have settled, exactly the listener and one
\* health task for the current balancer of every pool run.
THEOREM EveryPoolIsChecked ==
  ASSUME AwaitBeforeRestart, UpdatesAwaitLifecycle
  PROVE  Spec => []HealthLoopForEveryPool
<1>1. HealthInv => HealthLoopForEveryPool
  <2> SUFFICES ASSUME HealthInv, state = "Running", \A c \in Callers : ~InFlight(c)
               PROVE  {<<h.name, h.lb>> : h \in live} =
                        {<<lb_service_name(k[1], k[2]), router_config[k].lb>> :
                           k \in {k \in Keys : router_config[k] # None}} \cup {<<MainHttp, None>>}
    BY DEF HealthLoopForEveryPool
  <2> DEFINE running == {<<h.name, h.lb>> : h \in live}
             wanted == {<<lb_service_name(k[1], k[2]), router_config[k].lb>> :
                          k \in {k \in Keys : router_config[k] # None}} \cup {<<MainHttp, None>>}
  <2>1. \A u \in UpdateCalls : todo[u] = {} /\ to_remove[u] = {}
    BY CallTypes DEF HealthInv, TodoInv, InFlight, Settled, Outcomes
  <2>2. router_config = pools /\ \A k \in Keys : Matches(k)
    BY <2>1 DEF HealthInv, RouterInv, UpdateTasksInv
  <2>3. services[MainHttp] # None /\ services[MainHttp].lb = None
    BY DEF HealthInv, CarefulInv, MainInv, MainLbInv
  <2>4. /\ \A name \in Names : services[name] # None =>
             services[name] \in live /\ services[name].name = name
        /\ \A h \in live : h.name \in Names /\ h # None /\ services[h.name] = h
    BY QuietLive DEF HealthInv, CarefulInv
  <2>5. ASSUME NEW h \in live PROVE <<h.name, h.lb>> \in wanted
    <3>1. CASE h.name = MainHttp
      BY <2>3, <2>4, <3>1
    <3>2. CASE h.name # MainHttp
      <4>1. PICK k \in Keys : h.name = PoolName(k)
        BY <2>4, <3>2, RegistryAssumption DEF ServiceNames, PoolName
      <4>2. pools[k] # None /\ h.lb = pools[k].lb
        BY <4>1, <2>2, <2>4 DEF Matches
      <4> QED BY <4>1, <4>2, <2>2 DEF PoolName
    <3> QED BY <3>1, <3>2
  <2>6. ASSUME NEW k \in Keys, pools[k] # None PROVE <<PoolName(k), pools[k].lb>> \in running
    <3> DEFINE h == services[PoolName(k)]
    <3>1. h # None /\ h.lb = pools[k].lb
      BY <2>2, <2>6 DEF Matches
    <3>2. h \in live /\ h.name = PoolName(k)
      BY <3>1, <2>4, PoolNames
    <3> QED BY <3>1, <3>2
  <2>7. <<MainHttp, None>> \in running
    <3> DEFINE h == services[MainHttp]
    <3>1. h \in live /\ h.name = MainHttp /\ h.lb = None
      BY <2>3, <2>4, MainHttpType
    <3> QED BY <3>1
  <2>8. running \subseteq wanted
    BY <2>5
  <2>9. wanted \subseteq running
    BY <2>2, <2>6, <2>7 DEF PoolName
  <2> QED BY <2>8, <2>9
<1> QED BY <1>1, HealthInvariant, PTL
=============================================================================
