-------------------------- MODULE Lifecycle_proofs --------------------------
(***************************************************************************)
(* What start() and stop() guarantee to a client that makes no start()     *)
(* before its earlier start() and stop() promises have settled             *)
(* (AwaitBeforeRestart), for any number of calls and any interleaving with *)
(* upstream updates.                                                       *)
(***************************************************************************)
EXTENDS Proxy_proofs

\* A start before its commit, a start that lost to a stop, and the stop()
\* call that stops the proxy.
Precommit(s) == pc[s] \in {"setup", "lbs", "commit"}
Cancelling(s) == pc[s] \in {"cancel", "cancel_drain"}
Stopper(c) == pc[c] \in {"wait_start", "drain"}

\* At most one start is at work, and the state says how far it can be.
StarterInv ==
  /\ \A s, t \in StartCalls :
       (Precommit(s) \/ Cancelling(s)) /\ (Precommit(t) \/ Cancelling(t)) => s = t
  /\ \A s \in StartCalls :
       /\ Precommit(s) => state \in {"Starting", "Stopping"} /\ start_notifier = s
       /\ Cancelling(s) => state \in {"Stopping", "Stopped"}

\* A stop at work: it waits on the stored start channel if there is one, and
\* once it stops the services no start before its commit is left.
StopperInv ==
  \A c \in StopCalls :
    /\ Stopper(c) => state \in {"Stopping", "Stopped"}
    /\ pc[c] = "wait_start" /\ start_notifier # None => rx[c] = start_notifier
    /\ pc[c] = "drain" => start_notifier = None

\* A start channel is unanswered exactly while its sender is stored.
StartChannelInv ==
  /\ start_notifier # None => status[start_notifier] = "Pending"
  /\ \A s \in StartCalls :
       /\ pc[s] = "idle" => status[s] = "Pending" /\ start_notifier # s
       /\ pc[s] = "wait_ready" /\ status[rx[s]] = "Pending" => start_notifier = rx[s]
  /\ StartWaitersServed

\* The listener's task is registered from the moment a start registers it
\* until the stop or the cancelled start takes it out.
MainInv ==
  /\ \A s \in StartCalls :
       pc[s] = "commit" => services[MainHttp] # None /\ services[MainHttp].by = s
  /\ state = "Running" =>
       /\ listen_address # None
       /\ services[MainHttp] # None
       /\ services[MainHttp].by = listen_address
  /\ services[MainHttp] # None =>
       \/ state = "Running"
       \/ \E s \in StartCalls : pc[s] \in {"commit", "cancel"}
       \/ \E c \in StopCalls : pc[c] = "wait_start"

\* Health tasks and upstream updates never touch the listener's task.
HealthNamesInv ==
  /\ \A c \in Callers : \A t \in todo[c] : t.name # MainHttp
  /\ \A u \in UpdateCalls : MainHttp \notin to_remove[u]
  /\ \A u \in UpdateCalls : \A h \in held[u] : h.name # MainHttp

\* The listener's task is unique, and there is none while a start sets up its
\* socket.
OneMainInv ==
  /\ \A g, h \in live : g.name = MainHttp /\ h.name = MainHttp => g = h
  /\ \A s \in StartCalls :
       pc[s] \in {"setup", "lbs"} => \A h \in live : h.name # MainHttp

\* The inductive invariant of a careful client's runs.
CarefulInv ==
  /\ TypeInv /\ HeldInv /\ HealthNamesInv
  /\ StarterInv /\ StopperInv /\ StartChannelInv /\ MainInv /\ OneMainInv

-----------------------------------------------------------------------------
\* Every step keeps health tasks apart from the listener's task.
LEMMA HealthNamesStep ==
  ASSUME TypeInv, HealthNamesInv, [Next]_vars
  PROVE  HealthNamesInv'
<1>1. ASSUME NEW s \in StartCalls, StartJoins(s) PROVE HealthNamesInv'
  BY <1>1, CallTypes
  DEF StartJoins, HealthNamesInv, TypeInv, TypeOK, ServerTypeOK, HealthTask, serverVars, taskVars
<1>2. ASSUME NEW s \in StartCalls, StartRefused(s) PROVE HealthNamesInv'
  BY <1>2, CallTypes
  DEF StartRefused, HealthNamesInv, TypeInv, TypeOK, ServerTypeOK, HealthTask, serverVars, taskVars
<1>3. ASSUME NEW s \in StartCalls, StartBegins(s) PROVE HealthNamesInv'
  <2>1. \A t \in initial_lb_tasks : t.name # MainHttp
    BY ServiceNameType DEF initial_lb_tasks
  <2> QED BY <2>1, <1>3, CallTypes DEF StartBegins, HealthNamesInv, TypeInv, TypeOK, serverVars
<1>4. ASSUME NEW s \in StartCalls, StartSetup(s) PROVE HealthNamesInv'
  BY <1>4, CallTypes
  DEF StartSetup, HealthNamesInv, TypeInv, TypeOK, ServerTypeOK, HealthTask, serverVars, taskVars
<1>5. ASSUME NEW s \in StartCalls, StartSetupFails(s) PROVE HealthNamesInv'
  BY <1>5, CallTypes
  DEF StartSetupFails, HealthNamesInv, TypeInv, TypeOK, ServerTypeOK, HealthTask, serverVars,
      taskVars
<1>6. ASSUME NEW s \in StartCalls, StartSetupPanics(s) PROVE HealthNamesInv'
  BY <1>6, CallTypes
  DEF StartSetupPanics, HealthNamesInv, TypeInv, TypeOK, ServerTypeOK, HealthTask, serverVars,
      taskVars
<1>7. ASSUME NEW s \in StartCalls, StartLbTask(s) PROVE HealthNamesInv'
  BY <1>7, CallTypes
  DEF StartLbTask, HealthNamesInv, TypeInv, TypeOK, ServerTypeOK, HealthTask, NamesMatch, ServerInv,
      Registered, Returned, upsert_service, serverVars, taskVars
<1>8. ASSUME NEW s \in StartCalls, StartMainHttp(s) PROVE HealthNamesInv'
  BY <1>8, CallTypes
  DEF StartMainHttp, HealthNamesInv, TypeInv, TypeOK, ServerTypeOK, HealthTask, NamesMatch,
      ServerInv, Registered, Returned, upsert_service, serverVars, taskVars
<1>9. ASSUME NEW s \in StartCalls, StartCommits(s) PROVE HealthNamesInv'
  BY <1>9, CallTypes
  DEF StartCommits, HealthNamesInv, TypeInv, TypeOK, ServerTypeOK, HealthTask, serverVars, taskVars
<1>10. ASSUME NEW s \in StartCalls, StartCancelStopAll(s) PROVE HealthNamesInv'
  BY <1>10, CallTypes
  DEF StartCancelStopAll, HealthNamesInv, TypeInv, TypeOK, ServerTypeOK, HealthTask, NamesMatch,
      ServerInv, Registered, Returned, stop_all, serverVars, taskVars
<1>11. ASSUME NEW s \in StartCalls, StartCancelled(s) PROVE HealthNamesInv'
  BY <1>11, CallTypes
  DEF StartCancelled, HealthNamesInv, TypeInv, TypeOK, ServerTypeOK, HealthTask, serverVars,
      taskVars
<1>12. ASSUME NEW s \in StartCalls, StartReady(s) PROVE HealthNamesInv'
  BY <1>12, CallTypes
  DEF StartReady, HealthNamesInv, TypeInv, TypeOK, ServerTypeOK, HealthTask, serverVars, taskVars
<1>13. ASSUME NEW c \in StopCalls, StopFindsStopped(c) PROVE HealthNamesInv'
  BY <1>13, CallTypes
  DEF StopFindsStopped, HealthNamesInv, TypeInv, TypeOK, ServerTypeOK, HealthTask, serverVars,
      taskVars
<1>14. ASSUME NEW c \in StopCalls, StopJoins(c) PROVE HealthNamesInv'
  BY <1>14, CallTypes
  DEF StopJoins, HealthNamesInv, TypeInv, TypeOK, ServerTypeOK, HealthTask, serverVars, taskVars
<1>15. ASSUME NEW c \in StopCalls, StopBegins(c) PROVE HealthNamesInv'
  BY <1>15, CallTypes
  DEF StopBegins, HealthNamesInv, TypeInv, TypeOK, ServerTypeOK, HealthTask, serverVars, taskVars
<1>16. ASSUME NEW c \in StopCalls, StopStopsAll(c) PROVE HealthNamesInv'
  BY <1>16, CallTypes
  DEF StopStopsAll, HealthNamesInv, TypeInv, TypeOK, ServerTypeOK, HealthTask, NamesMatch,
      ServerInv, Registered, Returned, stop_all, serverVars, taskVars
<1>17. ASSUME NEW c \in StopCalls, StopFinishes(c) PROVE HealthNamesInv'
  BY <1>17, CallTypes
  DEF StopFinishes, StopEnds, HealthNamesInv, TypeInv, TypeOK, ServerTypeOK, HealthTask, serverVars,
      taskVars
<1>18. ASSUME NEW c \in StopCalls, StopReady(c) PROVE HealthNamesInv'
  BY <1>18, CallTypes
  DEF StopReady, HealthNamesInv, TypeInv, TypeOK, ServerTypeOK, HealthTask, serverVars, taskVars
<1>19. ASSUME NEW u \in UpdateCalls, UpdateCalled(u) PROVE HealthNamesInv'
  BY <1>19, CallTypes
  DEF UpdateCalled, HealthNamesInv, TypeInv, TypeOK, ServerTypeOK, HealthTask, serverVars, taskVars
<1>20. ASSUME NEW u \in UpdateCalls, UpdateRefused(u) PROVE HealthNamesInv'
  BY <1>20, CallTypes
  DEF UpdateRefused, HealthNamesInv, TypeInv, TypeOK, ServerTypeOK, HealthTask, serverVars, taskVars
<1>21. ASSUME NEW u \in UpdateCalls, UpdateChecked(u) PROVE HealthNamesInv'
  BY <1>21, CallTypes
  DEF UpdateChecked, UpdateReadsTable, HealthNamesInv, TypeInv, TypeOK, ServerTypeOK, HealthTask,
      serverVars, taskVars
<1>22. ASSUME NEW u \in UpdateCalls, UpdateRebuildFails(u) PROVE HealthNamesInv'
  BY <1>22, CallTypes
  DEF UpdateRebuildFails, HealthNamesInv, TypeInv, TypeOK, ServerTypeOK, HealthTask, serverVars,
      taskVars
<1>23. ASSUME NEW u \in UpdateCalls, UpdateCommits(u) PROVE HealthNamesInv'
  <2> DEFINE app == req[u].app
             mine == {app} \X TransportKind
  <2>1. mine \subseteq Keys
    BY <1>23 DEF UpdateCommits, TypeInv, ReqMade, Keys
  <2>2. (\A t \in todo'[u] : t.name # MainHttp) /\ MainHttp \notin to_remove'[u]
    BY <2>1, <1>23, CallTypes, ServiceNameType DEF UpdateCommits, TypeInv, TypeOK
  <2>3. /\ \A c \in Callers \ {u} : todo'[c] = todo[c]
        /\ \A v \in UpdateCalls \ {u} : to_remove'[v] = to_remove[v]
        /\ held' = held
    BY <1>23, CallTypes DEF UpdateCommits, TypeInv, TypeOK, serverVars
  <2> QED BY <2>2, <2>3 DEF HealthNamesInv
<1>24. ASSUME NEW u \in UpdateCalls, UpdateUpserts(u) PROVE HealthNamesInv'
  BY <1>24, CallTypes
  DEF UpdateUpserts, HealthNamesInv, TypeInv, TypeOK, ServerTypeOK, HealthTask, NamesMatch,
      ServerInv, Registered, Returned, upsert_service, serverVars, taskVars
<1>25. ASSUME NEW u \in UpdateCalls, UpdateRemoves(u) PROVE HealthNamesInv'
  BY <1>25, CallTypes
  DEF UpdateRemoves, HealthNamesInv, TypeInv, TypeOK, ServerTypeOK, HealthTask, NamesMatch,
      ServerInv, Registered, Returned, remove_service, serverVars, taskVars
<1>26. ASSUME NEW u \in UpdateCalls, UpdateDone(u) PROVE HealthNamesInv'
  BY <1>26, CallTypes
  DEF UpdateDone, HealthNamesInv, TypeInv, TypeOK, ServerTypeOK, HealthTask, serverVars, taskVars
<1>27. ASSUME NEW c \in Callers, SignalStep(c) PROVE HealthNamesInv'
  BY <1>27, CallTypes
  DEF SignalStep, HealthNamesInv, TypeInv, TypeOK, ServerTypeOK, HealthTask, NamesMatch, ServerInv,
      Registered, Returned, Signal, serverVars, taskVars
<1>28. ASSUME NEW h \in signalled, TaskStep(h) PROVE HealthNamesInv'
  BY <1>28, CallTypes
  DEF TaskStep, HealthNamesInv, TypeInv, TypeOK, ServerTypeOK, HealthTask, NamesMatch, ServerInv,
      Registered, Returned, TaskEnds, serverVars, taskVars
<1>29. CASE UNCHANGED vars
  BY <1>29, CallTypes
  DEF vars, HealthNamesInv, TypeInv, TypeOK, ServerTypeOK, HealthTask, serverVars, taskVars
<1> QED
  BY <1>1, <1>2, <1>3, <1>4, <1>5, <1>6, <1>7, <1>8, <1>9, <1>10, <1>11, <1>12, <1>13, <1>14, <1>15,
     <1>16, <1>17, <1>18, <1>19, <1>20, <1>21, <1>22, <1>23, <1>24, <1>25, <1>26, <1>27, <1>28,
     <1>29
  DEF Next, StartCallMade, StartStep, StopCallMade, StopStep, UpdateStep, AllSettled

\* Every step keeps at most one start at work.
LEMMA StarterStep ==
  ASSUME AwaitBeforeRestart, TypeInv, StarterInv, StopperInv, [Next]_vars
  PROVE  StarterInv'
<1>1. ASSUME NEW s \in StartCalls, StartJoins(s) PROVE StarterInv'
  BY <1>1, CallTypes
  DEF StartJoins, StarterInv, StopperInv, Precommit, Cancelling, Stopper, RxMade, TypeInv, TypeOK,
      Goto, MayBegin, lifecycleVars, taskVars
<1>2. ASSUME NEW s \in StartCalls, StartRefused(s) PROVE StarterInv'
  BY <1>2, CallTypes
  DEF StartRefused, StarterInv, StopperInv, Precommit, Cancelling, Stopper, RxMade, TypeInv, TypeOK,
      Goto, MayBegin, lifecycleVars, taskVars
<1>3. ASSUME NEW s \in StartCalls, StartBegins(s) PROVE StarterInv'
  BY <1>3, CallTypes
  DEF StartBegins, StarterInv, StopperInv, Precommit, Cancelling, Stopper, RxMade, TypeInv, TypeOK,
      Goto, MayBegin, InFlight, Settled, Outcomes, lifecycleVars, taskVars
<1>4. ASSUME NEW s \in StartCalls, StartSetup(s) PROVE StarterInv'
  BY <1>4, CallTypes
  DEF StartSetup, StarterInv, StopperInv, Precommit, Cancelling, Stopper, RxMade, TypeInv, TypeOK,
      Goto, lifecycleVars, taskVars
<1>5. ASSUME NEW s \in StartCalls, StartSetupFails(s) PROVE StarterInv'
  BY <1>5, CallTypes
  DEF StartSetupFails, StarterInv, StopperInv, Precommit, Cancelling, Stopper, RxMade, TypeInv,
      TypeOK,
      Goto, TakeAndSend, lifecycleVars, taskVars
<1>6. ASSUME NEW s \in StartCalls, StartSetupPanics(s) PROVE StarterInv'
  BY <1>6, CallTypes
  DEF StartSetupPanics, StarterInv, StopperInv, Precommit, Cancelling, Stopper, RxMade, TypeInv,
      TypeOK,
      Goto, lifecycleVars, taskVars
<1>7. ASSUME NEW s \in StartCalls, StartLbTask(s) PROVE StarterInv'
  BY <1>7, CallTypes
  DEF StartLbTask, StarterInv, StopperInv, Precommit, Cancelling, Stopper, RxMade, TypeInv, TypeOK,
      Goto, lifecycleVars, taskVars
<1>8. ASSUME NEW s \in StartCalls, StartMainHttp(s) PROVE StarterInv'
  BY <1>8, CallTypes
  DEF StartMainHttp, StarterInv, StopperInv, Precommit, Cancelling, Stopper, RxMade, TypeInv,
      TypeOK,
      Goto, lifecycleVars, taskVars
<1>9. ASSUME NEW s \in StartCalls, StartCommits(s) PROVE StarterInv'
  BY <1>9, CallTypes
  DEF StartCommits, StarterInv, StopperInv, Precommit, Cancelling, Stopper, RxMade, TypeInv, TypeOK,
      Goto, TakeAndSend, lifecycleVars, taskVars
<1>10. ASSUME NEW s \in StartCalls, StartCancelStopAll(s) PROVE StarterInv'
  BY <1>10, CallTypes
  DEF StartCancelStopAll, StarterInv, StopperInv, Precommit, Cancelling, Stopper, RxMade, TypeInv,
      TypeOK,
      Goto, lifecycleVars, taskVars
<1>11. ASSUME NEW s \in StartCalls, StartCancelled(s) PROVE StarterInv'
  BY <1>11, CallTypes
  DEF StartCancelled, StarterInv, StopperInv, Precommit, Cancelling, Stopper, RxMade, TypeInv,
      TypeOK,
      Goto, lifecycleVars, taskVars
<1>12. ASSUME NEW s \in StartCalls, StartReady(s) PROVE StarterInv'
  BY <1>12, CallTypes
  DEF StartReady, StarterInv, StopperInv, Precommit, Cancelling, Stopper, RxMade, TypeInv, TypeOK,
      Goto, SettledBy, Answered, lifecycleVars, taskVars
<1>13. ASSUME NEW c \in StopCalls, StopFindsStopped(c) PROVE StarterInv'
  BY <1>13, CallTypes
  DEF StopFindsStopped, StarterInv, StopperInv, Precommit, Cancelling, Stopper, RxMade, TypeInv,
      TypeOK,
      Goto, MayBegin, lifecycleVars, taskVars
<1>14. ASSUME NEW c \in StopCalls, StopJoins(c) PROVE StarterInv'
  BY <1>14, CallTypes
  DEF StopJoins, StarterInv, StopperInv, Precommit, Cancelling, Stopper, RxMade, TypeInv, TypeOK,
      Goto, MayBegin, lifecycleVars, taskVars
<1>15. ASSUME NEW c \in StopCalls, StopBegins(c) PROVE StarterInv'
  BY <1>15, CallTypes
  DEF StopBegins, StarterInv, StopperInv, Precommit, Cancelling, Stopper, RxMade, TypeInv, TypeOK,
      Goto, MayBegin, lifecycleVars, taskVars
<1>16. ASSUME NEW c \in StopCalls, StopStopsAll(c) PROVE StarterInv'
  BY <1>16, CallTypes
  DEF StopStopsAll, StarterInv, StopperInv, Precommit, Cancelling, Stopper, RxMade, TypeInv, TypeOK,
      Goto, lifecycleVars, taskVars
<1>17. ASSUME NEW c \in StopCalls, StopFinishes(c) PROVE StarterInv'
  BY <1>17, CallTypes
  DEF StopFinishes, StopEnds, StarterInv, StopperInv, Precommit, Cancelling, Stopper, RxMade,
      TypeInv, TypeOK,
      Goto, TakeAndSend, lifecycleVars, taskVars
<1>18. ASSUME NEW c \in StopCalls, StopReady(c) PROVE StarterInv'
  BY <1>18, CallTypes
  DEF StopReady, StarterInv, StopperInv, Precommit, Cancelling, Stopper, RxMade, TypeInv, TypeOK,
      Goto, SettledBy, Answered, lifecycleVars, taskVars
<1>19. ASSUME UNCHANGED lifecycleVars, \A c \in LifecycleCalls : pc'[c] = pc[c]
      PROVE  StarterInv'
  BY <1>19, CallTypes
  DEF StarterInv, StopperInv, Precommit, Cancelling, Stopper, RxMade, TypeInv, TypeOK,
      Goto, lifecycleVars, taskVars
<1> QED
  BY <1>1, <1>2, <1>3, <1>4, <1>5, <1>6, <1>7, <1>8, <1>9, <1>10, <1>11, <1>12, <1>13, <1>14, <1>15,
     <1>16, <1>17, <1>18, <1>19, UpdateFrame, RegistryFrame
  DEF Next, StartCallMade, StartStep, StopCallMade, StopStep, AllSettled, vars, lifecycleVars,
      taskVars

\* Every step keeps stops in order behind the start they wait for.
LEMMA StopperStep ==
  ASSUME AwaitBeforeRestart, TypeInv, StarterInv, StopperInv, StartChannelInv, [Next]_vars
  PROVE  StopperInv'
<1>1. ASSUME NEW s \in StartCalls, StartJoins(s) PROVE StopperInv'
  BY <1>1, CallTypes
  DEF StartJoins, StarterInv, StopperInv, Precommit, Cancelling, Stopper, RxMade, TypeInv, TypeOK,
      Goto, MayBegin, lifecycleVars, taskVars
<1>2. ASSUME NEW s \in StartCalls, StartRefused(s) PROVE StopperInv'
  BY <1>2, CallTypes
  DEF StartRefused, StarterInv, StopperInv, Precommit, Cancelling, Stopper, RxMade, TypeInv, TypeOK,
      Goto, MayBegin, lifecycleVars, taskVars
<1>3. ASSUME NEW s \in StartCalls, StartBegins(s) PROVE StopperInv'
  BY <1>3, CallTypes
  DEF StartBegins, StarterInv, StopperInv, Precommit, Cancelling, Stopper, RxMade, TypeInv, TypeOK,
      Goto, MayBegin, InFlight, Settled, Outcomes, lifecycleVars, taskVars
<1>4. ASSUME NEW s \in StartCalls, StartSetup(s) PROVE StopperInv'
  BY <1>4, CallTypes
  DEF StartSetup, StarterInv, StopperInv, Precommit, Cancelling, Stopper, RxMade, TypeInv, TypeOK,
      Goto, lifecycleVars, taskVars
<1>5. ASSUME NEW s \in StartCalls, StartSetupFails(s) PROVE StopperInv'
  BY <1>5, CallTypes
  DEF StartSetupFails, StarterInv, StopperInv, Precommit, Cancelling, Stopper, RxMade, TypeInv,
      TypeOK,
      Goto, TakeAndSend, lifecycleVars, taskVars
<1>6. ASSUME NEW s \in StartCalls, StartSetupPanics(s) PROVE StopperInv'
  BY <1>6, CallTypes
  DEF StartSetupPanics, StarterInv, StopperInv, Precommit, Cancelling, Stopper, RxMade, TypeInv,
      TypeOK,
      Goto, lifecycleVars, taskVars
<1>7. ASSUME NEW s \in StartCalls, StartLbTask(s) PROVE StopperInv'
  BY <1>7, CallTypes
  DEF StartLbTask, StarterInv, StopperInv, Precommit, Cancelling, Stopper, RxMade, TypeInv, TypeOK,
      Goto, lifecycleVars, taskVars
<1>8. ASSUME NEW s \in StartCalls, StartMainHttp(s) PROVE StopperInv'
  BY <1>8, CallTypes
  DEF StartMainHttp, StarterInv, StopperInv, Precommit, Cancelling, Stopper, RxMade, TypeInv,
      TypeOK,
      Goto, lifecycleVars, taskVars
<1>9. ASSUME NEW s \in StartCalls, StartCommits(s) PROVE StopperInv'
  BY <1>9, CallTypes
  DEF StartCommits, StarterInv, StopperInv, Precommit, Cancelling, Stopper, RxMade, TypeInv, TypeOK,
      Goto, TakeAndSend, lifecycleVars, taskVars
<1>10. ASSUME NEW s \in StartCalls, StartCancelStopAll(s) PROVE StopperInv'
  BY <1>10, CallTypes
  DEF StartCancelStopAll, StarterInv, StopperInv, Precommit, Cancelling, Stopper, RxMade, TypeInv,
      TypeOK,
      Goto, lifecycleVars, taskVars
<1>11. ASSUME NEW s \in StartCalls, StartCancelled(s) PROVE StopperInv'
  BY <1>11, CallTypes
  DEF StartCancelled, StarterInv, StopperInv, Precommit, Cancelling, Stopper, RxMade, TypeInv,
      TypeOK,
      Goto, lifecycleVars, taskVars
<1>12. ASSUME NEW s \in StartCalls, StartReady(s) PROVE StopperInv'
  BY <1>12, CallTypes
  DEF StartReady, StarterInv, StopperInv, Precommit, Cancelling, Stopper, RxMade, TypeInv, TypeOK,
      Goto, SettledBy, Answered, lifecycleVars, taskVars
<1>13. ASSUME NEW c \in StopCalls, StopFindsStopped(c) PROVE StopperInv'
  BY <1>13, CallTypes
  DEF StopFindsStopped, StarterInv, StopperInv, Precommit, Cancelling, Stopper, RxMade, TypeInv,
      TypeOK,
      Goto, MayBegin, lifecycleVars, taskVars
<1>14. ASSUME NEW c \in StopCalls, StopJoins(c) PROVE StopperInv'
  BY <1>14, CallTypes
  DEF StopJoins, StarterInv, StopperInv, Precommit, Cancelling, Stopper, RxMade, TypeInv, TypeOK,
      Goto, MayBegin, lifecycleVars, taskVars
<1>15. ASSUME NEW c \in StopCalls, StopBegins(c) PROVE StopperInv'
  BY <1>15, CallTypes
  DEF StopBegins, StarterInv, StopperInv, Precommit, Cancelling, Stopper, RxMade, TypeInv, TypeOK,
      Goto, MayBegin, lifecycleVars, taskVars
<1>16. ASSUME NEW c \in StopCalls, StopStopsAll(c) PROVE StopperInv'
  <2>1. start_notifier = None
    BY <1>16 DEF StopStopsAll, StopperInv, StartChannelInv, Answered
  <2> QED BY <2>1, <1>16, CallTypes
    DEF StopStopsAll, StopperInv, Stopper, TypeInv, TypeOK, Goto, lifecycleVars
<1>17. ASSUME NEW c \in StopCalls, StopFinishes(c) PROVE StopperInv'
  BY <1>17, CallTypes
  DEF StopFinishes, StopEnds, StarterInv, StopperInv, Precommit, Cancelling, Stopper, RxMade,
      TypeInv, TypeOK,
      Goto, TakeAndSend, lifecycleVars, taskVars
<1>18. ASSUME NEW c \in StopCalls, StopReady(c) PROVE StopperInv'
  BY <1>18, CallTypes
  DEF StopReady, StarterInv, StopperInv, Precommit, Cancelling, Stopper, RxMade, TypeInv, TypeOK,
      Goto, SettledBy, Answered, lifecycleVars, taskVars
<1>19. ASSUME UNCHANGED lifecycleVars, \A c \in LifecycleCalls : pc'[c] = pc[c]
      PROVE  StopperInv'
  BY <1>19, CallTypes
  DEF StarterInv, StopperInv, Precommit, Cancelling, Stopper, RxMade, TypeInv, TypeOK,
      Goto, lifecycleVars, taskVars
<1> QED
  BY <1>1, <1>2, <1>3, <1>4, <1>5, <1>6, <1>7, <1>8, <1>9, <1>10, <1>11, <1>12, <1>13, <1>14, <1>15,
     <1>16, <1>17, <1>18, <1>19, UpdateFrame, RegistryFrame
  DEF Next, StartCallMade, StartStep, StopCallMade, StopStep, AllSettled, vars, lifecycleVars,
      taskVars

\* Every step answers a start channel before its sender goes.
LEMMA StartChannelStep ==
  ASSUME AwaitBeforeRestart, TypeInv, StarterInv, StopperInv, StartChannelInv, [Next]_vars
  PROVE  StartChannelInv'
<1>1. ASSUME NEW s \in StartCalls, StartJoins(s) PROVE StartChannelInv'
  BY <1>1, CallTypes
  DEF StartJoins, StartChannelInv, StartWaitersServed, StarterInv, StopperInv, Precommit, RxMade,
      TypeInv, TypeOK, Goto, MayBegin, lifecycleVars, taskVars
<1>2. ASSUME NEW s \in StartCalls, StartRefused(s) PROVE StartChannelInv'
  BY <1>2, CallTypes
  DEF StartRefused, StartChannelInv, StartWaitersServed, StarterInv, StopperInv, Precommit, RxMade,
      TypeInv, TypeOK, Goto, MayBegin, lifecycleVars, taskVars
<1>3. ASSUME NEW s \in StartCalls, StartBegins(s) PROVE StartChannelInv'
  BY <1>3, CallTypes
  DEF StartBegins, StartChannelInv, StartWaitersServed, StarterInv, StopperInv, Precommit, RxMade,
      TypeInv, TypeOK, Goto, MayBegin, InFlight, Settled, Outcomes, lifecycleVars, taskVars
<1>4. ASSUME NEW s \in StartCalls, StartSetup(s) PROVE StartChannelInv'
  BY <1>4, CallTypes
  DEF StartSetup, StartChannelInv, StartWaitersServed, StarterInv, StopperInv, Precommit, RxMade,
      TypeInv, TypeOK, Goto, lifecycleVars, taskVars
<1>5. ASSUME NEW s \in StartCalls, StartSetupFails(s) PROVE StartChannelInv'
  BY <1>5, CallTypes
  DEF StartSetupFails, StartChannelInv, StartWaitersServed, StarterInv, StopperInv, Precommit,
      RxMade,
      TypeInv, TypeOK, Goto, TakeAndSend, lifecycleVars, taskVars
<1>6. ASSUME NEW s \in StartCalls, StartSetupPanics(s) PROVE StartChannelInv'
  BY <1>6, CallTypes
  DEF StartSetupPanics, StartChannelInv, StartWaitersServed, StarterInv, StopperInv, Precommit,
      RxMade,
      TypeInv, TypeOK, Goto, lifecycleVars, taskVars
<1>7. ASSUME NEW s \in StartCalls, StartLbTask(s) PROVE StartChannelInv'
  BY <1>7, CallTypes
  DEF StartLbTask, StartChannelInv, StartWaitersServed, StarterInv, StopperInv, Precommit, RxMade,
      TypeInv, TypeOK, Goto, lifecycleVars, taskVars
<1>8. ASSUME NEW s \in StartCalls, StartMainHttp(s) PROVE StartChannelInv'
  BY <1>8, CallTypes
  DEF StartMainHttp, StartChannelInv, StartWaitersServed, StarterInv, StopperInv, Precommit, RxMade,
      TypeInv, TypeOK, Goto, lifecycleVars, taskVars
<1>9. ASSUME NEW s \in StartCalls, StartCommits(s) PROVE StartChannelInv'
  BY <1>9, CallTypes
  DEF StartCommits, StartChannelInv, StartWaitersServed, StarterInv, StopperInv, Precommit, RxMade,
      TypeInv, TypeOK, Goto, TakeAndSend, lifecycleVars, taskVars
<1>10. ASSUME NEW s \in StartCalls, StartCancelStopAll(s) PROVE StartChannelInv'
  BY <1>10, CallTypes
  DEF StartCancelStopAll, StartChannelInv, StartWaitersServed, StarterInv, StopperInv, Precommit,
      RxMade,
      TypeInv, TypeOK, Goto, lifecycleVars, taskVars
<1>11. ASSUME NEW s \in StartCalls, StartCancelled(s) PROVE StartChannelInv'
  BY <1>11, CallTypes
  DEF StartCancelled, StartChannelInv, StartWaitersServed, StarterInv, StopperInv, Precommit,
      RxMade,
      TypeInv, TypeOK, Goto, lifecycleVars, taskVars
<1>12. ASSUME NEW s \in StartCalls, StartReady(s) PROVE StartChannelInv'
  BY <1>12, CallTypes
  DEF StartReady, StartChannelInv, StartWaitersServed, StarterInv, StopperInv, Precommit, RxMade,
      TypeInv, TypeOK, Goto, SettledBy, Answered, lifecycleVars, taskVars
<1>13. ASSUME NEW c \in StopCalls, StopFindsStopped(c) PROVE StartChannelInv'
  BY <1>13, CallTypes
  DEF StopFindsStopped, StartChannelInv, StartWaitersServed, StarterInv, StopperInv, Precommit,
      RxMade,
      TypeInv, TypeOK, Goto, MayBegin, lifecycleVars, taskVars
<1>14. ASSUME NEW c \in StopCalls, StopJoins(c) PROVE StartChannelInv'
  BY <1>14, CallTypes
  DEF StopJoins, StartChannelInv, StartWaitersServed, StarterInv, StopperInv, Precommit, RxMade,
      TypeInv, TypeOK, Goto, MayBegin, lifecycleVars, taskVars
<1>15. ASSUME NEW c \in StopCalls, StopBegins(c) PROVE StartChannelInv'
  BY <1>15, CallTypes
  DEF StopBegins, StartChannelInv, StartWaitersServed, StarterInv, StopperInv, Precommit, RxMade,
      TypeInv, TypeOK, Goto, MayBegin, lifecycleVars, taskVars
<1>16. ASSUME NEW c \in StopCalls, StopStopsAll(c) PROVE StartChannelInv'
  BY <1>16, CallTypes
  DEF StopStopsAll, StartChannelInv, StartWaitersServed, StarterInv, StopperInv, Precommit, RxMade,
      TypeInv, TypeOK, Goto, lifecycleVars, taskVars
<1>17. ASSUME NEW c \in StopCalls, StopFinishes(c) PROVE StartChannelInv'
  BY <1>17, CallTypes
  DEF StopFinishes, StopEnds, StartChannelInv, StartWaitersServed, StarterInv, StopperInv,
      Precommit, RxMade,
      TypeInv, TypeOK, Goto, TakeAndSend, lifecycleVars, taskVars
<1>18. ASSUME NEW c \in StopCalls, StopReady(c) PROVE StartChannelInv'
  BY <1>18, CallTypes
  DEF StopReady, StartChannelInv, StartWaitersServed, StarterInv, StopperInv, Precommit, RxMade,
      TypeInv, TypeOK, Goto, SettledBy, Answered, lifecycleVars, taskVars
<1>19. ASSUME UNCHANGED lifecycleVars, \A c \in LifecycleCalls : pc'[c] = pc[c]
      PROVE  StartChannelInv'
  BY <1>19, CallTypes
  DEF StartChannelInv, StartWaitersServed, StarterInv, StopperInv, Precommit, RxMade,
      TypeInv, TypeOK, Goto, lifecycleVars, taskVars
<1> QED
  BY <1>1, <1>2, <1>3, <1>4, <1>5, <1>6, <1>7, <1>8, <1>9, <1>10, <1>11, <1>12, <1>13, <1>14, <1>15,
     <1>16, <1>17, <1>18, <1>19, UpdateFrame, RegistryFrame
  DEF Next, StartCallMade, StartStep, StopCallMade, StopStep, AllSettled, vars, lifecycleVars,
      taskVars

\* Every step keeps the listener's task where MainInv says it is.
LEMMA MainStep ==
  ASSUME TypeInv, HealthNamesInv, StarterInv, StopperInv, StartChannelInv, MainInv, [Next]_vars
  PROVE  MainInv'
<1>1. ASSUME NEW s \in StartCalls, StartJoins(s) PROVE MainInv'
  BY <1>1, CallTypes
  DEF StartJoins, MainInv, StarterInv, StopperInv, Precommit, Cancelling, Stopper,
      TypeInv, TypeOK, ServerTypeOK, Goto, MayBegin, serverVars, lifecycleVars, taskVars
<1>2. ASSUME NEW s \in StartCalls, StartRefused(s) PROVE MainInv'
  BY <1>2, CallTypes
  DEF StartRefused, MainInv, StarterInv, StopperInv, Precommit, Cancelling, Stopper,
      TypeInv, TypeOK, ServerTypeOK, Goto, MayBegin, serverVars, lifecycleVars, taskVars
<1>3. ASSUME NEW s \in StartCalls, StartBegins(s) PROVE MainInv'
  BY <1>3, CallTypes
  DEF StartBegins, MainInv, StarterInv, StopperInv, Precommit, Cancelling, Stopper,
      TypeInv, TypeOK, ServerTypeOK, Goto, MayBegin, InFlight, Settled, Outcomes, serverVars,
      lifecycleVars, taskVars
<1>4. ASSUME NEW s \in StartCalls, StartSetup(s) PROVE MainInv'
  BY <1>4, CallTypes
  DEF StartSetup, MainInv, StarterInv, StopperInv, Precommit, Cancelling, Stopper,
      TypeInv, TypeOK, ServerTypeOK, Goto, serverVars, lifecycleVars, taskVars
<1>5. ASSUME NEW s \in StartCalls, StartSetupFails(s) PROVE MainInv'
  BY <1>5, CallTypes
  DEF StartSetupFails, MainInv, StarterInv, StopperInv, Precommit, Cancelling, Stopper,
      TypeInv, TypeOK, ServerTypeOK, Goto, TakeAndSend, serverVars, lifecycleVars, taskVars
<1>6. ASSUME NEW s \in StartCalls, StartSetupPanics(s) PROVE MainInv'
  BY <1>6, CallTypes
  DEF StartSetupPanics, MainInv, StarterInv, StopperInv, Precommit, Cancelling, Stopper,
      TypeInv, TypeOK, ServerTypeOK, Goto, serverVars, lifecycleVars, taskVars
<1>7. ASSUME NEW s \in StartCalls, StartLbTask(s) PROVE MainInv'
  BY <1>7, CallTypes, MainHttpType
  DEF StartLbTask, MainInv, StarterInv, StopperInv, Precommit, Cancelling, Stopper,
      TypeInv, TypeOK, ServerTypeOK, Goto, upsert_service, Registered, HealthNamesInv, HealthTask,
      serverVars, lifecycleVars, taskVars
<1>8. ASSUME NEW s \in StartCalls, StartMainHttp(s) PROVE MainInv'
  <2> DEFINE h == [by |-> s, name |-> MainHttp, lb |-> None]
  <2>1. h \in ServiceHandle /\ h # None /\ h.by = s
    BY CallTypes, MainHttpType, NoneAssumption DEF ServiceHandle
  <2>2. services' = [services EXCEPT ![MainHttp] = h]
    BY <1>8 DEF StartMainHttp, upsert_service
  <2> HIDE DEF h
  <2>3. services'[MainHttp] # None /\ services'[MainHttp].by = s
    BY <2>1, <2>2, MainHttpType DEF TypeInv, TypeOK, ServerTypeOK
  <2>4. /\ \A t \in StartCalls : pc'[t] = "commit" <=> t = s
        /\ state' = state /\ state # "Running"
    BY <1>8, CallTypes
    DEF StartMainHttp, StarterInv, Precommit, TypeInv, TypeOK, Goto, lifecycleVars
  <2> QED BY <2>3, <2>4 DEF MainInv
<1>9. ASSUME NEW s \in StartCalls, StartCommits(s) PROVE MainInv'
  BY <1>9, CallTypes
  DEF StartCommits, MainInv, StarterInv, StopperInv, Precommit, Cancelling, Stopper,
      TypeInv, TypeOK, ServerTypeOK, Goto, TakeAndSend, serverVars, lifecycleVars, taskVars
<1>10. ASSUME NEW s \in StartCalls, StartCancelStopAll(s) PROVE MainInv'
  BY <1>10, CallTypes, MainHttpType
  DEF StartCancelStopAll, MainInv, StarterInv, StopperInv, Precommit, Cancelling, Stopper,
      TypeInv, TypeOK, ServerTypeOK, Goto, stop_all, Registered, serverVars, lifecycleVars, taskVars
<1>11. ASSUME NEW s \in StartCalls, StartCancelled(s) PROVE MainInv'
  BY <1>11, CallTypes
  DEF StartCancelled, MainInv, StarterInv, StopperInv, Precommit, Cancelling, Stopper,
      TypeInv, TypeOK, ServerTypeOK, Goto, serverVars, lifecycleVars, taskVars
<1>12. ASSUME NEW s \in StartCalls, StartReady(s) PROVE MainInv'
  BY <1>12, CallTypes
  DEF StartReady, MainInv, StarterInv, StopperInv, Precommit, Cancelling, Stopper,
      TypeInv, TypeOK, ServerTypeOK, Goto, SettledBy, Answered, RxMade, serverVars, lifecycleVars,
      taskVars
<1>13. ASSUME NEW c \in StopCalls, StopFindsStopped(c) PROVE MainInv'
  BY <1>13, CallTypes
  DEF StopFindsStopped, MainInv, StarterInv, StopperInv, Precommit, Cancelling, Stopper,
      TypeInv, TypeOK, ServerTypeOK, Goto, MayBegin, serverVars, lifecycleVars, taskVars
<1>14. ASSUME NEW c \in StopCalls, StopJoins(c) PROVE MainInv'
  BY <1>14, CallTypes
  DEF StopJoins, MainInv, StarterInv, StopperInv, Precommit, Cancelling, Stopper,
      TypeInv, TypeOK, ServerTypeOK, Goto, MayBegin, serverVars, lifecycleVars, taskVars
<1>15. ASSUME NEW c \in StopCalls, StopBegins(c) PROVE MainInv'
  BY <1>15, CallTypes
  DEF StopBegins, MainInv, StarterInv, StopperInv, Precommit, Cancelling, Stopper,
      TypeInv, TypeOK, ServerTypeOK, Goto, MayBegin, serverVars, lifecycleVars, taskVars
<1>16. ASSUME NEW c \in StopCalls, StopStopsAll(c) PROVE MainInv'
  <2>1. start_notifier = None
    BY <1>16 DEF StopStopsAll, StopperInv, StartChannelInv, Answered
  <2>2. (\A s \in StartCalls : pc[s] # "commit") /\ state # "Running"
    BY <2>1, <1>16, CallTypes DEF StopStopsAll, StarterInv, Precommit, StopperInv, Stopper
  <2> QED BY <2>2, <1>16, CallTypes, MainHttpType
    DEF StopStopsAll, stop_all, MainInv, TypeInv, TypeOK, Goto, lifecycleVars
<1>17. ASSUME NEW c \in StopCalls, StopFinishes(c) PROVE MainInv'
  BY <1>17, CallTypes
  DEF StopFinishes, StopEnds, MainInv, StarterInv, StopperInv, Precommit, Cancelling, Stopper,
      TypeInv, TypeOK, ServerTypeOK, Goto, TakeAndSend, serverVars, lifecycleVars, taskVars
<1>18. ASSUME NEW c \in StopCalls, StopReady(c) PROVE MainInv'
  BY <1>18, CallTypes
  DEF StopReady, MainInv, StarterInv, StopperInv, Precommit, Cancelling, Stopper,
      TypeInv, TypeOK, ServerTypeOK, Goto, SettledBy, Answered, serverVars, lifecycleVars, taskVars
<1>19. ASSUME NEW u \in UpdateCalls, UpdateCalled(u) PROVE MainInv'
  BY <1>19, CallTypes
  DEF UpdateCalled, MainInv, StarterInv, StopperInv, Precommit, Cancelling, Stopper,
      TypeInv, TypeOK, ServerTypeOK, Goto, MayBegin, serverVars, lifecycleVars, taskVars
<1>20. ASSUME NEW u \in UpdateCalls, UpdateRefused(u) PROVE MainInv'
  BY <1>20, CallTypes
  DEF UpdateRefused, MainInv, StarterInv, StopperInv, Precommit, Cancelling, Stopper,
      TypeInv, TypeOK, ServerTypeOK, Goto, serverVars, lifecycleVars, taskVars
<1>21. ASSUME NEW u \in UpdateCalls, UpdateChecked(u) PROVE MainInv'
  BY <1>21, CallTypes
  DEF UpdateChecked, UpdateReadsTable, MainInv, StarterInv, StopperInv, Precommit, Cancelling,
      Stopper,
      TypeInv, TypeOK, ServerTypeOK, Goto, serverVars, lifecycleVars, taskVars
<1>22. ASSUME NEW u \in UpdateCalls, UpdateRebuildFails(u) PROVE MainInv'
  BY <1>22, CallTypes
  DEF UpdateRebuildFails, MainInv, StarterInv, StopperInv, Precommit, Cancelling, Stopper,
      TypeInv, TypeOK, ServerTypeOK, Goto, serverVars, lifecycleVars, taskVars
<1>23. ASSUME NEW u \in UpdateCalls, UpdateCommits(u) PROVE MainInv'
  BY <1>23, CallTypes
  DEF UpdateCommits, MainInv, StarterInv, StopperInv, Precommit, Cancelling, Stopper,
      TypeInv, TypeOK, ServerTypeOK, Goto, serverVars, lifecycleVars, taskVars
<1>24. ASSUME NEW u \in UpdateCalls, UpdateUpserts(u) PROVE MainInv'
  BY <1>24, CallTypes, MainHttpType
  DEF UpdateUpserts, MainInv, StarterInv, StopperInv, Precommit, Cancelling, Stopper,
      TypeInv, TypeOK, ServerTypeOK, Goto, upsert_service, Registered, HealthNamesInv, HealthTask,
      serverVars, lifecycleVars, taskVars
<1>25. ASSUME NEW u \in UpdateCalls, UpdateRemoves(u) PROVE MainInv'
  BY <1>25, CallTypes, MainHttpType
  DEF UpdateRemoves, MainInv, StarterInv, StopperInv, Precommit, Cancelling, Stopper,
      TypeInv, TypeOK, ServerTypeOK, Goto, remove_service, Registered, HealthNamesInv, HealthTask,
      serverVars, lifecycleVars, taskVars
<1>26. ASSUME NEW u \in UpdateCalls, UpdateDone(u) PROVE MainInv'
  BY <1>26, CallTypes
  DEF UpdateDone, MainInv, StarterInv, StopperInv, Precommit, Cancelling, Stopper,
      TypeInv, TypeOK, ServerTypeOK, Goto, serverVars, lifecycleVars, taskVars
<1>27. ASSUME NEW c \in Callers, SignalStep(c) PROVE MainInv'
  BY <1>27, CallTypes, MainHttpType
  DEF SignalStep, MainInv, StarterInv, StopperInv, Precommit, Cancelling, Stopper,
      TypeInv, TypeOK, ServerTypeOK, Goto, Signal, Registered, serverVars, lifecycleVars, taskVars
<1>28. ASSUME NEW h \in signalled, TaskStep(h) PROVE MainInv'
  BY <1>28, CallTypes, MainHttpType
  DEF TaskStep, MainInv, StarterInv, StopperInv, Precommit, Cancelling, Stopper,
      TypeInv, TypeOK, ServerTypeOK, Goto, TaskEnds, Registered, serverVars, lifecycleVars, taskVars
<1>29. CASE UNCHANGED vars
  BY <1>29, CallTypes
  DEF vars, MainInv, StarterInv, StopperInv, Precommit, Cancelling, Stopper,
      TypeInv, TypeOK, ServerTypeOK, Goto, serverVars, lifecycleVars, taskVars
<1> QED
  BY <1>1, <1>2, <1>3, <1>4, <1>5, <1>6, <1>7, <1>8, <1>9, <1>10, <1>11, <1>12, <1>13, <1>14, <1>15,
     <1>16, <1>17, <1>18, <1>19, <1>20, <1>21, <1>22, <1>23, <1>24, <1>25, <1>26, <1>27, <1>28,
     <1>29
  DEF Next, StartCallMade, StartStep, StopCallMade, StopStep, UpdateStep, AllSettled

-----------------------------------------------------------------------------
\* Between two epochs of the lifecycle no listener's task is left.
LEMMA QuietReleases ==
  ASSUME TypeInv, HeldInv, HealthNamesInv, MainInv, state = "Stopped", LifecycleQuiet
  PROVE  (\A s \in StartCalls : pc[s] # "lbs") /\ \A h \in live : h.name # MainHttp
<1>1. \A c \in LifecycleCalls : pc[c] = "idle" \/ pc[c] \in Outcomes
  BY DEF LifecycleQuiet, InFlight, Settled
<1>2. services[MainHttp] = None
  BY <1>1, CallTypes DEF MainInv, Outcomes
<1>3. ASSUME NEW h \in live, h.name = MainHttp PROVE FALSE
  <2>1. h # None
    BY NoneAssumption DEF TypeInv, TypeOK, ServerTypeOK
  <2>2. PICK c \in Callers : h \in held[c]
    BY <1>2, <1>3, <2>1 DEF TypeInv, ServerInv, NoHandleLost
  <2>3. c \notin LifecycleCalls
    BY <1>1, <2>2 DEF HeldInv, Outcomes
  <2>4. c \in UpdateCalls
    BY <2>3, CallsAssumption
  <2> QED BY <1>3, <2>2, <2>4 DEF HealthNamesInv
<1> QED BY <1>1, <1>3, CallTypes DEF Outcomes

\* Every step keeps the listener's task unique.
LEMMA OneMainStep ==
  ASSUME AwaitBeforeRestart, TypeInv, HeldInv, HealthNamesInv, StarterInv, MainInv, OneMainInv,
         [Next]_vars
  PROVE  OneMainInv'
<1>1. ASSUME NEW s \in StartCalls, StartJoins(s) PROVE OneMainInv'
  BY <1>1, CallTypes DEF StartJoins, OneMainInv, TypeInv, TypeOK, serverVars, Goto
<1>2. ASSUME NEW s \in StartCalls, StartRefused(s) PROVE OneMainInv'
  BY <1>2, CallTypes DEF StartRefused, OneMainInv, TypeInv, TypeOK, serverVars, Goto
<1>3. ASSUME NEW s \in StartCalls, StartBegins(s) PROVE OneMainInv'
  <2>1. LifecycleQuiet /\ state = "Stopped"
    BY <1>3 DEF StartBegins, MayBegin, LifecycleQuiet
  <2> QED BY <2>1, <1>3, QuietReleases DEF StartBegins, OneMainInv, serverVars
<1>4. ASSUME NEW s \in StartCalls, StartSetup(s) PROVE OneMainInv'
  BY <1>4, CallTypes DEF StartSetup, OneMainInv, TypeInv, TypeOK, serverVars, Goto
<1>5. ASSUME NEW s \in StartCalls, StartSetupFails(s) PROVE OneMainInv'
  BY <1>5, CallTypes DEF StartSetupFails, OneMainInv, TypeInv, TypeOK, serverVars, Goto
<1>6. ASSUME NEW s \in StartCalls, StartSetupPanics(s) PROVE OneMainInv'
  BY <1>6, CallTypes DEF StartSetupPanics, OneMainInv, TypeInv, TypeOK, serverVars, Goto
<1>7. ASSUME NEW s \in StartCalls, StartLbTask(s) PROVE OneMainInv'
  BY <1>7, CallTypes DEF StartLbTask, OneMainInv, TypeInv, TypeOK, upsert_service, HealthNamesInv,
     HealthTask
<1>8. ASSUME NEW s \in StartCalls, StartMainHttp(s) PROVE OneMainInv'
  BY <1>8, CallTypes DEF StartMainHttp, OneMainInv, TypeInv, TypeOK, upsert_service, StarterInv,
     Precommit, Goto
<1>9. ASSUME NEW s \in StartCalls, StartCommits(s) PROVE OneMainInv'
  BY <1>9, CallTypes DEF StartCommits, OneMainInv, TypeInv, TypeOK, serverVars, Goto
<1>10. ASSUME NEW s \in StartCalls, StartCancelStopAll(s) PROVE OneMainInv'
  BY <1>10, CallTypes DEF StartCancelStopAll, OneMainInv, TypeInv, TypeOK, stop_all, Goto
<1>11. ASSUME NEW s \in StartCalls, StartCancelled(s) PROVE OneMainInv'
  BY <1>11, CallTypes DEF StartCancelled, OneMainInv, TypeInv, TypeOK, serverVars, Goto
<1>12. ASSUME NEW s \in StartCalls, StartReady(s) PROVE OneMainInv'
  BY <1>12, CallTypes DEF StartReady, OneMainInv, TypeInv, TypeOK, SettledBy, RxMade, serverVars,
     Goto
<1>13. ASSUME NEW c \in StopCalls, StopFindsStopped(c) PROVE OneMainInv'
  BY <1>13, CallTypes DEF StopFindsStopped, OneMainInv, TypeInv, TypeOK, serverVars, Goto
<1>14. ASSUME NEW c \in StopCalls, StopJoins(c) PROVE OneMainInv'
  BY <1>14, CallTypes DEF StopJoins, OneMainInv, TypeInv, TypeOK, serverVars, Goto
<1>15. ASSUME NEW c \in StopCalls, StopBegins(c) PROVE OneMainInv'
  BY <1>15, CallTypes DEF StopBegins, OneMainInv, TypeInv, TypeOK, serverVars, Goto
<1>16. ASSUME NEW c \in StopCalls, StopStopsAll(c) PROVE OneMainInv'
  BY <1>16, CallTypes DEF StopStopsAll, OneMainInv, TypeInv, TypeOK, stop_all, Goto
<1>17. ASSUME NEW c \in StopCalls, StopFinishes(c) PROVE OneMainInv'
  BY <1>17, CallTypes DEF StopFinishes, StopEnds, OneMainInv, TypeInv, TypeOK, serverVars, Goto
<1>18. ASSUME NEW c \in StopCalls, StopReady(c) PROVE OneMainInv'
  BY <1>18, CallTypes DEF StopReady, OneMainInv, TypeInv, TypeOK, SettledBy, RxMade, serverVars,
     Goto
<1>19. ASSUME NEW u \in UpdateCalls, UpdateCalled(u) PROVE OneMainInv'
  BY <1>19, CallTypes DEF UpdateCalled, OneMainInv, TypeInv, TypeOK, serverVars, Goto
<1>20. ASSUME NEW u \in UpdateCalls, UpdateRefused(u) PROVE OneMainInv'
  BY <1>20, CallTypes DEF UpdateRefused, OneMainInv, TypeInv, TypeOK, serverVars, Goto
<1>21. ASSUME NEW u \in UpdateCalls, UpdateChecked(u) PROVE OneMainInv'
  BY <1>21, CallTypes DEF UpdateChecked, UpdateReadsTable, OneMainInv, TypeInv, TypeOK, serverVars,
     Goto
<1>22. ASSUME NEW u \in UpdateCalls, UpdateRebuildFails(u) PROVE OneMainInv'
  BY <1>22, CallTypes DEF UpdateRebuildFails, OneMainInv, TypeInv, TypeOK, serverVars, Goto
<1>23. ASSUME NEW u \in UpdateCalls, UpdateCommits(u) PROVE OneMainInv'
  BY <1>23, CallTypes DEF UpdateCommits, OneMainInv, TypeInv, TypeOK, serverVars, Goto
<1>24. ASSUME NEW u \in UpdateCalls, UpdateUpserts(u) PROVE OneMainInv'
  BY <1>24, CallTypes DEF UpdateUpserts, OneMainInv, TypeInv, TypeOK, upsert_service,
     HealthNamesInv, HealthTask
<1>25. ASSUME NEW u \in UpdateCalls, UpdateRemoves(u) PROVE OneMainInv'
  BY <1>25, CallTypes DEF UpdateRemoves, OneMainInv, TypeInv, TypeOK, remove_service
<1>26. ASSUME NEW u \in UpdateCalls, UpdateDone(u) PROVE OneMainInv'
  BY <1>26, CallTypes DEF UpdateDone, OneMainInv, TypeInv, TypeOK, serverVars, Goto
<1>27. ASSUME NEW c \in Callers, SignalStep(c) PROVE OneMainInv'
  BY <1>27, CallTypes DEF SignalStep, OneMainInv, TypeInv, TypeOK, Signal, taskVars
<1>28. ASSUME NEW h \in signalled, TaskStep(h) PROVE OneMainInv'
  BY <1>28, CallTypes DEF TaskStep, OneMainInv, TypeInv, TypeOK, TaskEnds, taskVars
<1>29. CASE UNCHANGED vars
  BY <1>29, CallTypes DEF vars, OneMainInv, TypeInv, TypeOK, serverVars, taskVars
<1> QED
  BY <1>1, <1>2, <1>3, <1>4, <1>5, <1>6, <1>7, <1>8, <1>9, <1>10, <1>11, <1>12, <1>13, <1>14, <1>15,
     <1>16, <1>17, <1>18, <1>19, <1>20, <1>21, <1>22, <1>23, <1>24, <1>25, <1>26, <1>27, <1>28,
     <1>29
  DEF Next, StartCallMade, StartStep, StopCallMade, StopStep, UpdateStep, AllSettled
\* A new proxy satisfies the careful client's invariant.
LEMMA InitCareful == Init => CarefulInv
BY InitTypeInv, CallTypes, MainHttpType
DEF Init, ServerInit, CarefulInv, HeldInv, HealthNamesInv, StarterInv, StopperInv,
    StartChannelInv, StartWaitersServed, MainInv, OneMainInv, Precommit, Cancelling, Stopper

\* Every step preserves the careful client's invariant.
LEMMA CarefulStep ==
  ASSUME AwaitBeforeRestart, CarefulInv, [Next]_vars
  PROVE  CarefulInv'
BY TypeStep, HeldStep, HealthNamesStep, StarterStep, StopperStep, StartChannelStep, MainStep,
   OneMainStep
DEF CarefulInv

\* The proxy never claims to run without its listener: while address()
\* returns an address, the task serving that socket is registered and was
\* not told to shut down, whatever start, stop and update calls race.
THEOREM RunningIsListening ==
  ASSUME AwaitBeforeRestart
  PROVE  Spec => []RunningMeansListening
<1>1. CarefulInv => RunningMeansListening
  BY MainHttpType
  DEF CarefulInv, MainInv, RunningMeansListening, address, TypeInv, ServerInv,
      RegisteredIsServing, Registered
<1>2. CarefulInv /\ [Next]_vars => CarefulInv'
  BY CarefulStep
<1> QED BY <1>1, <1>2, InitCareful, PTL DEF Spec

\* When every start() and stop() has settled and the proxy is stopped, its
\* port is free: a raced start cannot leave a listener behind.
THEOREM StopReleasesListener ==
  ASSUME AwaitBeforeRestart
  PROVE  Spec => []StoppedReleasesListener
<1>1. CarefulInv => StoppedReleasesListener
  BY QuietReleases DEF CarefulInv, StoppedReleasesListener, ListenerBound, BoundBy
<1>2. CarefulInv /\ [Next]_vars => CarefulInv'
  BY CarefulStep
<1> QED BY <1>1, <1>2, InitCareful, PTL DEF Spec

\* Concurrent start() calls never open two listeners, and a restart never
\* overlaps the listener it replaces.
THEOREM ListenerIsUnique ==
  ASSUME AwaitBeforeRestart
  PROVE  Spec => []OneListener
<1>1. CarefulInv => OneListener
  BY DEF CarefulInv, OneMainInv, StarterInv, Precommit, OneListener, BoundBy
<1>2. CarefulInv /\ [Next]_vars => CarefulInv'
  BY CarefulStep
<1> QED BY <1>1, <1>2, InitCareful, PTL DEF Spec

\* No start() promise is rejected because its channel was dropped.
THEOREM StartIsAnswered ==
  ASSUME AwaitBeforeRestart
  PROVE  Spec => []StartWaitersServed
<1>1. CarefulInv => StartWaitersServed
  BY DEF CarefulInv, StartChannelInv
<1>2. CarefulInv /\ [Next]_vars => CarefulInv'
  BY CarefulStep
<1> QED BY <1>1, <1>2, InitCareful, PTL DEF Spec

\* A step of the lifecycle's state machine, or none.
LegalStep ==
  \/ state = "Stopped"  /\ state' = "Starting"
  \/ state = "Starting" /\ state' \in {"Running", "Stopping", "Stopped"}
  \/ state = "Running"  /\ state' = "Stopping"
  \/ state = "Stopping" /\ state' = "Stopped"
  \/ state' = state

\* Every step moves the state along its machine or leaves it.
LEMMA LegalSteps ==
  ASSUME CarefulInv, [Next]_vars
  PROVE  LegalStep
<1>1. ASSUME NEW s \in StartCalls, StartJoins(s) PROVE LegalStep
  BY <1>1 DEF StartJoins, LegalStep, CarefulInv, StarterInv, StopperInv, Precommit, Cancelling,
     Stopper,
    TypeInv, TypeOK, ProxyState, lifecycleVars
<1>2. ASSUME NEW s \in StartCalls, StartRefused(s) PROVE LegalStep
  BY <1>2 DEF StartRefused, LegalStep, CarefulInv, StarterInv, StopperInv, Precommit, Cancelling,
     Stopper,
    TypeInv, TypeOK, ProxyState, lifecycleVars
<1>3. ASSUME NEW s \in StartCalls, StartBegins(s) PROVE LegalStep
  BY <1>3 DEF StartBegins, LegalStep, CarefulInv, StarterInv, StopperInv, Precommit, Cancelling,
     Stopper,
    TypeInv, TypeOK, ProxyState, lifecycleVars
<1>4. ASSUME NEW s \in StartCalls, StartSetup(s) PROVE LegalStep
  BY <1>4 DEF StartSetup, LegalStep, CarefulInv, StarterInv, StopperInv, Precommit, Cancelling,
     Stopper,
    TypeInv, TypeOK, ProxyState, lifecycleVars
<1>5. ASSUME NEW s \in StartCalls, StartSetupFails(s) PROVE LegalStep
  BY <1>5 DEF StartSetupFails, LegalStep, CarefulInv, StarterInv, StopperInv, Precommit, Cancelling,
     Stopper,
    TypeInv, TypeOK, ProxyState, lifecycleVars
<1>6. ASSUME NEW s \in StartCalls, StartSetupPanics(s) PROVE LegalStep
  BY <1>6 DEF StartSetupPanics, LegalStep, CarefulInv, StarterInv, StopperInv, Precommit,
     Cancelling, Stopper,
    TypeInv, TypeOK, ProxyState, lifecycleVars
<1>7. ASSUME NEW s \in StartCalls, StartLbTask(s) PROVE LegalStep
  BY <1>7 DEF StartLbTask, LegalStep, CarefulInv, StarterInv, StopperInv, Precommit, Cancelling,
     Stopper,
    TypeInv, TypeOK, ProxyState, lifecycleVars
<1>8. ASSUME NEW s \in StartCalls, StartMainHttp(s) PROVE LegalStep
  BY <1>8 DEF StartMainHttp, LegalStep, CarefulInv, StarterInv, StopperInv, Precommit, Cancelling,
     Stopper,
    TypeInv, TypeOK, ProxyState, lifecycleVars
<1>9. ASSUME NEW s \in StartCalls, StartCommits(s) PROVE LegalStep
  BY <1>9 DEF StartCommits, LegalStep, CarefulInv, StarterInv, StopperInv, Precommit, Cancelling,
     Stopper,
    TypeInv, TypeOK, ProxyState, lifecycleVars
<1>10. ASSUME NEW s \in StartCalls, StartCancelStopAll(s) PROVE LegalStep
  BY <1>10 DEF StartCancelStopAll, LegalStep, CarefulInv, StarterInv, StopperInv, Precommit,
     Cancelling, Stopper,
    TypeInv, TypeOK, ProxyState, lifecycleVars
<1>11. ASSUME NEW s \in StartCalls, StartCancelled(s) PROVE LegalStep
  BY <1>11 DEF StartCancelled, LegalStep, CarefulInv, StarterInv, StopperInv, Precommit, Cancelling,
     Stopper,
    TypeInv, TypeOK, ProxyState, lifecycleVars
<1>12. ASSUME NEW s \in StartCalls, StartReady(s) PROVE LegalStep
  BY <1>12 DEF StartReady, LegalStep, CarefulInv, StarterInv, StopperInv, Precommit, Cancelling,
     Stopper,
    TypeInv, TypeOK, ProxyState, lifecycleVars
<1>13. ASSUME NEW c \in StopCalls, StopFindsStopped(c) PROVE LegalStep
  BY <1>13 DEF StopFindsStopped, LegalStep, CarefulInv, StarterInv, StopperInv, Precommit,
     Cancelling, Stopper,
    TypeInv, TypeOK, ProxyState, lifecycleVars
<1>14. ASSUME NEW c \in StopCalls, StopJoins(c) PROVE LegalStep
  BY <1>14 DEF StopJoins, LegalStep, CarefulInv, StarterInv, StopperInv, Precommit, Cancelling,
     Stopper,
    TypeInv, TypeOK, ProxyState, lifecycleVars
<1>15. ASSUME NEW c \in StopCalls, StopBegins(c) PROVE LegalStep
  BY <1>15 DEF StopBegins, LegalStep, CarefulInv, StarterInv, StopperInv, Precommit, Cancelling,
     Stopper,
    TypeInv, TypeOK, ProxyState, lifecycleVars
<1>16. ASSUME NEW c \in StopCalls, StopStopsAll(c) PROVE LegalStep
  BY <1>16 DEF StopStopsAll, LegalStep, CarefulInv, StarterInv, StopperInv, Precommit, Cancelling,
     Stopper,
    TypeInv, TypeOK, ProxyState, lifecycleVars
<1>17. ASSUME NEW c \in StopCalls, StopFinishes(c) PROVE LegalStep
  BY <1>17 DEF StopFinishes, StopEnds, LegalStep, CarefulInv, StarterInv, StopperInv, Precommit,
     Cancelling, Stopper,
    TypeInv, TypeOK, ProxyState, lifecycleVars
<1>18. ASSUME NEW c \in StopCalls, StopReady(c) PROVE LegalStep
  BY <1>18 DEF StopReady, LegalStep, CarefulInv, StarterInv, StopperInv, Precommit, Cancelling,
     Stopper,
    TypeInv, TypeOK, ProxyState, lifecycleVars
<1>19. ASSUME UNCHANGED lifecycleVars, \A c \in LifecycleCalls : pc'[c] = pc[c]
      PROVE  LegalStep
  BY <1>19 DEF LegalStep, CarefulInv, StarterInv, StopperInv, Precommit, Cancelling, Stopper,
    TypeInv, TypeOK, ProxyState, lifecycleVars
<1> QED
  BY <1>1, <1>2, <1>3, <1>4, <1>5, <1>6, <1>7, <1>8, <1>9, <1>10, <1>11, <1>12, <1>13, <1>14, <1>15,
     <1>16, <1>17, <1>18, <1>19, UpdateFrame, RegistryFrame
  DEF Next, StartCallMade, StartStep, StopCallMade, StopStep, AllSettled, CarefulInv, vars,
      lifecycleVars, taskVars

\* The lifecycle goes through its states in order: Running is left only by a
\* stop(), and a start interrupted by a stop() never becomes Running.
THEOREM LifecycleInOrder ==
  ASSUME AwaitBeforeRestart
  PROVE  Spec => LifecycleOrder
<1>1. CarefulInv /\ [Next]_vars => CarefulInv'
  BY CarefulStep
<1>2. CarefulInv /\ [Next]_vars =>
        [\/ state = "Stopped"  /\ state' = "Starting"
         \/ state = "Starting" /\ state' \in {"Running", "Stopping", "Stopped"}
         \/ state = "Running"  /\ state' = "Stopping"
         \/ state = "Stopping" /\ state' = "Stopped"]_state
  BY LegalSteps DEF LegalStep
<1> QED BY <1>1, <1>2, InitCareful, PTL DEF Spec, LifecycleOrder

-----------------------------------------------------------------------------
(* start() and stop() as atomic operations.                                *)

\* What the atomic view needs beyond CarefulInv: a stored start channel is
\* that of a start at work (no panic took it away), one stop() stops the
\* proxy at a time, and a stored stop channel is unanswered.
EpochInv ==
  /\ start_notifier # None => Precommit(start_notifier)
  /\ \A c, d \in StopCalls : Stopper(c) /\ Stopper(d) => c = d
  /\ stop_notifier # None => status[stop_notifier] = "Pending"
  /\ \A c \in StopCalls : pc[c] = "idle" => status[c] = "Pending" /\ stop_notifier # c

\* The inductive invariant behind the refinement.
AtomicInv == CarefulInv /\ NotifierInv /\ StopChannelInv /\ EpochInv

\* Every step preserves EpochInv.
LEMMA EpochStep ==
  ASSUME ~TaskPanics, CarefulInv, EpochInv, [Next]_vars
  PROVE  EpochInv'
<1>1. ASSUME NEW s \in StartCalls, StartJoins(s) PROVE EpochInv'
  BY <1>1, CallTypes
  DEF StartJoins, EpochInv, CarefulInv, StarterInv, StopperInv, Precommit, Cancelling, Stopper,
      TypeInv, TypeOK, MayBegin, Goto, lifecycleVars
<1>2. ASSUME NEW s \in StartCalls, StartRefused(s) PROVE EpochInv'
  BY <1>2, CallTypes
  DEF StartRefused, EpochInv, CarefulInv, StarterInv, StopperInv, Precommit, Cancelling, Stopper,
      TypeInv, TypeOK, MayBegin, Goto, lifecycleVars
<1>3. ASSUME NEW s \in StartCalls, StartBegins(s) PROVE EpochInv'
  BY <1>3, CallTypes
  DEF StartBegins, EpochInv, CarefulInv, StarterInv, StopperInv, Precommit, Cancelling, Stopper,
      TypeInv, TypeOK, MayBegin, Goto, lifecycleVars
<1>4. ASSUME NEW s \in StartCalls, StartSetup(s) PROVE EpochInv'
  BY <1>4, CallTypes
  DEF StartSetup, EpochInv, CarefulInv, StarterInv, StopperInv, Precommit, Cancelling, Stopper,
      TypeInv, TypeOK, Goto, lifecycleVars
<1>5. ASSUME NEW s \in StartCalls, StartSetupFails(s) PROVE EpochInv'
  BY <1>5, CallTypes
  DEF StartSetupFails, EpochInv, CarefulInv, StarterInv, StopperInv, Precommit, Cancelling, Stopper,
      TypeInv, TypeOK, TakeAndSend, Goto, lifecycleVars
<1>6. ASSUME NEW s \in StartCalls, StartSetupPanics(s) PROVE EpochInv'
  BY <1>6, CallTypes
  DEF StartSetupPanics, EpochInv, CarefulInv, StarterInv, StopperInv, Precommit, Cancelling,
      Stopper, TypeInv, TypeOK, Goto, lifecycleVars
<1>7. ASSUME NEW s \in StartCalls, StartLbTask(s) PROVE EpochInv'
  BY <1>7, CallTypes
  DEF StartLbTask, EpochInv, CarefulInv, StarterInv, StopperInv, Precommit, Cancelling, Stopper,
      TypeInv, TypeOK, Goto, lifecycleVars
<1>8. ASSUME NEW s \in StartCalls, StartMainHttp(s) PROVE EpochInv'
  BY <1>8, CallTypes
  DEF StartMainHttp, EpochInv, CarefulInv, StarterInv, StopperInv, Precommit, Cancelling, Stopper,
      TypeInv, TypeOK, Goto, lifecycleVars
<1>9. ASSUME NEW s \in StartCalls, StartCommits(s) PROVE EpochInv'
  BY <1>9, CallTypes
  DEF StartCommits, EpochInv, CarefulInv, StarterInv, StopperInv, Precommit, Cancelling, Stopper,
      TypeInv, TypeOK, TakeAndSend, Goto, lifecycleVars
<1>10. ASSUME NEW s \in StartCalls, StartCancelStopAll(s) PROVE EpochInv'
  BY <1>10, CallTypes
  DEF StartCancelStopAll, EpochInv, CarefulInv, StarterInv, StopperInv, Precommit, Cancelling,
      Stopper, TypeInv, TypeOK, Goto, lifecycleVars
<1>11. ASSUME NEW s \in StartCalls, StartCancelled(s) PROVE EpochInv'
  BY <1>11, CallTypes
  DEF StartCancelled, EpochInv, CarefulInv, StarterInv, StopperInv, Precommit, Cancelling, Stopper,
      TypeInv, TypeOK, Goto, lifecycleVars
<1>12. ASSUME NEW s \in StartCalls, StartReady(s) PROVE EpochInv'
  BY <1>12, CallTypes
  DEF StartReady, EpochInv, CarefulInv, StarterInv, StopperInv, Precommit, Cancelling, Stopper,
      TypeInv, TypeOK, SettledBy, RxMade, Goto, lifecycleVars
<1>13. ASSUME NEW c \in StopCalls, StopFindsStopped(c) PROVE EpochInv'
  BY <1>13, CallTypes
  DEF StopFindsStopped, EpochInv, CarefulInv, StarterInv, StopperInv, Precommit, Cancelling,
      Stopper, TypeInv, TypeOK, MayBegin, Goto, lifecycleVars
<1>14. ASSUME NEW c \in StopCalls, StopJoins(c) PROVE EpochInv'
  BY <1>14, CallTypes
  DEF StopJoins, EpochInv, CarefulInv, StarterInv, StopperInv, Precommit, Cancelling, Stopper,
      TypeInv, TypeOK, MayBegin, Goto, lifecycleVars
<1>15. ASSUME NEW c \in StopCalls, StopBegins(c) PROVE EpochInv'
  BY <1>15, CallTypes
  DEF StopBegins, EpochInv, CarefulInv, StarterInv, StopperInv, Precommit, Cancelling, Stopper,
      TypeInv, TypeOK, MayBegin, Goto, lifecycleVars
<1>16. ASSUME NEW c \in StopCalls, StopStopsAll(c) PROVE EpochInv'
  BY <1>16, CallTypes
  DEF StopStopsAll, EpochInv, CarefulInv, StarterInv, StopperInv, Precommit, Cancelling, Stopper,
      TypeInv, TypeOK, Goto, lifecycleVars
<1>17. ASSUME NEW c \in StopCalls, StopFinishes(c) PROVE EpochInv'
  BY <1>17, CallTypes
  DEF StopFinishes, StopEnds, EpochInv, CarefulInv, StarterInv, StopperInv, Precommit, Cancelling,
      Stopper, TypeInv, TypeOK, TakeAndSend, Goto, lifecycleVars
<1>18. ASSUME NEW c \in StopCalls, StopReady(c) PROVE EpochInv'
  BY <1>18, CallTypes
  DEF StopReady, EpochInv, CarefulInv, StarterInv, StopperInv, Precommit, Cancelling, Stopper,
      TypeInv, TypeOK, SettledBy, RxMade, Goto, lifecycleVars
<1>19. ASSUME UNCHANGED lifecycleVars, \A c \in LifecycleCalls : pc'[c] = pc[c]
      PROVE  EpochInv'
  BY <1>19, CallTypes
  DEF EpochInv, CarefulInv, StarterInv, StopperInv, Precommit, Cancelling, Stopper, TypeInv, TypeOK,
      lifecycleVars
<1> QED
  BY <1>1, <1>2, <1>3, <1>4, <1>5, <1>6, <1>7, <1>8, <1>9, <1>10, <1>11, <1>12, <1>13, <1>14, <1>15,
     <1>16, <1>17, <1>18, <1>19, UpdateFrame, RegistryFrame
  DEF Next, StartCallMade, StartStep, StopCallMade, StopStep, AllSettled, CarefulInv, vars,
      lifecycleVars, taskVars

\* The value of Phase, by where the call is.
PhaseFacts(c) ==
  /\ pc[c] \in {"idle", "resolved"} => Phase[c] = pc[c]
  /\ pc[c] \in {"setup", "lbs", "commit", "wait_start", "drain"} => Phase[c] = "waiting"
  /\ pc[c] \in {"wait_ready", "wait_stop"} =>
       /\ status[rx[c]] = "Pending" => Phase[c] = "waiting"
       /\ status[rx[c]] = "Ok" => Phase[c] = "resolved"
       /\ status[rx[c]] = "Err" => Phase[c] = "rejected"
  /\ pc[c] \in {"cancel", "cancel_drain", "rejected", "closed", "internal", "panicked"} =>
       Phase[c] = "rejected"

\* Phase, in this state and in the next one.
LEMMA PhaseAt ==
  ASSUME NEW c \in LifecycleCalls
  PROVE  PhaseFacts(c) /\ PhaseFacts(c)'
BY DEF PhaseFacts, Phase

\* A call whose position and channel stay as they are stays in its phase.
LEMMA PhaseFrame ==
  ASSUME NEW c \in LifecycleCalls, pc'[c] = pc[c], rx'[c] = rx[c],
         pc[c] \in {"wait_ready", "wait_stop"} => status'[rx[c]] = status[rx[c]]
  PROVE  Phase'[c] = Phase[c]
BY DEF Phase

\* When every call stays in its phase and the state stays, the atomic
\* specification stutters.
LEMMA LifeStutter ==
  ASSUME state' = state, \A c \in LifecycleCalls : Phase'[c] = Phase[c]
  PROVE  [Life!Next]_Life!vars
<1>1. Phase' = Phase
  BY DEF Phase
<1> QED BY <1>1 DEF Life!vars

\* One call enters a phase.
LEMMA LifeBecomes ==
  ASSUME NEW c \in LifecycleCalls, NEW p, Phase'[c] = p,
         \A d \in LifecycleCalls \ {c} : Phase'[d] = Phase[d]
  PROVE  Life!Become(c, p)
BY DEF Phase, Life!Become

\* All the calls of a kind that wait are answered.
LEMMA LifeAnswers ==
  ASSUME NEW kind, NEW p,
         \A c \in LifecycleCalls :
           Phase'[c] = IF c \in kind /\ Phase[c] = "waiting" THEN p ELSE Phase[c]
  PROVE  Life!AnswerAll(kind, p)
BY CallTypes DEF Phase, Life!AnswerAll, Life!Waiting, Life!Calls

\* Which starts wait: the one at work and those on its channel, which is the
\* stored one.  Which stops wait: the one that stops the proxy and those on
\* the stored stop channel.
LEMMA WhoWaits ==
  ASSUME AtomicInv
  PROVE  /\ \A s \in StartCalls : Phase[s] = "waiting" <=>
              Precommit(s) \/ (pc[s] = "wait_ready" /\ start_notifier = rx[s])
         /\ \A c \in StopCalls : Phase[c] = "waiting" <=>
              Stopper(c) \/ (pc[c] = "wait_stop" /\ stop_notifier = rx[c])
<1>1. ASSUME NEW s \in StartCalls
      PROVE  Phase[s] = "waiting" <=>
               Precommit(s) \/ (pc[s] = "wait_ready" /\ start_notifier = rx[s])
  <2>1. PhaseFacts(s)
    BY PhaseAt, CallTypes
  <2>2. pc[s] \in StartPc \cup Outcomes /\ rx[s] \in LifecycleCalls \cup {None}
    BY CallTypes DEF AtomicInv, CarefulInv, TypeInv, TypeOK
  <2>3. pc[s] = "wait_ready" =>
          /\ rx[s] \in StartCalls
          /\ status[rx[s]] \in {"Pending", "Ok", "Err"}
          /\ status[rx[s]] = "Pending" <=> start_notifier = rx[s]
    BY CallTypes DEF AtomicInv, CarefulInv, TypeInv, TypeOK, RxMade, StartChannelInv
  <2>4. CASE pc[s] = "wait_ready"
    <3>1. ~Precommit(s)
      BY <2>4 DEF Precommit
    <3>2. Phase[s] = "waiting" <=> status[rx[s]] = "Pending"
      BY <2>1, <2>3, <2>4 DEF PhaseFacts
    <3> QED BY <2>3, <2>4, <3>1, <3>2
  <2>5. CASE pc[s] # "wait_ready"
    <3>1. Precommit(s) => Phase[s] = "waiting"
      BY <2>1 DEF PhaseFacts, Precommit
    <3>2. ~Precommit(s) => Phase[s] \in {"idle", "resolved", "rejected"}
      BY <2>1, <2>2, <2>5 DEF PhaseFacts, StartPc, Outcomes, Precommit
    <3> QED BY <2>5, <3>1, <3>2
  <2> QED BY <2>4, <2>5
<1>2. ASSUME NEW c \in StopCalls
      PROVE  Phase[c] = "waiting" <=>
               Stopper(c) \/ (pc[c] = "wait_stop" /\ stop_notifier = rx[c])
  <2>1. PhaseFacts(c)
    BY PhaseAt, CallTypes
  <2>2. pc[c] \in StopPc \cup Outcomes
    BY DEF AtomicInv, CarefulInv, TypeInv, TypeOK
  <2>3. pc[c] = "wait_stop" =>
          /\ rx[c] \in StopCalls
          /\ status[rx[c]] \in {"Pending", "Ok", "Err"}
          /\ status[rx[c]] = "Pending" <=> stop_notifier = rx[c]
    BY CallTypes DEF AtomicInv, CarefulInv, TypeInv, TypeOK, RxMade, StopChannelInv, EpochInv
  <2>4. CASE pc[c] = "wait_stop"
    <3>1. ~Stopper(c)
      BY <2>4 DEF Stopper
    <3>2. Phase[c] = "waiting" <=> status[rx[c]] = "Pending"
      BY <2>1, <2>3, <2>4 DEF PhaseFacts
    <3> QED BY <2>3, <2>4, <3>1, <3>2
  <2>5. CASE pc[c] # "wait_stop"
    <3>1. Stopper(c) => Phase[c] = "waiting"
      BY <2>1 DEF PhaseFacts, Stopper
    <3>2. ~Stopper(c) => Phase[c] \in {"idle", "resolved", "rejected"}
      BY <2>1, <2>2, <2>5 DEF PhaseFacts, StopPc, Outcomes, Stopper
    <3> QED BY <2>5, <3>1, <3>2
  <2> QED BY <2>4, <2>5
<1> QED BY <1>1, <1>2

\* No start waits once the start channel is gone.
LEMMA NoStartWaits ==
  ASSUME AtomicInv, start_notifier = None
  PROVE  Life!Waiting(StartCalls) = {}
<1>1. \A s \in StartCalls : ~Precommit(s) /\ (pc[s] = "wait_ready" => rx[s] # None)
  BY CallTypes DEF AtomicInv, CarefulInv, StarterInv, TypeInv, RxMade
<1> QED BY <1>1, WhoWaits DEF Life!Waiting

\* The start at work is answered, and with it every start on its channel.
LEMMA StartsAnswered ==
  ASSUME AtomicInv, NEW s \in StartCalls, NEW p, start_notifier = s,
         \A t \in StartCalls : Precommit(t) <=> t = s,
         rx' = rx,
         \A d \in LifecycleCalls \ {s} : pc'[d] = pc[d] /\ status'[d] = status[d],
         \/ p = "rejected" /\ pc'[s] \in {"rejected", "cancel"} /\ status'[s] = "Err"
         \/ p = "resolved" /\ pc'[s] = "wait_ready" /\ rx[s] = s /\ status'[s] = "Ok"
  PROVE  Life!AnswerAll(StartCalls, p)
<1> SUFFICES ASSUME NEW d \in LifecycleCalls
             PROVE  Phase'[d] = IF d \in StartCalls /\ Phase[d] = "waiting" THEN p ELSE Phase[d]
  BY LifeAnswers
<1>1. CASE d = s
  BY <1>1, PhaseAt, WhoWaits DEF PhaseFacts
<1>2. CASE d # s /\ d \in StartCalls /\ Phase[d] = "waiting"
  <2>1. pc[d] = "wait_ready" /\ rx[d] = s
    BY <1>2, WhoWaits
  <2> QED BY <1>2, <2>1, PhaseAt DEF PhaseFacts
<1>3. CASE d # s /\ d \in StartCalls /\ Phase[d] # "waiting"
  <2>1. pc[d] = "wait_ready" => rx[d] # s /\ rx[d] \in LifecycleCalls
    BY <1>3, WhoWaits, CallTypes DEF AtomicInv, CarefulInv, TypeInv, RxMade
  <2>2. pc[d] # "wait_stop"
    BY <1>3 DEF AtomicInv, CarefulInv, TypeInv, TypeOK, StartPc, Outcomes
  <2> QED BY <2>1, <2>2, <1>3, PhaseFrame
<1>4. CASE d \in StopCalls
  <2>1. pc[d] # "wait_ready" /\ (pc[d] = "wait_stop" => rx[d] \in StopCalls)
    BY <1>4 DEF AtomicInv, CarefulInv, TypeInv, TypeOK, RxMade, StopPc, Outcomes
  <2> QED BY <2>1, <1>4, PhaseFrame, CallTypes
<1> QED BY <1>1, <1>2, <1>3, <1>4, CallTypes

\* Every step is a step of the atomic lifecycle or leaves it alone.
LEMMA LifeStep ==
  ASSUME AwaitBeforeRestart, ~TaskPanics, AtomicInv, AtomicInv', [Next]_vars
  PROVE  [Life!Next]_Life!vars
<1>1. ASSUME NEW s \in StartCalls, StartJoins(s) PROVE [Life!Next]_Life!vars
  <2>1. start_notifier \in StartCalls /\ status[start_notifier] = "Pending"
    BY <1>1, CallTypes DEF StartJoins, AtomicInv, NotifierInv, CarefulInv, TypeInv, TypeOK,
       StartChannelInv
  <2>2. \A d \in LifecycleCalls \ {s} : Phase'[d] = Phase[d]
    BY <1>1, PhaseFrame, CallTypes DEF StartJoins, AtomicInv, CarefulInv, TypeInv, TypeOK, Goto
  <2>3. pc'[s] = "wait_ready" /\ rx'[s] = start_notifier /\ status' = status
    BY <2>1, <1>1, CallTypes DEF StartJoins, AtomicInv, CarefulInv, TypeInv, TypeOK, Goto
  <2>4. Phase'[s] = "waiting" /\ Phase[s] = "idle"
    BY <2>1, <2>3, <1>1, PhaseAt, CallTypes DEF StartJoins, MayBegin, PhaseFacts
  <2>5. Life!Start(s)
    BY <2>2, <2>4, <1>1, LifeBecomes, CallTypes DEF StartJoins, Life!Start
  <2> QED BY <2>5 DEF Life!Next
<1>2. ASSUME NEW s \in StartCalls, StartRefused(s) PROVE [Life!Next]_Life!vars
  <2>1. \A d \in LifecycleCalls \ {s} : Phase'[d] = Phase[d]
    BY <1>2, PhaseFrame, CallTypes DEF StartRefused, AtomicInv, CarefulInv, TypeInv, TypeOK, Goto,
       lifecycleVars
  <2>2. Phase'[s] = "rejected" /\ Phase[s] = "idle"
    BY <1>2, PhaseAt, CallTypes DEF StartRefused, MayBegin, PhaseFacts, AtomicInv, CarefulInv,
       TypeInv, TypeOK, Goto
  <2>3. Life!Start(s)
    BY <2>1, <2>2, <1>2, LifeBecomes, CallTypes DEF StartRefused, Life!Start, lifecycleVars
  <2> QED BY <2>3 DEF Life!Next
<1>3. ASSUME NEW s \in StartCalls, StartBegins(s) PROVE [Life!Next]_Life!vars
  <2>1. \A d \in LifecycleCalls \ {s} : Phase'[d] = Phase[d]
    BY <1>3, PhaseFrame, CallTypes DEF StartBegins, AtomicInv, CarefulInv, TypeInv, TypeOK, Goto,
       lifecycleVars
  <2>2. Phase'[s] = "waiting" /\ Phase[s] = "idle"
    BY <1>3, PhaseAt, CallTypes DEF StartBegins, MayBegin, PhaseFacts, AtomicInv, CarefulInv,
       TypeInv, TypeOK, Goto
  <2>3. Life!Start(s)
    BY <2>1, <2>2, <1>3, LifeBecomes, CallTypes DEF StartBegins, Life!Start, lifecycleVars
  <2> QED BY <2>3 DEF Life!Next
<1>4. ASSUME NEW s \in StartCalls, StartSetup(s) PROVE [Life!Next]_Life!vars
  <2>1. \A d \in LifecycleCalls \ {s} : Phase'[d] = Phase[d]
    BY <1>4, PhaseFrame, CallTypes DEF StartSetup, AtomicInv, CarefulInv, TypeInv, TypeOK, Goto,
       lifecycleVars
  <2>2. Phase'[s] = Phase[s]
    BY <1>4, PhaseAt, CallTypes DEF StartSetup, PhaseFacts, AtomicInv, CarefulInv, TypeInv, TypeOK,
       Goto
  <2> QED BY <2>1, <2>2, <1>4, LifeStutter DEF StartSetup, lifecycleVars
<1>5. ASSUME NEW s \in StartCalls, StartSetupFails(s) PROVE [Life!Next]_Life!vars
  <2>1. /\ start_notifier = s /\ state \in {"Starting", "Stopping"}
        /\ \A t \in StartCalls : Precommit(t) <=> t = s
    BY <1>5 DEF StartSetupFails, AtomicInv, CarefulInv, StarterInv, Precommit
  <2>2. /\ rx' = rx /\ pc'[s] = "rejected" /\ status'[s] = "Err"
        /\ \A d \in LifecycleCalls \ {s} : pc'[d] = pc[d] /\ status'[d] = status[d]
    BY <2>1, <1>5, CallTypes DEF StartSetupFails, TakeAndSend, Goto, AtomicInv, CarefulInv, TypeInv,
       TypeOK
  <2>3. Life!AnswerAll(StartCalls, "rejected")
    BY StartsAnswered, <2>1, <2>2
  <2>4. s \in Life!Waiting(StartCalls)
    BY <2>1, WhoWaits DEF Life!Waiting
  <2>5. Life!StartFailed
    BY <2>1, <2>3, <2>4, <1>5 DEF StartSetupFails, Life!StartFailed
  <2> QED BY <2>5 DEF Life!Next
<1>6. ASSUME NEW s \in StartCalls, StartSetupPanics(s) PROVE [Life!Next]_Life!vars
  BY <1>6 DEF StartSetupPanics
<1>7. ASSUME NEW s \in StartCalls, StartLbTask(s) PROVE [Life!Next]_Life!vars
  <2>1. \A d \in LifecycleCalls : Phase'[d] = Phase[d]
    BY <1>7, PhaseFrame DEF StartLbTask, lifecycleVars
  <2> QED BY <2>1, <1>7, LifeStutter DEF StartLbTask, lifecycleVars
<1>8. ASSUME NEW s \in StartCalls, StartMainHttp(s) PROVE [Life!Next]_Life!vars
  <2>1. \A d \in LifecycleCalls \ {s} : Phase'[d] = Phase[d]
    BY <1>8, PhaseFrame, CallTypes DEF StartMainHttp, AtomicInv, CarefulInv, TypeInv, TypeOK, Goto,
       lifecycleVars
  <2>2. Phase'[s] = Phase[s]
    BY <1>8, PhaseAt, CallTypes DEF StartMainHttp, PhaseFacts, AtomicInv, CarefulInv, TypeInv,
       TypeOK, Goto
  <2> QED BY <2>1, <2>2, <1>8, LifeStutter DEF StartMainHttp, lifecycleVars
<1>9. ASSUME NEW s \in StartCalls, StartCommits(s) PROVE [Life!Next]_Life!vars
  <2>1. /\ start_notifier = s /\ state \in {"Starting", "Stopping"} /\ rx[s] = s
        /\ \A t \in StartCalls : Precommit(t) <=> t = s
    BY <1>9 DEF StartCommits, AtomicInv, CarefulInv, StarterInv, Precommit, TypeInv, RxMade
  <2>2. rx' = rx /\ \A d \in LifecycleCalls \ {s} : pc'[d] = pc[d] /\ status'[d] = status[d]
    BY <2>1, <1>9, CallTypes DEF StartCommits, TakeAndSend, Goto, AtomicInv, CarefulInv, TypeInv,
       TypeOK
  <2>3. CASE state = "Starting"
    <3>1. state' = "Running" /\ pc'[s] = "wait_ready" /\ status'[s] = "Ok"
      BY <2>1, <2>3, <1>9, CallTypes DEF StartCommits, TakeAndSend, Goto, AtomicInv, CarefulInv,
         TypeInv, TypeOK
    <3>2. Life!AnswerAll(StartCalls, "resolved")
      BY StartsAnswered, <2>1, <2>2, <3>1
    <3>3. Life!Started
      BY <2>3, <3>1, <3>2 DEF Life!Started
    <3> QED BY <3>3 DEF Life!Next
  <2>4. CASE state = "Stopping"
    <3>1. state' = state /\ pc'[s] = "cancel" /\ status'[s] = "Err"
      BY <2>1, <2>4, <1>9, CallTypes DEF StartCommits, TakeAndSend, Goto, AtomicInv, CarefulInv,
         TypeInv, TypeOK
    <3>2. Life!AnswerAll(StartCalls, "rejected")
      BY StartsAnswered, <2>1, <2>2, <3>1
    <3>3. s \in Life!Waiting(StartCalls)
      BY <2>1, WhoWaits DEF Life!Waiting
    <3>4. Life!StartFailed
      BY <2>4, <3>1, <3>2, <3>3 DEF Life!StartFailed
    <3> QED BY <3>4 DEF Life!Next
  <2> QED BY <2>1, <2>3, <2>4
<1>10. ASSUME NEW s \in StartCalls, StartCancelStopAll(s) PROVE [Life!Next]_Life!vars
  <2>1. \A d \in LifecycleCalls \ {s} : Phase'[d] = Phase[d]
    BY <1>10, PhaseFrame, CallTypes DEF StartCancelStopAll, AtomicInv, CarefulInv, TypeInv, TypeOK,
       Goto, lifecycleVars
  <2>2. Phase'[s] = Phase[s]
    BY <1>10, PhaseAt, CallTypes DEF StartCancelStopAll, PhaseFacts, AtomicInv, CarefulInv, TypeInv,
       TypeOK, Goto
  <2> QED BY <2>1, <2>2, <1>10, LifeStutter DEF StartCancelStopAll, lifecycleVars
<1>11. ASSUME NEW s \in StartCalls, StartCancelled(s) PROVE [Life!Next]_Life!vars
  <2>1. \A d \in LifecycleCalls \ {s} : Phase'[d] = Phase[d]
    BY <1>11, PhaseFrame, CallTypes DEF StartCancelled, AtomicInv, CarefulInv, TypeInv, TypeOK,
       Goto, lifecycleVars
  <2>2. Phase'[s] = Phase[s]
    BY <1>11, PhaseAt, CallTypes DEF StartCancelled, PhaseFacts, AtomicInv, CarefulInv, TypeInv,
       TypeOK, Goto
  <2>3. Phase' = Phase
    BY <2>1, <2>2 DEF Phase
  <2>4. start_notifier = None /\ state \in {"Stopping", "Stopped"} /\ state' = "Stopped"
    BY <1>11 DEF StartCancelled, AtomicInv, EpochInv, CarefulInv, TypeInv, TypeOK, StarterInv,
       Precommit, Cancelling
  <2>5. CASE state = "Stopping"
    <3>1. Life!Halted
      BY <2>3, <2>4, <2>5, NoStartWaits DEF Life!Halted
    <3> QED BY <3>1 DEF Life!Next
  <2>6. CASE state = "Stopped"
    BY <2>3, <2>4, <2>6 DEF Life!vars
  <2> QED BY <2>4, <2>5, <2>6
<1>12. ASSUME NEW s \in StartCalls, StartReady(s) PROVE [Life!Next]_Life!vars
  <2>1. \A d \in LifecycleCalls \ {s} : Phase'[d] = Phase[d]
    BY <1>12, PhaseFrame, CallTypes DEF StartReady, AtomicInv, CarefulInv, TypeInv, TypeOK, Goto,
       lifecycleVars
  <2>2. pc'[s] = SettledBy(rx[s]) /\ pc'[s] # "closed" /\ rx[s] \in LifecycleCalls
    BY <1>12, CallTypes
    DEF StartReady, AtomicInv, CarefulInv, TypeInv, TypeOK, RxMade, Goto, StartChannelInv,
        StopChannelInv, StartWaitersServed
  <2>3. status[rx[s]] \in {"Ok", "Err"} /\ PhaseFacts(s)
    BY <2>2, PhaseAt, CallTypes DEF SettledBy, AtomicInv, CarefulInv, TypeInv, TypeOK
  <2>4. Phase'[s] = Phase[s]
    BY <2>2, <2>3, <1>12, PhaseAt, CallTypes DEF StartReady, SettledBy, PhaseFacts
  <2> QED BY <2>1, <2>4, <1>12, LifeStutter DEF StartReady, lifecycleVars
<1>13. ASSUME NEW c \in StopCalls, StopFindsStopped(c) PROVE [Life!Next]_Life!vars
  <2>1. \A d \in LifecycleCalls \ {c} : Phase'[d] = Phase[d]
    BY <1>13, PhaseFrame, CallTypes DEF StopFindsStopped, AtomicInv, CarefulInv, TypeInv, TypeOK,
       Goto, lifecycleVars
  <2>2. Phase'[c] = "resolved" /\ Phase[c] = "idle"
    BY <1>13, PhaseAt, CallTypes DEF StopFindsStopped, MayBegin, PhaseFacts, AtomicInv, CarefulInv,
       TypeInv, TypeOK, Goto
  <2>3. Life!Stop(c)
    BY <2>1, <2>2, <1>13, LifeBecomes, CallTypes DEF StopFindsStopped, Life!Stop, lifecycleVars
  <2> QED BY <2>3 DEF Life!Next
<1>14. ASSUME NEW c \in StopCalls, StopJoins(c) PROVE [Life!Next]_Life!vars
  <2>1. stop_notifier \in StopCalls /\ status[stop_notifier] = "Pending"
    BY <1>14, CallTypes DEF StopJoins, AtomicInv, NotifierInv, CarefulInv, TypeInv, TypeOK, EpochInv
  <2>2. \A d \in LifecycleCalls \ {c} : Phase'[d] = Phase[d]
    BY <1>14, PhaseFrame, CallTypes DEF StopJoins, AtomicInv, CarefulInv, TypeInv, TypeOK, Goto
  <2>3. pc'[c] = "wait_stop" /\ rx'[c] = stop_notifier /\ status' = status
    BY <2>1, <1>14, CallTypes DEF StopJoins, AtomicInv, CarefulInv, TypeInv, TypeOK, Goto
  <2>4. Phase'[c] = "waiting" /\ Phase[c] = "idle"
    BY <2>1, <2>3, <1>14, PhaseAt, CallTypes DEF StopJoins, MayBegin, PhaseFacts
  <2>5. Life!Stop(c)
    BY <2>2, <2>4, <1>14, LifeBecomes, CallTypes DEF StopJoins, Life!Stop
  <2> QED BY <2>5 DEF Life!Next
<1>15. ASSUME NEW c \in StopCalls, StopBegins(c) PROVE [Life!Next]_Life!vars
  <2>1. \A d \in LifecycleCalls \ {c} : Phase'[d] = Phase[d]
    BY <1>15, PhaseFrame, CallTypes DEF StopBegins, AtomicInv, CarefulInv, TypeInv, TypeOK, Goto,
       lifecycleVars
  <2>2. Phase'[c] = "waiting" /\ Phase[c] = "idle"
    BY <1>15, PhaseAt, CallTypes DEF StopBegins, MayBegin, PhaseFacts, AtomicInv, CarefulInv,
       TypeInv, TypeOK, Goto
  <2>3. Life!Stop(c)
    BY <2>1, <2>2, <1>15, LifeBecomes, CallTypes DEF StopBegins, Life!Stop, lifecycleVars
  <2> QED BY <2>3 DEF Life!Next
<1>16. ASSUME NEW c \in StopCalls, StopStopsAll(c) PROVE [Life!Next]_Life!vars
  <2>1. \A d \in LifecycleCalls \ {c} : Phase'[d] = Phase[d]
    BY <1>16, PhaseFrame, CallTypes DEF StopStopsAll, AtomicInv, CarefulInv, TypeInv, TypeOK, Goto,
       lifecycleVars
  <2>2. Phase'[c] = Phase[c]
    BY <1>16, PhaseAt, CallTypes DEF StopStopsAll, PhaseFacts, AtomicInv, CarefulInv, TypeInv,
       TypeOK, Goto
  <2> QED BY <2>1, <2>2, <1>16, LifeStutter DEF StopStopsAll, lifecycleVars
<1>17. ASSUME NEW c \in StopCalls, StopFinishes(c) PROVE [Life!Next]_Life!vars
  <2>1. /\ start_notifier = None /\ state \in {"Stopping", "Stopped"} /\ state' = "Stopped"
        /\ \A d \in StopCalls : Stopper(d) <=> d = c
    BY <1>17 DEF StopFinishes, StopEnds, AtomicInv, EpochInv, CarefulInv, StopperInv, Stopper
  <2>2. /\ rx' = rx /\ pc'[c] = "resolved"
        /\ \A d \in LifecycleCalls \ {c} : pc'[d] = pc[d]
        /\ \A d \in LifecycleCalls : status'[d] = IF d = stop_notifier THEN "Ok" ELSE status[d]
    BY <1>17, CallTypes DEF StopFinishes, StopEnds, TakeAndSend, Goto, AtomicInv, CarefulInv,
       TypeInv, TypeOK
  <2>3. ASSUME NEW d \in LifecycleCalls
        PROVE  Phase'[d] = IF d \in StopCalls /\ Phase[d] = "waiting" THEN "resolved" ELSE Phase[d]
    <3>1. CASE d = c
      BY <2>1, <2>2, <3>1, PhaseAt, WhoWaits DEF PhaseFacts
    <3>2. CASE d # c /\ d \in StopCalls /\ Phase[d] = "waiting"
      <4>1. pc[d] = "wait_stop" /\ stop_notifier = rx[d] /\ rx[d] \in StopCalls
        BY <2>1, <3>2, WhoWaits DEF AtomicInv, CarefulInv, TypeInv, RxMade
      <4> QED BY <4>1, <3>2, <2>2, PhaseAt, CallTypes DEF PhaseFacts
    <3>3. CASE d # c /\ d \in StopCalls /\ Phase[d] # "waiting"
      <4>1. pc[d] = "wait_stop" => stop_notifier # rx[d] /\ rx[d] \in LifecycleCalls
        BY <3>3, WhoWaits, CallTypes DEF AtomicInv, CarefulInv, TypeInv, RxMade
      <4>2. pc[d] # "wait_ready"
        BY <3>3 DEF AtomicInv, CarefulInv, TypeInv, TypeOK, StopPc, Outcomes
      <4> QED BY <4>1, <4>2, <3>3, <2>2, PhaseFrame
    <3>4. CASE d \in StartCalls
      <4>1. pc[d] # "wait_stop" /\ (pc[d] = "wait_ready" => rx[d] \in StartCalls)
        BY <3>4 DEF AtomicInv, CarefulInv, TypeInv, TypeOK, RxMade, StartPc, Outcomes
      <4>2. pc[d] = "wait_ready" => status'[rx[d]] = status[rx[d]]
        BY <4>1, <2>2, CallTypes DEF AtomicInv, CarefulInv, TypeInv, TypeOK
      <4> QED BY <4>1, <4>2, <3>4, <2>2, PhaseFrame, CallTypes
    <3> QED BY <3>1, <3>2, <3>3, <3>4, CallTypes
  <2>4. Life!AnswerAll(StopCalls, "resolved")
    BY <2>3, LifeAnswers
  <2>5. CASE state = "Stopping"
    <3>1. Life!Halted
      BY <2>1, <2>4, <2>5, NoStartWaits DEF Life!Halted
    <3> QED BY <3>1 DEF Life!Next
  <2>6. CASE state = "Stopped"
    <3>1. Life!StopsAnswered
      BY <2>1, <2>4, <2>6 DEF Life!StopsAnswered
    <3> QED BY <3>1 DEF Life!Next
  <2> QED BY <2>1, <2>5, <2>6
<1>18. ASSUME NEW c \in StopCalls, StopReady(c) PROVE [Life!Next]_Life!vars
  <2>1. \A d \in LifecycleCalls \ {c} : Phase'[d] = Phase[d]
    BY <1>18, PhaseFrame, CallTypes DEF StopReady, AtomicInv, CarefulInv, TypeInv, TypeOK, Goto,
       lifecycleVars
  <2>2. pc'[c] = SettledBy(rx[c]) /\ pc'[c] # "closed" /\ rx[c] \in LifecycleCalls
    BY <1>18, CallTypes
    DEF StopReady, AtomicInv, CarefulInv, TypeInv, TypeOK, RxMade, Goto, StartChannelInv,
        StopChannelInv, StopWaitersServed
  <2>3. status[rx[c]] \in {"Ok", "Err"} /\ PhaseFacts(c)
    BY <2>2, PhaseAt, CallTypes DEF SettledBy, AtomicInv, CarefulInv, TypeInv, TypeOK
  <2>4. Phase'[c] = Phase[c]
    BY <2>2, <2>3, <1>18, PhaseAt, CallTypes DEF StopReady, SettledBy, PhaseFacts
  <2> QED BY <2>1, <2>4, <1>18, LifeStutter DEF StopReady, lifecycleVars
<1>19. ASSUME UNCHANGED lifecycleVars, \A c \in LifecycleCalls : pc'[c] = pc[c]
      PROVE  [Life!Next]_Life!vars
  <2>1. \A d \in LifecycleCalls : Phase'[d] = Phase[d]
    BY <1>19, PhaseFrame DEF lifecycleVars
  <2> QED BY <2>1, <1>19, LifeStutter DEF lifecycleVars
<1> QED
  BY <1>1, <1>2, <1>3, <1>4, <1>5, <1>6, <1>7, <1>8, <1>9, <1>10, <1>11, <1>12, <1>13, <1>14, <1>15,
     <1>16, <1>17, <1>18, <1>19, UpdateFrame, RegistryFrame
  DEF Next, StartCallMade, StartStep, StopCallMade, StopStep, AllSettled, AtomicInv, CarefulInv,
      vars, lifecycleVars, taskVars

\* start() and stop() are atomic: the calls of a client that awaits before it
\* restarts implement the state machine of module Lifecycle, for any number
\* of calls, whatever updates run beside them (a panic of the blocking setup
\* excepted: it leaves the joined calls waiting).
THEOREM LifecycleRefinement ==
  ASSUME AwaitBeforeRestart, ~TaskPanics
  PROVE  Spec => LifecycleIsAtomic
<1>1. Init => AtomicInv /\ Life!Init
  <2> SUFFICES ASSUME Init PROVE AtomicInv /\ Life!Init
    OBVIOUS
  <2>1. CarefulInv
    BY InitCareful
  <2>2. NotifierInv /\ StopChannelInv /\ EpochInv
    BY CallTypes
    DEF Init, NotifierInv, StopChannelInv, StopWaitersServed, EpochInv, Stopper
  <2>3. Life!Init
    BY CallTypes DEF Init, Life!Init, Life!Calls, Phase
  <2> QED BY <2>1, <2>2, <2>3 DEF AtomicInv
<1>2. AtomicInv /\ [Next]_vars => AtomicInv'
  BY CarefulStep, NotifierStep, StopChannelStep, EpochStep DEF AtomicInv, CarefulInv
<1>3. AtomicInv /\ AtomicInv' /\ [Next]_vars => [Life!Next]_Life!vars
  BY LifeStep
<1> QED BY <1>1, <1>2, <1>3, PTL DEF Spec, LifecycleIsAtomic, Life!Spec
=============================================================================
