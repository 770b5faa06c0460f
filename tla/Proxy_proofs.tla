---------------------------- MODULE Proxy_proofs ----------------------------
(***************************************************************************)
(* Proofs about the proxy, for any sets of calls, applications and         *)
(* upstreams.                                                              *)
(***************************************************************************)
EXTENDS Proxy, Server_proofs

\* An update call that was made has its arguments, and they name a
\* configured application once the checks have passed.
ReqMade ==
  \A u \in UpdateCalls :
    /\ pc[u] # "idle" => req[u] \in Request
    /\ pc[u] \in {"rebuild", "services"} => req[u].app \in Applications

\* A lifecycle call that waits has a channel of the right kind to wait on.
RxMade ==
  /\ \A s \in StartCalls :
       /\ pc[s] \in {"setup", "lbs", "commit"} => rx[s] = s
       /\ pc[s] = "wait_ready" => rx[s] \in StartCalls
  /\ \A c \in StopCalls :
       /\ pc[c] = "wait_start" => rx[c] \in StartCalls \cup {None}
       /\ pc[c] = "wait_stop" => rx[c] \in StopCalls

\* The inductive strengthening of TypeOK: the registry's own invariant, the
\* arguments an update call computes with and the channels calls wait on.
TypeInv == TypeOK /\ ServerInv /\ ReqMade /\ RxMade

-----------------------------------------------------------------------------
(* What the helpers return.                                                *)

\* A pool's service name is a name of the registry.
LEMMA ServiceNameType ==
  ASSUME NEW k \in Keys
  PROVE  lb_service_name(k[1], k[2]) \in Names /\ lb_service_name(k[1], k[2]) # MainHttp
<1>1. lb_service_name(k[1], k[2]) \in Names
  BY RegistryAssumption DEF ServiceNames
<1>2. lb_service_name(k[1], k[2]) # MainHttp
  BY DEF lb_service_name, MainHttp
<1> QED BY <1>1, <1>2

\* The listener's service name is a name of the registry.
LEMMA MainHttpType == MainHttp \in Names
BY RegistryAssumption DEF ServiceNames

\* The health tasks that a start snapshots are well formed.
LEMMA InitialTasksType ==
  ASSUME pools \in [Keys -> PoolConfig \cup {None}]
  PROVE  initial_lb_tasks \subseteq HealthTask
<1> SUFFICES ASSUME NEW k \in Keys, pools[k] # None
             PROVE  [name |-> lb_service_name(k[1], k[2]), lb |-> pools[k].lb] \in HealthTask
  BY DEF initial_lb_tasks
<1>1. pools[k].lb \in UpdateCalls
  BY DEF PoolConfig
<1> QED BY <1>1, ServiceNameType DEF HealthTask

\* A rebuild gives each transport a pool or none.
LEMMA RebuiltPoolType ==
  ASSUME NEW u \in UpdateCalls, NEW upstreams \in SUBSET UpstreamArgs, NEW t \in TransportKind
  PROVE  RebuiltPool(u, upstreams, t) \in PoolConfig \cup {None}
<1> DEFINE list == {x \in upstreams : x.transport = t}
<1>1. {x.endpoint : x \in list} \in SUBSET Endpoints
  BY TableAssumption DEF PortUpstream
<1>2. (\E x \in list : x.secure) \in BOOLEAN
  OBVIOUS
<1> HIDE DEF list
<1>3. [lb |-> u, secure |-> \E x \in list : x.secure,
       backends |-> {x.endpoint : x \in list}] \in PoolConfig
  BY <1>1, <1>2 DEF PoolConfig
<1> QED BY <1>3 DEF RebuiltPool, list

\* Every call is a caller of the registry, and a balancer is an update call.
LEMMA CallTypes ==
  /\ StartCalls \subseteq Callers /\ StopCalls \subseteq Callers /\ UpdateCalls \subseteq Callers
  /\ LifecycleCalls = StartCalls \cup StopCalls
  /\ StartCalls \cap StopCalls = {} /\ LifecycleCalls \cap UpdateCalls = {}
  /\ None \notin Callers
  /\ Lbs = UpdateCalls
BY CallsAssumption, RegistryAssumption DEF LifecycleCalls

\* Every step of the proxy is a step of the registry or leaves it alone, so
\* the registry's invariant carries over.
LEMMA RegistryStep ==
  ASSUME TypeInv, [Next]_vars
  PROVE  ServerInv'
<1>1. ASSUME NEW s \in StartCalls, StartJoins(s) PROVE ServerInv'
  BY <1>1, ServerStutterInv DEF StartJoins, TypeInv
<1>2. ASSUME NEW s \in StartCalls, StartRefused(s) PROVE ServerInv'
  BY <1>2, ServerStutterInv DEF StartRefused, TypeInv
<1>3. ASSUME NEW s \in StartCalls, StartBegins(s) PROVE ServerInv'
  BY <1>3, ServerStutterInv DEF StartBegins, TypeInv
<1>4. ASSUME NEW s \in StartCalls, StartSetup(s) PROVE ServerInv'
  BY <1>4, ServerStutterInv DEF StartSetup, TypeInv
<1>5. ASSUME NEW s \in StartCalls, StartSetupFails(s) PROVE ServerInv'
  BY <1>5, ServerStutterInv DEF StartSetupFails, TypeInv
<1>6. ASSUME NEW s \in StartCalls, StartSetupPanics(s) PROVE ServerInv'
  BY <1>6, ServerStutterInv DEF StartSetupPanics, TypeInv
<1>7. ASSUME NEW s \in StartCalls, StartLbTask(s) PROVE ServerInv'
  BY <1>7, UpsertInv, CallTypes DEF StartLbTask, TypeInv, TypeOK, HealthTask
<1>8. ASSUME NEW s \in StartCalls, StartMainHttp(s) PROVE ServerInv'
  BY <1>8, UpsertInv, CallTypes, MainHttpType DEF StartMainHttp, TypeInv
<1>9. ASSUME NEW s \in StartCalls, StartCommits(s) PROVE ServerInv'
  BY <1>9, ServerStutterInv DEF StartCommits, TypeInv
<1>10. ASSUME NEW s \in StartCalls, StartCancelStopAll(s) PROVE ServerInv'
  BY <1>10, StopAllInv, CallTypes DEF StartCancelStopAll, TypeInv
<1>11. ASSUME NEW s \in StartCalls, StartCancelled(s) PROVE ServerInv'
  BY <1>11, ServerStutterInv DEF StartCancelled, TypeInv
<1>12. ASSUME NEW s \in StartCalls, StartReady(s) PROVE ServerInv'
  BY <1>12, ServerStutterInv DEF StartReady, TypeInv
<1>13. ASSUME NEW c \in StopCalls, StopFindsStopped(c) PROVE ServerInv'
  BY <1>13, ServerStutterInv DEF StopFindsStopped, TypeInv
<1>14. ASSUME NEW c \in StopCalls, StopJoins(c) PROVE ServerInv'
  BY <1>14, ServerStutterInv DEF StopJoins, TypeInv
<1>15. ASSUME NEW c \in StopCalls, StopBegins(c) PROVE ServerInv'
  BY <1>15, ServerStutterInv DEF StopBegins, TypeInv
<1>16. ASSUME NEW c \in StopCalls, StopStopsAll(c) PROVE ServerInv'
  BY <1>16, StopAllInv, CallTypes DEF StopStopsAll, TypeInv
<1>17. ASSUME NEW c \in StopCalls, StopFinishes(c) PROVE ServerInv'
  BY <1>17, ServerStutterInv DEF StopFinishes, StopEnds, TypeInv
<1>18. ASSUME NEW c \in StopCalls, StopReady(c) PROVE ServerInv'
  BY <1>18, ServerStutterInv DEF StopReady, TypeInv
<1>19. ASSUME NEW u \in UpdateCalls, UpdateCalled(u) PROVE ServerInv'
  BY <1>19, ServerStutterInv DEF UpdateCalled, TypeInv
<1>20. ASSUME NEW u \in UpdateCalls, UpdateRefused(u) PROVE ServerInv'
  BY <1>20, ServerStutterInv DEF UpdateRefused, TypeInv
<1>21. ASSUME NEW u \in UpdateCalls, UpdateChecked(u) PROVE ServerInv'
  BY <1>21, ServerStutterInv DEF UpdateChecked, UpdateReadsTable, TypeInv
<1>22. ASSUME NEW u \in UpdateCalls, UpdateRebuildFails(u) PROVE ServerInv'
  BY <1>22, ServerStutterInv DEF UpdateRebuildFails, TypeInv
<1>23. ASSUME NEW u \in UpdateCalls, UpdateCommits(u) PROVE ServerInv'
  BY <1>23, ServerStutterInv DEF UpdateCommits, TypeInv
<1>24. ASSUME NEW u \in UpdateCalls, UpdateUpserts(u) PROVE ServerInv'
  BY <1>24, UpsertInv, CallTypes DEF UpdateUpserts, TypeInv, TypeOK, HealthTask
<1>25. ASSUME NEW u \in UpdateCalls, UpdateRemoves(u) PROVE ServerInv'
  BY <1>25, RemoveInv, CallTypes DEF UpdateRemoves, TypeInv, TypeOK
<1>26. ASSUME NEW u \in UpdateCalls, UpdateDone(u) PROVE ServerInv'
  BY <1>26, ServerStutterInv DEF UpdateDone, TypeInv
<1>27. ASSUME NEW c \in Callers, SignalStep(c) PROVE ServerInv'
  BY <1>27, SignalInv DEF SignalStep, TypeInv
<1>28. ASSUME NEW h \in signalled, TaskStep(h) PROVE ServerInv'
  BY <1>28, TaskEndsInv DEF TaskStep, TypeInv
<1>29. CASE UNCHANGED vars
  BY <1>29, ServerStutterInv DEF vars, TypeInv
<1> QED
  BY <1>1, <1>2, <1>3, <1>4, <1>5, <1>6, <1>7, <1>8, <1>9, <1>10, <1>11, <1>12, <1>13, <1>14, <1>15,
     <1>16, <1>17, <1>18, <1>19, <1>20, <1>21, <1>22, <1>23, <1>24, <1>25, <1>26, <1>27, <1>28,
     <1>29
  DEF Next, StartCallMade, StartStep, StopCallMade, StopStep, UpdateStep, AllSettled

\* Every step preserves the types, and an update call past its checks names
\* a configured application.
LEMMA TypeStep ==
  ASSUME TypeInv, [Next]_vars
  PROVE  TypeInv'
<1>0. ServerInv' /\ ServerTypeOK'
  BY RegistryStep DEF ServerInv
<1>1. ASSUME NEW s \in StartCalls, StartJoins(s) PROVE TypeInv'
  BY <1>0, <1>1, CallTypes
  DEF StartJoins, TypeInv, TypeOK, ReqMade, RxMade, Goto, StartPc, StopPc, UpdatePc, Outcomes,
      ProxyState, lifecycleVars, tableVars, taskVars
<1>2. ASSUME NEW s \in StartCalls, StartRefused(s) PROVE TypeInv'
  BY <1>0, <1>2, CallTypes
  DEF StartRefused, TypeInv, TypeOK, ReqMade, RxMade, Goto, StartPc, StopPc, UpdatePc, Outcomes,
      ProxyState, lifecycleVars, tableVars, taskVars
<1>3. ASSUME NEW s \in StartCalls, StartBegins(s) PROVE TypeInv'
  BY <1>0, <1>3, CallTypes, InitialTasksType
  DEF StartBegins, TypeInv, TypeOK, ReqMade, RxMade, Goto, StartPc, StopPc, UpdatePc, Outcomes,
      ProxyState, lifecycleVars, tableVars, taskVars
<1>4. ASSUME NEW s \in StartCalls, StartSetup(s) PROVE TypeInv'
  BY <1>0, <1>4, CallTypes
  DEF StartSetup, TypeInv, TypeOK, ReqMade, RxMade, Goto, StartPc, StopPc, UpdatePc, Outcomes,
      ProxyState, lifecycleVars, tableVars, taskVars
<1>5. ASSUME NEW s \in StartCalls, StartSetupFails(s) PROVE TypeInv'
  BY <1>0, <1>5, CallTypes
  DEF StartSetupFails, TypeInv, TypeOK, ReqMade, RxMade, Goto, StartPc, StopPc, UpdatePc, Outcomes,
      ProxyState, TakeAndSend, lifecycleVars, tableVars, taskVars
<1>6. ASSUME NEW s \in StartCalls, StartSetupPanics(s) PROVE TypeInv'
  BY <1>0, <1>6, CallTypes
  DEF StartSetupPanics, TypeInv, TypeOK, ReqMade, RxMade, Goto, StartPc, StopPc, UpdatePc, Outcomes,
      ProxyState, lifecycleVars, tableVars, taskVars
<1>7. ASSUME NEW s \in StartCalls, StartLbTask(s) PROVE TypeInv'
  BY <1>0, <1>7, CallTypes
  DEF StartLbTask, TypeInv, TypeOK, ReqMade, RxMade, Goto, StartPc, StopPc, UpdatePc, Outcomes,
      ProxyState, lifecycleVars, tableVars, taskVars
<1>8. ASSUME NEW s \in StartCalls, StartMainHttp(s) PROVE TypeInv'
  BY <1>0, <1>8, CallTypes
  DEF StartMainHttp, TypeInv, TypeOK, ReqMade, RxMade, Goto, StartPc, StopPc, UpdatePc, Outcomes,
      ProxyState, lifecycleVars, tableVars, taskVars
<1>9. ASSUME NEW s \in StartCalls, StartCommits(s) PROVE TypeInv'
  BY <1>0, <1>9, CallTypes
  DEF StartCommits, TypeInv, TypeOK, ReqMade, RxMade, Goto, StartPc, StopPc, UpdatePc, Outcomes,
      ProxyState, TakeAndSend, lifecycleVars, tableVars, taskVars
<1>10. ASSUME NEW s \in StartCalls, StartCancelStopAll(s) PROVE TypeInv'
  BY <1>0, <1>10, CallTypes
  DEF StartCancelStopAll, TypeInv, TypeOK, ReqMade, RxMade, Goto, StartPc, StopPc, UpdatePc,
      Outcomes, ProxyState, lifecycleVars, tableVars, taskVars
<1>11. ASSUME NEW s \in StartCalls, StartCancelled(s) PROVE TypeInv'
  BY <1>0, <1>11, CallTypes
  DEF StartCancelled, TypeInv, TypeOK, ReqMade, RxMade, Goto, StartPc, StopPc, UpdatePc, Outcomes,
      ProxyState, lifecycleVars, tableVars, taskVars
<1>12. ASSUME NEW s \in StartCalls, StartReady(s) PROVE TypeInv'
  BY <1>0, <1>12, CallTypes
  DEF StartReady, TypeInv, TypeOK, ReqMade, RxMade, Goto, StartPc, StopPc, UpdatePc, Outcomes,
      ProxyState, SettledBy, lifecycleVars, tableVars, taskVars
<1>13. ASSUME NEW c \in StopCalls, StopFindsStopped(c) PROVE TypeInv'
  BY <1>0, <1>13, CallTypes
  DEF StopFindsStopped, TypeInv, TypeOK, ReqMade, RxMade, Goto, StartPc, StopPc, UpdatePc, Outcomes,
      ProxyState, lifecycleVars, tableVars, taskVars
<1>14. ASSUME NEW c \in StopCalls, StopJoins(c) PROVE TypeInv'
  BY <1>0, <1>14, CallTypes
  DEF StopJoins, TypeInv, TypeOK, ReqMade, RxMade, Goto, StartPc, StopPc, UpdatePc, Outcomes,
      ProxyState, lifecycleVars, tableVars, taskVars
<1>15. ASSUME NEW c \in StopCalls, StopBegins(c) PROVE TypeInv'
  BY <1>0, <1>15, CallTypes
  DEF StopBegins, TypeInv, TypeOK, ReqMade, RxMade, Goto, StartPc, StopPc, UpdatePc, Outcomes,
      ProxyState, lifecycleVars, tableVars, taskVars
<1>16. ASSUME NEW c \in StopCalls, StopStopsAll(c) PROVE TypeInv'
  BY <1>0, <1>16, CallTypes
  DEF StopStopsAll, TypeInv, TypeOK, ReqMade, RxMade, Goto, StartPc, StopPc, UpdatePc, Outcomes,
      ProxyState, lifecycleVars, tableVars, taskVars
<1>17. ASSUME NEW c \in StopCalls, StopFinishes(c) PROVE TypeInv'
  BY <1>0, <1>17, CallTypes
  DEF StopFinishes, StopEnds, TypeInv, TypeOK, ReqMade, RxMade, Goto, StartPc, StopPc, UpdatePc,
      Outcomes, ProxyState, TakeAndSend, lifecycleVars, tableVars, taskVars
<1>18. ASSUME NEW c \in StopCalls, StopReady(c) PROVE TypeInv'
  BY <1>0, <1>18, CallTypes
  DEF StopReady, TypeInv, TypeOK, ReqMade, RxMade, Goto, StartPc, StopPc, UpdatePc, Outcomes,
      ProxyState, SettledBy, lifecycleVars, tableVars, taskVars
<1>19. ASSUME NEW u \in UpdateCalls, UpdateCalled(u) PROVE TypeInv'
  BY <1>0, <1>19, CallTypes
  DEF UpdateCalled, TypeInv, TypeOK, ReqMade, RxMade, Goto, StartPc, StopPc, UpdatePc, Outcomes,
      ProxyState, MayBegin, lifecycleVars, tableVars, taskVars
<1>20. ASSUME NEW u \in UpdateCalls, UpdateRefused(u) PROVE TypeInv'
  BY <1>0, <1>20, CallTypes
  DEF UpdateRefused, TypeInv, TypeOK, ReqMade, RxMade, Goto, StartPc, StopPc, UpdatePc, Outcomes,
      ProxyState, lifecycleVars, tableVars, taskVars
<1>21. ASSUME NEW u \in UpdateCalls, UpdateChecked(u) PROVE TypeInv'
  BY <1>0, <1>21, CallTypes
  DEF UpdateChecked, UpdateReadsTable, TypeInv, TypeOK, ReqMade, RxMade, Goto, StartPc, StopPc,
      UpdatePc, Outcomes, ProxyState, Acceptable, Applied, Request, lifecycleVars, tableVars,
      taskVars
<1>22. ASSUME NEW u \in UpdateCalls, UpdateRebuildFails(u) PROVE TypeInv'
  BY <1>0, <1>22, CallTypes
  DEF UpdateRebuildFails, TypeInv, TypeOK, ReqMade, RxMade, Goto, StartPc, StopPc, UpdatePc,
      Outcomes, ProxyState, lifecycleVars, tableVars, taskVars
<1>23. ASSUME NEW u \in UpdateCalls, UpdateCommits(u) PROVE TypeInv'
  <2> DEFINE app == req[u].app
             new(k) == IF k[1] = app THEN RebuiltPool(u, next_upstreams[u], k[2]) ELSE pools[k]
             mine == {app} \X TransportKind
             up == {[name |-> lb_service_name(k[1], k[2]), lb |-> u] :
                     k \in {k \in mine : new(k) # None}}
             gone == {lb_service_name(k[1], k[2]) :
                     k \in {k \in mine : new(k) = None /\ pools[k] # None}}
  <2>1. app \in Applications /\ next_upstreams[u] \in SUBSET UpstreamArgs /\ mine \subseteq Keys
    BY <1>23, CallTypes DEF UpdateCommits, TypeInv, ReqMade, TypeOK, Keys
  <2>2. \A k \in Keys : new(k) \in PoolConfig \cup {None}
    BY <2>1, RebuiltPoolType DEF Keys, TypeInv, TypeOK
  <2>3. up \in SUBSET HealthTask /\ gone \in SUBSET Names
    BY <2>1, ServiceNameType DEF HealthTask
  <2>4. /\ pools' = [k \in Keys |-> new(k)]
        /\ router_config' = build_router_config(pools')
        /\ upstreams_by_app' = [upstreams_by_app EXCEPT ![app] = next_upstreams[u]]
        /\ todo' = [todo EXCEPT ![u] = IF state = "Running" THEN up ELSE {}]
        /\ to_remove' = [to_remove EXCEPT ![u] = IF state = "Running" THEN gone ELSE {}]
        /\ pc' = [pc EXCEPT ![u] = "services"]
        /\ UNCHANGED <<lifecycleVars, update_lock, req, next_upstreams>>
    BY <1>23 DEF UpdateCommits, Goto
  <2> HIDE DEF app, new, mine, up, gone
  <2>5. ReqMade'
    BY <2>1, <2>4, CallTypes, <1>23 DEF TypeInv, ReqMade, TypeOK, app, UpdateCommits
  <2>6. pools' \in [Keys -> PoolConfig \cup {None}] /\ router_config' \in [Keys -> PoolConfig \cup {None}]
    BY <2>2, <2>4 DEF build_router_config
  <2>7. todo' \in [Callers -> SUBSET HealthTask] /\ to_remove' \in [UpdateCalls -> SUBSET Names]
    BY <2>3, <2>4 DEF TypeInv, TypeOK
  <2>8. upstreams_by_app' \in [Applications -> SUBSET UpstreamArgs]
    BY <2>1, <2>4 DEF TypeInv, TypeOK
  <2>9. /\ pc' \in [Callers -> StartPc \cup StopPc \cup UpdatePc \cup Outcomes]
        /\ \A s \in StartCalls : pc'[s] \in StartPc \cup Outcomes
        /\ \A c \in StopCalls : pc'[c] \in StopPc \cup Outcomes
        /\ \A v \in UpdateCalls : pc'[v] \in UpdatePc \cup {"resolved", "rejected"}
    BY <2>4, CallTypes DEF TypeInv, TypeOK, UpdatePc
  <2>10. RxMade'
    BY <2>4, CallTypes DEF TypeInv, TypeOK, RxMade, lifecycleVars
  <2> QED BY <1>0, <2>10, <2>4, <2>5, <2>6, <2>7, <2>8, <2>9 DEF TypeInv, TypeOK, lifecycleVars
<1>24. ASSUME NEW u \in UpdateCalls, UpdateUpserts(u) PROVE TypeInv'
  BY <1>0, <1>24, CallTypes
  DEF UpdateUpserts, TypeInv, TypeOK, ReqMade, RxMade, Goto, StartPc, StopPc, UpdatePc, Outcomes,
      ProxyState, lifecycleVars, tableVars, taskVars
<1>25. ASSUME NEW u \in UpdateCalls, UpdateRemoves(u) PROVE TypeInv'
  BY <1>0, <1>25, CallTypes
  DEF UpdateRemoves, TypeInv, TypeOK, ReqMade, RxMade, Goto, StartPc, StopPc, UpdatePc, Outcomes,
      ProxyState, lifecycleVars, tableVars, taskVars
<1>26. ASSUME NEW u \in UpdateCalls, UpdateDone(u) PROVE TypeInv'
  BY <1>0, <1>26, CallTypes
  DEF UpdateDone, TypeInv, TypeOK, ReqMade, RxMade, Goto, StartPc, StopPc, UpdatePc, Outcomes,
      ProxyState, lifecycleVars, tableVars, taskVars
<1>27. ASSUME NEW c \in Callers, SignalStep(c) PROVE TypeInv'
  BY <1>0, <1>27, CallTypes
  DEF SignalStep, TypeInv, TypeOK, ReqMade, RxMade, Goto, StartPc, StopPc, UpdatePc, Outcomes,
      ProxyState, lifecycleVars, tableVars, taskVars
<1>28. ASSUME NEW h \in signalled, TaskStep(h) PROVE TypeInv'
  BY <1>0, <1>28, CallTypes
  DEF TaskStep, TypeInv, TypeOK, ReqMade, RxMade, Goto, StartPc, StopPc, UpdatePc, Outcomes,
      ProxyState, lifecycleVars, tableVars, taskVars
<1>29. CASE UNCHANGED vars
  BY <1>0, <1>29, CallTypes
  DEF vars, TypeInv, TypeOK, ReqMade, RxMade, Goto, StartPc, StopPc, UpdatePc, Outcomes, ProxyState,
      lifecycleVars, tableVars, taskVars
<1> QED
  BY <1>1, <1>2, <1>3, <1>4, <1>5, <1>6, <1>7, <1>8, <1>9, <1>10, <1>11, <1>12, <1>13, <1>14, <1>15,
     <1>16, <1>17, <1>18, <1>19, <1>20, <1>21, <1>22, <1>23, <1>24, <1>25, <1>26, <1>27, <1>28,
     <1>29
  DEF Next, StartCallMade, StartStep, StopCallMade, StopStep, UpdateStep, AllSettled

-----------------------------------------------------------------------------
(* What the steps of one kind of call leave alone.                         *)

\* start() leaves the table and the update calls alone.
LEMMA StartFrame ==
  ASSUME TypeInv, NEW s \in StartCalls, StartCallMade(s) \/ StartStep(s)
  PROVE  UNCHANGED tableVars /\ \A u \in UpdateCalls : pc'[u] = pc[u]
BY CallTypes
DEF StartCallMade, StartStep, StartJoins, StartRefused, StartBegins, StartSetup, StartSetupFails,
    StartSetupPanics, StartLbTask, StartMainHttp, StartCommits, StartCancelStopAll,
    StartCancelled, StartReady, Goto, TypeInv, TypeOK

\* stop() leaves the table and the update calls alone.
LEMMA StopFrame ==
  ASSUME TypeInv, NEW c \in StopCalls, StopCallMade(c) \/ StopStep(c)
  PROVE  UNCHANGED tableVars /\ \A u \in UpdateCalls : pc'[u] = pc[u]
BY CallTypes
DEF StopCallMade, StopStep, StopFindsStopped, StopJoins, StopBegins, StopStopsAll, StopFinishes,
    StopEnds, StopReady, Goto, TypeInv, TypeOK

\* addUpstream and removeUpstream leave the lifecycle alone.
LEMMA UpdateFrame ==
  ASSUME TypeInv, NEW u \in UpdateCalls, UpdateCalled(u) \/ UpdateStep(u)
  PROVE  UNCHANGED lifecycleVars /\ \A c \in LifecycleCalls : pc'[c] = pc[c]
BY CallTypes
DEF UpdateStep, UpdateCalled, UpdateRefused, UpdateChecked, UpdateReadsTable, UpdateRebuildFails,
    UpdateCommits, UpdateUpserts, UpdateRemoves, UpdateDone, Goto, TypeInv, TypeOK

\* The ends of background tasks leave the calls and ProxyInner alone.
LEMMA RegistryFrame ==
  ASSUME (\E c \in Callers : SignalStep(c)) \/ (\E h \in signalled : TaskStep(h))
  PROVE  UNCHANGED <<lifecycleVars, tableVars, taskVars>>
BY DEF SignalStep, TaskStep

-----------------------------------------------------------------------------
\* A new proxy satisfies the type invariant.
LEMMA InitTypeInv == Init => TypeInv
BY ServerInitInv, CallTypes
DEF Init, TypeInv, TypeOK, ReqMade, RxMade, ServerInv, ProxyState, StartPc, StopPc, UpdatePc,
    build_router_config

\* Types, the registry's own invariant, requests and channels hold throughout
\* every behaviour.
LEMMA TypeInvariant == Spec => []TypeInv
<1>1. Init => TypeInv
  BY InitTypeInv
<1>2. TypeInv /\ [Next]_vars => TypeInv'
  BY TypeStep
<1> QED BY <1>1, <1>2, PTL DEF Spec

\* Type correctness of the whole proxy: every operation keeps each field of
\* ProxyInner in its type.
THEOREM TypeCorrect == Spec => []TypeOK
<1>1. TypeInv => TypeOK
  BY DEF TypeInv
<1> QED BY <1>1, TypeInvariant, PTL

\* Whatever the calls of the proxy do to the registry, a registered task is
\* running and was not told to end.
THEOREM RegistryIsServing == Spec => []RegisteredIsServing
<1>1. TypeInv => RegisteredIsServing
  BY DEF TypeInv, ServerInv
<1> QED BY <1>1, TypeInvariant, PTL

-----------------------------------------------------------------------------
(* Any client.                                                             *)

\* In Starting and in Stopping the notifier that a joining call needs is
\* stored, so none of them dies of a missing one.
NotifierInv ==
  /\ state = "Starting" => start_notifier # None
  /\ state = "Stopping" => stop_notifier # None
  /\ \A c \in LifecycleCalls : pc[c] # "internal"

\* Every step keeps the needed notifier stored.
LEMMA NotifierStep ==
  ASSUME TypeInv, NotifierInv, [Next]_vars
  PROVE  NotifierInv'
<1>1. ASSUME NEW s \in StartCalls, StartJoins(s) PROVE NotifierInv'
  BY <1>1, CallTypes
  DEF StartJoins, NotifierInv, TypeInv, TypeOK, Goto
<1>2. ASSUME NEW s \in StartCalls, StartRefused(s) PROVE NotifierInv'
  BY <1>2, CallTypes
  DEF StartRefused, NotifierInv, TypeInv, TypeOK, Goto, lifecycleVars
<1>3. ASSUME NEW s \in StartCalls, StartBegins(s) PROVE NotifierInv'
  BY <1>3, CallTypes
  DEF StartBegins, NotifierInv, TypeInv, TypeOK, Goto
<1>4. ASSUME NEW s \in StartCalls, StartSetup(s) PROVE NotifierInv'
  BY <1>4, CallTypes
  DEF StartSetup, NotifierInv, TypeInv, TypeOK, Goto, lifecycleVars
<1>5. ASSUME NEW s \in StartCalls, StartSetupFails(s) PROVE NotifierInv'
  BY <1>5, CallTypes
  DEF StartSetupFails, NotifierInv, TypeInv, TypeOK, Goto
<1>6. ASSUME NEW s \in StartCalls, StartSetupPanics(s) PROVE NotifierInv'
  BY <1>6, CallTypes
  DEF StartSetupPanics, NotifierInv, TypeInv, TypeOK, Goto, lifecycleVars
<1>7. ASSUME NEW s \in StartCalls, StartLbTask(s) PROVE NotifierInv'
  BY <1>7, CallTypes
  DEF StartLbTask, NotifierInv, TypeInv, TypeOK, lifecycleVars
<1>8. ASSUME NEW s \in StartCalls, StartMainHttp(s) PROVE NotifierInv'
  BY <1>8, CallTypes
  DEF StartMainHttp, NotifierInv, TypeInv, TypeOK, Goto, lifecycleVars
<1>9. ASSUME NEW s \in StartCalls, StartCommits(s) PROVE NotifierInv'
  BY <1>9, CallTypes
  DEF StartCommits, NotifierInv, TypeInv, TypeOK, Goto
<1>10. ASSUME NEW s \in StartCalls, StartCancelStopAll(s) PROVE NotifierInv'
  BY <1>10, CallTypes
  DEF StartCancelStopAll, NotifierInv, TypeInv, TypeOK, Goto, lifecycleVars
<1>11. ASSUME NEW s \in StartCalls, StartCancelled(s) PROVE NotifierInv'
  BY <1>11, CallTypes
  DEF StartCancelled, NotifierInv, TypeInv, TypeOK, Goto
<1>12. ASSUME NEW s \in StartCalls, StartReady(s) PROVE NotifierInv'
  BY <1>12, CallTypes
  DEF StartReady, NotifierInv, TypeInv, TypeOK, Goto, SettledBy, RxMade, lifecycleVars
<1>13. ASSUME NEW c \in StopCalls, StopFindsStopped(c) PROVE NotifierInv'
  BY <1>13, CallTypes
  DEF StopFindsStopped, NotifierInv, TypeInv, TypeOK, Goto
<1>14. ASSUME NEW c \in StopCalls, StopJoins(c) PROVE NotifierInv'
  BY <1>14, CallTypes
  DEF StopJoins, NotifierInv, TypeInv, TypeOK, Goto
<1>15. ASSUME NEW c \in StopCalls, StopBegins(c) PROVE NotifierInv'
  BY <1>15, CallTypes
  DEF StopBegins, NotifierInv, TypeInv, TypeOK, Goto
<1>16. ASSUME NEW c \in StopCalls, StopStopsAll(c) PROVE NotifierInv'
  BY <1>16, CallTypes
  DEF StopStopsAll, NotifierInv, TypeInv, TypeOK, Goto, lifecycleVars
<1>17. ASSUME NEW c \in StopCalls, StopFinishes(c) PROVE NotifierInv'
  BY <1>17, CallTypes
  DEF StopFinishes, StopEnds, NotifierInv, TypeInv, TypeOK, Goto
<1>18. ASSUME NEW c \in StopCalls, StopReady(c) PROVE NotifierInv'
  BY <1>18, CallTypes
  DEF StopReady, NotifierInv, TypeInv, TypeOK, Goto, SettledBy, RxMade, lifecycleVars
<1>19. ASSUME UNCHANGED lifecycleVars, \A c \in LifecycleCalls : pc'[c] = pc[c]
      PROVE  NotifierInv'
  BY <1>19, CallTypes
  DEF NotifierInv, TypeInv, TypeOK, UpdatePc, lifecycleVars
<1> QED
  BY <1>1, <1>2, <1>3, <1>4, <1>5, <1>6, <1>7, <1>8, <1>9, <1>10, <1>11, <1>12, <1>13, <1>14, <1>15,
     <1>16, <1>17, <1>18, <1>19, UpdateFrame, RegistryFrame
  DEF Next, StartCallMade, StartStep, StopCallMade, StopStep, AllSettled, vars, lifecycleVars,
      taskVars

\* A stop() waits on the stored sender until a value was sent.
StopChannelInv ==
  /\ \A c \in StopCalls :
       pc[c] = "wait_stop" /\ status[rx[c]] = "Pending" => stop_notifier = rx[c]
  /\ StopWaitersServed

\* Every step keeps the stop channels open until they are answered.
LEMMA StopChannelStep ==
  ASSUME TypeInv, StopChannelInv, [Next]_vars
  PROVE  StopChannelInv'
<1>1. ASSUME NEW s \in StartCalls, StartJoins(s) PROVE StopChannelInv'
  BY <1>1, CallTypes
  DEF StartJoins, StopChannelInv, StopWaitersServed, TypeInv, TypeOK, RxMade, Goto
<1>2. ASSUME NEW s \in StartCalls, StartRefused(s) PROVE StopChannelInv'
  BY <1>2, CallTypes
  DEF StartRefused, StopChannelInv, StopWaitersServed, TypeInv, TypeOK, RxMade, Goto, lifecycleVars
<1>3. ASSUME NEW s \in StartCalls, StartBegins(s) PROVE StopChannelInv'
  BY <1>3, CallTypes
  DEF StartBegins, StopChannelInv, StopWaitersServed, TypeInv, TypeOK, RxMade, Goto
<1>4. ASSUME NEW s \in StartCalls, StartSetup(s) PROVE StopChannelInv'
  BY <1>4, CallTypes
  DEF StartSetup, StopChannelInv, StopWaitersServed, TypeInv, TypeOK, RxMade, Goto, lifecycleVars
<1>5. ASSUME NEW s \in StartCalls, StartSetupFails(s) PROVE StopChannelInv'
  BY <1>5, CallTypes
  DEF StartSetupFails, StopChannelInv, StopWaitersServed, TypeInv, TypeOK, RxMade, Goto, TakeAndSend
<1>6. ASSUME NEW s \in StartCalls, StartSetupPanics(s) PROVE StopChannelInv'
  BY <1>6, CallTypes
  DEF StartSetupPanics, StopChannelInv, StopWaitersServed, TypeInv, TypeOK, RxMade, Goto,
      lifecycleVars
<1>7. ASSUME NEW s \in StartCalls, StartLbTask(s) PROVE StopChannelInv'
  BY <1>7, CallTypes
  DEF StartLbTask, StopChannelInv, StopWaitersServed, TypeInv, TypeOK, RxMade, lifecycleVars
<1>8. ASSUME NEW s \in StartCalls, StartMainHttp(s) PROVE StopChannelInv'
  BY <1>8, CallTypes
  DEF StartMainHttp, StopChannelInv, StopWaitersServed, TypeInv, TypeOK, RxMade, Goto, lifecycleVars
<1>9. ASSUME NEW s \in StartCalls, StartCommits(s) PROVE StopChannelInv'
  BY <1>9, CallTypes
  DEF StartCommits, StopChannelInv, StopWaitersServed, TypeInv, TypeOK, RxMade, Goto, TakeAndSend
<1>10. ASSUME NEW s \in StartCalls, StartCancelStopAll(s) PROVE StopChannelInv'
  BY <1>10, CallTypes
  DEF StartCancelStopAll, StopChannelInv, StopWaitersServed, TypeInv, TypeOK, RxMade, Goto,
      lifecycleVars
<1>11. ASSUME NEW s \in StartCalls, StartCancelled(s) PROVE StopChannelInv'
  BY <1>11, CallTypes
  DEF StartCancelled, StopChannelInv, StopWaitersServed, TypeInv, TypeOK, RxMade, Goto
<1>12. ASSUME NEW s \in StartCalls, StartReady(s) PROVE StopChannelInv'
  BY <1>12, CallTypes
  DEF StartReady, StopChannelInv, StopWaitersServed, TypeInv, TypeOK, RxMade, Goto, SettledBy,
      Answered, lifecycleVars
<1>13. ASSUME NEW c \in StopCalls, StopFindsStopped(c) PROVE StopChannelInv'
  BY <1>13, CallTypes
  DEF StopFindsStopped, StopChannelInv, StopWaitersServed, TypeInv, TypeOK, RxMade, Goto
<1>14. ASSUME NEW c \in StopCalls, StopJoins(c) PROVE StopChannelInv'
  BY <1>14, CallTypes
  DEF StopJoins, StopChannelInv, StopWaitersServed, TypeInv, TypeOK, RxMade, Goto
<1>15. ASSUME NEW c \in StopCalls, StopBegins(c) PROVE StopChannelInv'
  BY <1>15, CallTypes
  DEF StopBegins, StopChannelInv, StopWaitersServed, TypeInv, TypeOK, RxMade, Goto
<1>16. ASSUME NEW c \in StopCalls, StopStopsAll(c) PROVE StopChannelInv'
  BY <1>16, CallTypes
  DEF StopStopsAll, StopChannelInv, StopWaitersServed, TypeInv, TypeOK, RxMade, Goto, lifecycleVars
<1>17. ASSUME NEW c \in StopCalls, StopFinishes(c) PROVE StopChannelInv'
  BY <1>17, CallTypes
  DEF StopFinishes, StopEnds, StopChannelInv, StopWaitersServed, TypeInv, TypeOK, RxMade, Goto,
      TakeAndSend
<1>18. ASSUME NEW c \in StopCalls, StopReady(c) PROVE StopChannelInv'
  BY <1>18, CallTypes
  DEF StopReady, StopChannelInv, StopWaitersServed, TypeInv, TypeOK, RxMade, Goto, SettledBy,
      Answered, lifecycleVars
<1>19. ASSUME UNCHANGED lifecycleVars, \A c \in LifecycleCalls : pc'[c] = pc[c]
      PROVE  StopChannelInv'
  BY <1>19, CallTypes
  DEF StopChannelInv, StopWaitersServed, TypeInv, TypeOK, RxMade, lifecycleVars
<1> QED
  BY <1>1, <1>2, <1>3, <1>4, <1>5, <1>6, <1>7, <1>8, <1>9, <1>10, <1>11, <1>12, <1>13, <1>14, <1>15,
     <1>16, <1>17, <1>18, <1>19, UpdateFrame, RegistryFrame
  DEF Next, StartCallMade, StartStep, StopCallMade, StopStep, AllSettled, vars, lifecycleVars,
      taskVars

\* Only a call inside a registry operation holds handles: it reaches its next
\* step, and its end, when all of them have been awaited.
HeldInv ==
  \A c \in Callers :
    held[c] # {} => pc[c] \in {"lbs", "commit", "cancel_drain", "drain", "services"}

\* Every step leaves handles only with calls inside an operation.
LEMMA HeldStep ==
  ASSUME TypeInv, HeldInv, [Next]_vars
  PROVE  HeldInv'
<1>1. ASSUME NEW s \in StartCalls, StartJoins(s) PROVE HeldInv'
  BY <1>1, CallTypes
  DEF StartJoins, HeldInv, TypeInv, TypeOK, ServerTypeOK, Goto, MayBegin, serverVars, taskVars
<1>2. ASSUME NEW s \in StartCalls, StartRefused(s) PROVE HeldInv'
  BY <1>2, CallTypes
  DEF StartRefused, HeldInv, TypeInv, TypeOK, ServerTypeOK, Goto, MayBegin, serverVars, taskVars
<1>3. ASSUME NEW s \in StartCalls, StartBegins(s) PROVE HeldInv'
  BY <1>3, CallTypes
  DEF StartBegins, HeldInv, TypeInv, TypeOK, ServerTypeOK, Goto, MayBegin, serverVars, taskVars
<1>4. ASSUME NEW s \in StartCalls, StartSetup(s) PROVE HeldInv'
  BY <1>4, CallTypes
  DEF StartSetup, HeldInv, TypeInv, TypeOK, ServerTypeOK, Goto, Returned, serverVars, taskVars
<1>5. ASSUME NEW s \in StartCalls, StartSetupFails(s) PROVE HeldInv'
  BY <1>5, CallTypes
  DEF StartSetupFails, HeldInv, TypeInv, TypeOK, ServerTypeOK, Goto, Returned, serverVars, taskVars
<1>6. ASSUME NEW s \in StartCalls, StartSetupPanics(s) PROVE HeldInv'
  BY <1>6, CallTypes
  DEF StartSetupPanics, HeldInv, TypeInv, TypeOK, ServerTypeOK, Goto, Returned, serverVars, taskVars
<1>7. ASSUME NEW s \in StartCalls, StartLbTask(s) PROVE HeldInv'
  BY <1>7, CallTypes
  DEF StartLbTask, HeldInv, TypeInv, TypeOK, ServerTypeOK, Goto, Returned, upsert_service,
      serverVars, taskVars
<1>8. ASSUME NEW s \in StartCalls, StartMainHttp(s) PROVE HeldInv'
  BY <1>8, CallTypes
  DEF StartMainHttp, HeldInv, TypeInv, TypeOK, ServerTypeOK, Goto, Returned, upsert_service,
      serverVars, taskVars
<1>9. ASSUME NEW s \in StartCalls, StartCommits(s) PROVE HeldInv'
  BY <1>9, CallTypes
  DEF StartCommits, HeldInv, TypeInv, TypeOK, ServerTypeOK, Goto, Returned, serverVars, taskVars
<1>10. ASSUME NEW s \in StartCalls, StartCancelStopAll(s) PROVE HeldInv'
  BY <1>10, CallTypes
  DEF StartCancelStopAll, HeldInv, TypeInv, TypeOK, ServerTypeOK, Goto, Returned, stop_all,
      serverVars, taskVars
<1>11. ASSUME NEW s \in StartCalls, StartCancelled(s) PROVE HeldInv'
  BY <1>11, CallTypes
  DEF StartCancelled, HeldInv, TypeInv, TypeOK, ServerTypeOK, Goto, Returned, serverVars, taskVars
<1>12. ASSUME NEW s \in StartCalls, StartReady(s) PROVE HeldInv'
  BY <1>12, CallTypes
  DEF StartReady, HeldInv, TypeInv, TypeOK, ServerTypeOK, Goto, Returned, SettledBy, RxMade,
      serverVars, taskVars
<1>13. ASSUME NEW c \in StopCalls, StopFindsStopped(c) PROVE HeldInv'
  BY <1>13, CallTypes
  DEF StopFindsStopped, HeldInv, TypeInv, TypeOK, ServerTypeOK, Goto, MayBegin, serverVars, taskVars
<1>14. ASSUME NEW c \in StopCalls, StopJoins(c) PROVE HeldInv'
  BY <1>14, CallTypes
  DEF StopJoins, HeldInv, TypeInv, TypeOK, ServerTypeOK, Goto, MayBegin, serverVars, taskVars
<1>15. ASSUME NEW c \in StopCalls, StopBegins(c) PROVE HeldInv'
  BY <1>15, CallTypes
  DEF StopBegins, HeldInv, TypeInv, TypeOK, ServerTypeOK, Goto, MayBegin, serverVars, taskVars
<1>16. ASSUME NEW c \in StopCalls, StopStopsAll(c) PROVE HeldInv'
  BY <1>16, CallTypes
  DEF StopStopsAll, HeldInv, TypeInv, TypeOK, ServerTypeOK, Goto, Returned, stop_all, serverVars,
      taskVars
<1>17. ASSUME NEW c \in StopCalls, StopFinishes(c) PROVE HeldInv'
  BY <1>17, CallTypes
  DEF StopFinishes, StopEnds, HeldInv, TypeInv, TypeOK, ServerTypeOK, Goto, Returned, serverVars,
      taskVars
<1>18. ASSUME NEW c \in StopCalls, StopReady(c) PROVE HeldInv'
  BY <1>18, CallTypes
  DEF StopReady, HeldInv, TypeInv, TypeOK, ServerTypeOK, Goto, Returned, SettledBy, RxMade,
      serverVars, taskVars
<1>19. ASSUME NEW u \in UpdateCalls, UpdateCalled(u) PROVE HeldInv'
  BY <1>19, CallTypes
  DEF UpdateCalled, HeldInv, TypeInv, TypeOK, ServerTypeOK, Goto, MayBegin, serverVars, taskVars
<1>20. ASSUME NEW u \in UpdateCalls, UpdateRefused(u) PROVE HeldInv'
  BY <1>20, CallTypes
  DEF UpdateRefused, HeldInv, TypeInv, TypeOK, ServerTypeOK, Goto, Returned, serverVars, taskVars
<1>21. ASSUME NEW u \in UpdateCalls, UpdateChecked(u) PROVE HeldInv'
  BY <1>21, CallTypes
  DEF UpdateChecked, UpdateReadsTable, HeldInv, TypeInv, TypeOK, ServerTypeOK, Goto, Returned,
      serverVars, taskVars
<1>22. ASSUME NEW u \in UpdateCalls, UpdateRebuildFails(u) PROVE HeldInv'
  BY <1>22, CallTypes
  DEF UpdateRebuildFails, HeldInv, TypeInv, TypeOK, ServerTypeOK, Goto, Returned, serverVars,
      taskVars
<1>23. ASSUME NEW u \in UpdateCalls, UpdateCommits(u) PROVE HeldInv'
  BY <1>23, CallTypes
  DEF UpdateCommits, HeldInv, TypeInv, TypeOK, ServerTypeOK, Goto, Returned, serverVars, taskVars
<1>24. ASSUME NEW u \in UpdateCalls, UpdateUpserts(u) PROVE HeldInv'
  BY <1>24, CallTypes
  DEF UpdateUpserts, HeldInv, TypeInv, TypeOK, ServerTypeOK, Goto, Returned, upsert_service,
      serverVars, taskVars
<1>25. ASSUME NEW u \in UpdateCalls, UpdateRemoves(u) PROVE HeldInv'
  BY <1>25, CallTypes
  DEF UpdateRemoves, HeldInv, TypeInv, TypeOK, ServerTypeOK, Goto, Returned, remove_service,
      serverVars, taskVars
<1>26. ASSUME NEW u \in UpdateCalls, UpdateDone(u) PROVE HeldInv'
  BY <1>26, CallTypes
  DEF UpdateDone, HeldInv, TypeInv, TypeOK, ServerTypeOK, Goto, Returned, serverVars, taskVars
<1>27. ASSUME NEW c \in Callers, SignalStep(c) PROVE HeldInv'
  BY <1>27, CallTypes
  DEF SignalStep, HeldInv, TypeInv, TypeOK, ServerTypeOK, Goto, Returned, Signal, serverVars,
      taskVars
<1>28. ASSUME NEW h \in signalled, TaskStep(h) PROVE HeldInv'
  BY <1>28, CallTypes
  DEF TaskStep, HeldInv, TypeInv, TypeOK, ServerTypeOK, Goto, Returned, TaskEnds, serverVars,
      taskVars
<1>29. CASE UNCHANGED vars
  BY <1>29, CallTypes
  DEF vars, HeldInv, TypeInv, TypeOK, ServerTypeOK, Goto, Returned, serverVars, taskVars
<1> QED
  BY <1>1, <1>2, <1>3, <1>4, <1>5, <1>6, <1>7, <1>8, <1>9, <1>10, <1>11, <1>12, <1>13, <1>14, <1>15,
     <1>16, <1>17, <1>18, <1>19, <1>20, <1>21, <1>22, <1>23, <1>24, <1>25, <1>26, <1>27, <1>28,
     <1>29
  DEF Next, StartCallMade, StartStep, StopCallMade, StopStep, UpdateStep, AllSettled

\* Whatever the client does, no call dies of a missing notifier: while the
\* state says Starting or Stopping, the sender a joining call subscribes to
\* is stored.
THEOREM NotifierIsStored == Spec => []NoInternalError
<1>1. Init => TypeInv /\ NotifierInv
  BY InitTypeInv, CallTypes DEF Init, NotifierInv, NoInternalError
<1>2. TypeInv /\ NotifierInv /\ [Next]_vars => TypeInv' /\ NotifierInv'
  BY TypeStep, NotifierStep
<1>3. TypeInv /\ NotifierInv => NoInternalError
  BY CallsAssumption DEF TypeInv, TypeOK, UpdatePc, NotifierInv, NoInternalError
<1> QED BY <1>1, <1>2, <1>3, PTL DEF Spec

\* Whatever the client does, a stop() that joined another one is answered
\* with a result.
THEOREM JoinedStopIsAnswered == Spec => []StopWaitersServed
<1>1. Init => TypeInv /\ StopChannelInv
  BY InitTypeInv, CallTypes DEF Init, StopChannelInv, StopWaitersServed
<1>2. TypeInv /\ StopChannelInv /\ [Next]_vars => TypeInv' /\ StopChannelInv'
  BY TypeStep, StopChannelStep
<1>3. StopChannelInv => StopWaitersServed
  BY DEF StopChannelInv
<1> QED BY <1>1, <1>2, <1>3, PTL DEF Spec

\* Whatever the client does, a background task that is not registered any
\* more is awaited by a call that is still running.
THEOREM TasksAreOwned == Spec => []NoTaskOrphaned
<1>1. Init => TypeInv /\ HeldInv
  BY InitTypeInv DEF Init, ServerInit, HeldInv
<1>2. TypeInv /\ HeldInv /\ [Next]_vars => TypeInv' /\ HeldInv'
  BY TypeStep, HeldStep
<1>3. TypeInv /\ HeldInv => NoTaskOrphaned
  BY DEF TypeInv, HeldInv, ServerInv, NoHandleLost, NoTaskOrphaned, InFlight, Settled, Outcomes
<1> QED BY <1>1, <1>2, <1>3, PTL DEF Spec

-----------------------------------------------------------------------------
(* The upstream table.                                                     *)

\* What the update lock protects: the call between its check and its commit
\* is the lock's holder, so the table it read is still the current one.
LockInv ==
  \A u \in UpdateCalls :
    /\ pc[u] = "idle" => req[u] = None
    /\ pc[u] \in {"rebuild", "services"} => update_lock = u
    /\ pc[u] = "rebuild" =>
         /\ Acceptable(req[u])
         /\ next_upstreams[u] = Applied(req[u], upstreams_by_app[req[u].app])

\* Every step respects the update lock.
LEMMA LockStep ==
  ASSUME TypeInv, LockInv, [Next]_vars
  PROVE  LockInv'
<1>1. ASSUME NEW u \in UpdateCalls, UpdateCalled(u) PROVE LockInv'
  BY <1>1, CallTypes
  DEF UpdateCalled, LockInv, TypeInv, TypeOK, Goto, MayBegin, Acceptable
<1>2. ASSUME NEW u \in UpdateCalls, UpdateRefused(u) PROVE LockInv'
  BY <1>2, CallTypes
  DEF UpdateRefused, LockInv, TypeInv, TypeOK, Goto, tableVars, Acceptable
<1>3. ASSUME NEW u \in UpdateCalls, UpdateChecked(u) PROVE LockInv'
  BY <1>3, CallTypes
  DEF UpdateChecked, UpdateReadsTable, LockInv, TypeInv, TypeOK, Goto, Acceptable
<1>4. ASSUME NEW u \in UpdateCalls, UpdateRebuildFails(u) PROVE LockInv'
  BY <1>4, CallTypes
  DEF UpdateRebuildFails, LockInv, TypeInv, TypeOK, Goto, Acceptable
<1>5. ASSUME NEW u \in UpdateCalls, UpdateCommits(u) PROVE LockInv'
  BY <1>5, CallTypes
  DEF UpdateCommits, LockInv, TypeInv, TypeOK, Goto, Acceptable
<1>6. ASSUME NEW u \in UpdateCalls, UpdateUpserts(u) PROVE LockInv'
  BY <1>6
  DEF UpdateUpserts, LockInv, Acceptable, tableVars
<1>7. ASSUME NEW u \in UpdateCalls, UpdateRemoves(u) PROVE LockInv'
  BY <1>7
  DEF UpdateRemoves, LockInv, Acceptable, tableVars
<1>8. ASSUME NEW u \in UpdateCalls, UpdateDone(u) PROVE LockInv'
  BY <1>8, CallTypes
  DEF UpdateDone, LockInv, TypeInv, TypeOK, Goto, Acceptable
<1>9. ASSUME UNCHANGED tableVars, \A u \in UpdateCalls : pc'[u] = pc[u]
      PROVE  LockInv'
  BY <1>9 DEF LockInv, Acceptable, tableVars
<1> QED
  BY <1>1, <1>2, <1>3, <1>4, <1>5, <1>6, <1>7, <1>8, <1>9, StartFrame, StopFrame, RegistryFrame
  DEF Next, UpdateStep, AllSettled, vars, tableVars, taskVars

\* A step that leaves table and answers alone stutters in the abstract table.
LEMMA TableStutter ==
  ASSUME upstreams_by_app' = upstreams_by_app, req' = req,
         \A u \in UpdateCalls : pc'[u] = pc[u]
  PROVE  UNCHANGED Table!vars
BY DEF UpdateResult, Table!vars

\* Every step is a step of the abstract table or leaves it alone.
LEMMA TableStep ==
  ASSUME TypeInv, LockInv, [Next]_vars
  PROVE  [Table!Next]_Table!vars
<1>1. ASSUME NEW u \in UpdateCalls, UpdateCalled(u) PROVE [Table!Next]_Table!vars
  <2>1. UpdateResult' = UpdateResult
    BY <1>1, CallTypes DEF UpdateCalled, MayBegin, Goto, TypeInv, TypeOK, UpdateResult
  <2>2. req[u] = None
    BY <1>1 DEF UpdateCalled, MayBegin, LockInv
  <2>3. Table!Invoke(u)
    BY <2>1, <2>2, <1>1 DEF UpdateCalled, Table!Invoke, Table!Request, Request
  <2> QED BY <2>3 DEF Table!Next
<1>2. ASSUME NEW u \in UpdateCalls, UpdateRefused(u) PROVE [Table!Next]_Table!vars
  <2>1. UpdateResult' = [UpdateResult EXCEPT ![u] = "refused"]
    BY <1>2, CallTypes DEF UpdateRefused, Goto, TypeInv, TypeOK, UpdateResult
  <2>2. UpdateResult[u] = "none" /\ req[u] # None
    BY <1>2, NoValueAssumption DEF UpdateRefused, TypeInv, ReqMade, UpdateResult
  <2>3. Table!Refuse(u)
    BY <2>1, <2>2, <1>2 DEF UpdateRefused, Table!Refuse, Table!Pending, Table!Answer, tableVars
  <2> QED BY <2>3 DEF Table!Next
<1>3. ASSUME NEW u \in UpdateCalls, UpdateChecked(u) PROVE [Table!Next]_Table!vars
  <2>1. UpdateResult' = UpdateResult
    BY <1>3, CallTypes DEF UpdateChecked, UpdateReadsTable, Goto, TypeInv, TypeOK, UpdateResult
  <2> QED BY <2>1, <1>3 DEF UpdateChecked, UpdateReadsTable, Table!vars
<1>4. ASSUME NEW u \in UpdateCalls, UpdateRebuildFails(u) PROVE [Table!Next]_Table!vars
  <2>1. UpdateResult' = [UpdateResult EXCEPT ![u] = "refused"]
    BY <1>4, CallTypes DEF UpdateRebuildFails, Goto, TypeInv, TypeOK, UpdateResult
  <2>2. UpdateResult[u] = "none" /\ req[u] # None
    BY <1>4, NoValueAssumption DEF UpdateRebuildFails, TypeInv, ReqMade, UpdateResult
  <2>3. Table!Refuse(u)
    BY <2>1, <2>2, <1>4 DEF UpdateRebuildFails, Table!Refuse, Table!Pending, Table!Answer, tableVars
  <2> QED BY <2>3 DEF Table!Next
<1>5. ASSUME NEW u \in UpdateCalls, UpdateCommits(u) PROVE [Table!Next]_Table!vars
  <2>1. UpdateResult' = [UpdateResult EXCEPT ![u] = "applied"]
    BY <1>5, CallTypes DEF UpdateCommits, Goto, TypeInv, TypeOK, UpdateResult
  <2>2. /\ UpdateResult[u] = "none" /\ req[u] # None
        /\ req[u].op \in {"add", "remove"} /\ req[u].app \in Applications
    BY <1>5, NoValueAssumption DEF UpdateCommits, TypeInv, ReqMade, Request, UpdateResult
  <2>3. /\ Acceptable(req[u])
        /\ upstreams_by_app' = [upstreams_by_app EXCEPT ![req[u].app] =
                                   Applied(req[u], upstreams_by_app[req[u].app])]
        /\ req' = req
    BY <1>5 DEF UpdateCommits, LockInv
  <2>4. CASE req[u].op = "add"
    <3>1. Table!Add(u)
      BY <2>1, <2>2, <2>3, <2>4 DEF Acceptable, Applied, Table!Add, Table!Pending, Table!Answer
    <3> QED BY <3>1 DEF Table!Next
  <2>5. CASE req[u].op = "remove"
    <3>1. Table!Remove(u)
      BY <2>1, <2>2, <2>3, <2>5 DEF Acceptable, Applied, Table!Remove, Table!Pending, Table!Answer
    <3> QED BY <3>1 DEF Table!Next
  <2> QED BY <2>2, <2>4, <2>5
<1>6. ASSUME NEW u \in UpdateCalls, UpdateUpserts(u) PROVE [Table!Next]_Table!vars
  BY <1>6, TableStutter DEF UpdateUpserts, tableVars, taskVars
<1>7. ASSUME NEW u \in UpdateCalls, UpdateRemoves(u) PROVE [Table!Next]_Table!vars
  BY <1>7, TableStutter DEF UpdateRemoves, tableVars, taskVars
<1>8. ASSUME NEW u \in UpdateCalls, UpdateDone(u) PROVE [Table!Next]_Table!vars
  <2>1. UpdateResult' = UpdateResult
    BY <1>8, CallTypes DEF UpdateDone, Goto, TypeInv, TypeOK, UpdateResult
  <2> QED BY <2>1, <1>8 DEF UpdateDone, Table!vars
<1>9. ASSUME UNCHANGED tableVars, \A u \in UpdateCalls : pc'[u] = pc[u]
      PROVE  [Table!Next]_Table!vars
  BY <1>9, TableStutter DEF tableVars
<1> QED
  BY <1>1, <1>2, <1>3, <1>4, <1>5, <1>6, <1>7, <1>8, <1>9, StartFrame, StopFrame, RegistryFrame
  DEF Next, UpdateStep, AllSettled, vars, tableVars, taskVars

\* addUpstream and removeUpstream are atomic: the proxy implements the
\* abstract table, for any number of concurrent calls.
THEOREM TableRefinement == Spec => UpdatesAreAtomic
<1>1. Init => TypeInv /\ LockInv
  BY InitTypeInv, CallTypes DEF Init, LockInv
<1>2. TypeInv /\ LockInv /\ [Next]_vars => TypeInv' /\ LockInv'
  BY TypeStep, LockStep
<1>3. Init => Table!Init
  BY CallTypes DEF Init, Table!Init, UpdateResult
<1>4. TypeInv /\ LockInv /\ [Next]_vars => [Table!Next]_Table!vars
  BY TableStep
<1> QED BY <1>1, <1>2, <1>3, <1>4, PTL DEF Spec, UpdatesAreAtomic, Table!Spec

\* RouterServesTable for one key, as a state predicate of its own.
PoolServes(k) ==
  LET list == {x \in upstreams_by_app[k[1]] : x.transport = k[2]}
      pool == router_config[k]
  IN  IF list = {} THEN pool = None
      ELSE /\ pool # None
           /\ pool.backends = {x.endpoint : x \in list}
           /\ \A x \in list : x.secure = pool.secure /\ HostnameKnown(k[1], x)

\* The router's configuration is the pools, and the pools are the table.
RouterInv == router_config = pools /\ \A k \in Keys : PoolServes(k)

\* A step that leaves table and pools alone keeps the router right.
LEMMA RouterStutter ==
  ASSUME RouterInv, upstreams_by_app' = upstreams_by_app, pools' = pools,
         router_config' = router_config
  PROVE  RouterInv'
BY DEF RouterInv, PoolServes, HostnameKnown

\* Every step keeps the router serving the table.
LEMMA RouterStep ==
  ASSUME TypeInv, RouterInv, [Next]_vars
  PROVE  RouterInv'
<1>1. ASSUME NEW u \in UpdateCalls, UpdateCalled(u) PROVE RouterInv'
  BY <1>1, RouterStutter DEF UpdateCalled, tableVars
<1>2. ASSUME NEW u \in UpdateCalls, UpdateRefused(u) PROVE RouterInv'
  BY <1>2, RouterStutter DEF UpdateRefused, tableVars
<1>3. ASSUME NEW u \in UpdateCalls, UpdateChecked(u) PROVE RouterInv'
  BY <1>3, RouterStutter DEF UpdateChecked, UpdateReadsTable, tableVars
<1>4. ASSUME NEW u \in UpdateCalls, UpdateRebuildFails(u) PROVE RouterInv'
  BY <1>4, RouterStutter DEF UpdateRebuildFails, tableVars
<1>5. ASSUME NEW u \in UpdateCalls, UpdateCommits(u) PROVE RouterInv'
  <2> DEFINE app == req[u].app
             next == next_upstreams[u]
  <2>1. /\ app \in Applications /\ next \in SUBSET UpstreamArgs /\ Buildable(app, next)
        /\ upstreams_by_app' = [upstreams_by_app EXCEPT ![app] = next]
        /\ \A k \in Keys : pools'[k] = IF k[1] = app THEN RebuiltPool(u, next, k[2]) ELSE pools[k]
        /\ pools' = [k \in Keys |-> pools'[k]]
        /\ router_config' = pools'
    BY <1>5 DEF UpdateCommits, TypeInv, TypeOK, ReqMade, build_router_config
  <2> HIDE DEF app, next
  <2> SUFFICES ASSUME NEW k \in Keys
               PROVE  PoolServes(k)'
    BY <2>1 DEF RouterInv
  <2>2. k[1] \in Applications /\ k[2] \in TransportKind
    BY DEF Keys
  <2>3. CASE k[1] # app
    BY <2>1, <2>2, <2>3 DEF RouterInv, PoolServes, TypeInv, TypeOK
  <2>4. CASE k[1] = app
    <3> DEFINE list == {x \in next : x.transport = k[2]}
    <3>1. upstreams_by_app'[k[1]] = next /\ router_config'[k] = RebuiltPool(u, next, k[2])
      BY <2>1, <2>2, <2>4 DEF TypeInv, TypeOK
    <3>2. CASE list = {}
      BY <3>1, <3>2 DEF PoolServes, RebuiltPool
    <3>3. CASE list # {}
      <4>1. RebuiltPool(u, next, k[2]) = [lb |-> u, secure |-> \E x \in list : x.secure,
                                          backends |-> {x.endpoint : x \in list}]
        BY <3>3 DEF RebuiltPool
      <4>2. \A x \in list : x.secure \in BOOLEAN
        BY <2>1, TableAssumption DEF PortUpstream
      <4>3. \A x \in list : x.secure = (\E y \in list : y.secure) /\ HostnameKnown(k[1], x)
        BY <4>2, <2>1, <2>4 DEF Buildable
      <4>4. RebuiltPool(u, next, k[2]) # None
        <5>1. RebuiltPool(u, next, k[2]) \in PoolConfig
          <6>1. {x.endpoint : x \in list} \in SUBSET Endpoints
            BY <2>1, TableAssumption DEF PortUpstream
          <6>2. (\E x \in list : x.secure) \in BOOLEAN
            OBVIOUS
          <6> HIDE DEF list
          <6> QED BY <4>1, <6>1, <6>2 DEF PoolConfig
        <5> QED BY <5>1, NoValueAssumption
      <4>5. /\ RebuiltPool(u, next, k[2]).backends = {x.endpoint : x \in list}
            /\ RebuiltPool(u, next, k[2]).secure = (\E x \in list : x.secure)
        BY <4>1
      <4>6. \A x \in list : x.secure = RebuiltPool(u, next, k[2]).secure
        BY <4>3, <4>5
      <4> QED BY <3>1, <3>3, <4>3, <4>4, <4>5, <4>6 DEF PoolServes
    <3> QED BY <3>2, <3>3
  <2> QED BY <2>3, <2>4
<1>6. ASSUME NEW u \in UpdateCalls, UpdateUpserts(u) PROVE RouterInv'
  BY <1>6, RouterStutter DEF UpdateUpserts, tableVars
<1>7. ASSUME NEW u \in UpdateCalls, UpdateRemoves(u) PROVE RouterInv'
  BY <1>7, RouterStutter DEF UpdateRemoves, tableVars
<1>8. ASSUME NEW u \in UpdateCalls, UpdateDone(u) PROVE RouterInv'
  BY <1>8, RouterStutter DEF UpdateDone, tableVars
<1>9. ASSUME UNCHANGED tableVars, \A u \in UpdateCalls : pc'[u] = pc[u]
      PROVE  RouterInv'
  BY <1>9, RouterStutter DEF tableVars
<1> QED
  BY <1>1, <1>2, <1>3, <1>4, <1>5, <1>6, <1>7, <1>8, <1>9, StartFrame, StopFrame, RegistryFrame
  DEF Next, UpdateStep, AllSettled, vars, tableVars, taskVars

\* The router serves exactly the table's upstreams at every moment, whatever
\* rebuilds fail and whatever start() and stop() do meanwhile.
THEOREM RouterFollowsTable == Spec => []RouterServesTable
<1>1. Init => TypeInv /\ RouterInv
  BY InitTypeInv DEF Init, RouterInv, PoolServes, build_router_config, Keys
<1>2. TypeInv /\ RouterInv /\ [Next]_vars => TypeInv' /\ RouterInv'
  BY TypeStep, RouterStep
<1>3. RouterInv => RouterServesTable
  BY DEF RouterInv, PoolServes, RouterServesTable
<1> QED BY <1>1, <1>2, <1>3, PTL DEF Spec
=============================================================================
