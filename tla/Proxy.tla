-------------------------------- MODULE Proxy --------------------------------
(***************************************************************************)
(* The Proxy object of src/proxy.rs: its lifecycle (start, stop, address)  *)
(* and its upstream table (add_upstream, remove_upstream), over the        *)
(* service registry of module Server.                                      *)
(*                                                                         *)
(* Every JavaScript call of the object is one element of StartCalls,       *)
(* StopCalls or UpdateCalls; pc says how far it has run.  A step is what a *)
(* call does between two points at which another thread can run: the body  *)
(* of one critical section of `inner`, or one registry operation, with the *)
(* local code around it.  The settled values of pc say how the promise of  *)
(* the call ended.                                                         *)
(***************************************************************************)
EXTENDS Server, FiniteSets

CONSTANTS
  StartCalls, StopCalls, UpdateCalls,   \* the calls; each is made at most once
  Applications,     \* configured applications
  AppNames,         \* application names callers pass, known or not
  SniApps,          \* applications for which a secure upstream has a host name
  Endpoints,        \* upstream addresses (host name and port)
  UpstreamArgs,     \* parsed upstreams callers pass
  TaskPanics,       \* TRUE: a spawn_blocking closure may panic
  EphemeralPort,    \* TRUE: `listen` has port 0, so a bind never collides
  AwaitBeforeRestart,     \* client discipline, see MayBegin
  UpdatesAwaitLifecycle   \* client discipline, see MayBegin

TransportKind == {"Http1", "Http2", "Ws"}
PortUpstream == [transport : TransportKind, secure : BOOLEAN, endpoint : Endpoints]
LifecycleCalls == StartCalls \cup StopCalls
Keys == Applications \X TransportKind

\* The registry's names: one per pool, "lb:<app>:<suffix>", and "main_http".
\* The suffix has no colon, so distinct keys have distinct names.
lb_service_name(app, transport) ==
  <<"lb", app, [Http1 |-> "http", Http2 |-> "http2", Ws |-> "ws"][transport]>>
MainHttp == <<"main_http">>
ServiceNames == {lb_service_name(k[1], k[2]) : k \in Keys} \cup {MainHttp}

ASSUME CallsAssumption ==
  /\ Callers = LifecycleCalls \cup UpdateCalls
  /\ StartCalls \cap StopCalls = {}
  /\ LifecycleCalls \cap UpdateCalls = {}
  /\ None \notin Callers
ASSUME RegistryAssumption == Names = ServiceNames /\ Lbs = UpdateCalls
ASSUME TableAssumption ==
  /\ Applications \subseteq AppNames
  /\ SniApps \subseteq Applications
  /\ UpstreamArgs \subseteq PortUpstream
ASSUME SwitchAssumption ==
  /\ TaskPanics \in BOOLEAN
  /\ EphemeralPort \in BOOLEAN
  /\ AwaitBeforeRestart \in BOOLEAN
  /\ UpdatesAwaitLifecycle \in BOOLEAN

VARIABLES
  state,            \* ProxyInner.state
  listen_address,   \* the start call whose bound address is stored, or None
  start_notifier,   \* the start call whose channel's sender is stored, or None
  stop_notifier,    \* the stop call whose channel's sender is stored, or None
  status,           \* last value of the channel each lifecycle call created
  rx,               \* the channel a lifecycle call waits on, or None
  upstreams_by_app, \* application -> set of upstreams
  pools,            \* (application, transport) -> pool, or None
  router_config,    \* the pools of the configuration the router serves from
  update_lock,      \* the update call that holds update_lock, or None
  pc,               \* where each call is, or how it settled
  todo,             \* balancers a call still has to give a health task
  to_remove,        \* services an update call still has to remove
  req,              \* the arguments of each update call
  next_upstreams    \* the upstream set an update call is about to commit

lifecycleVars == <<state, listen_address, start_notifier, stop_notifier, status, rx>>
tableVars == <<upstreams_by_app, pools, router_config, update_lock, req, next_upstreams>>
taskVars == <<pc, todo, to_remove>>
vars == <<serverVars, lifecycleVars, tableVars, taskVars>>

ProxyState == {"Stopped", "Starting", "Running", "Stopping"}
Outcomes == {"resolved", "rejected", "closed", "internal", "panicked"}
StartPc == {"idle", "setup", "lbs", "commit", "cancel", "cancel_drain", "wait_ready"}
StopPc == {"idle", "wait_start", "drain", "wait_stop"}
UpdatePc == {"idle", "queued", "rebuild", "services"}
PoolConfig == [lb : UpdateCalls, secure : BOOLEAN, backends : SUBSET Endpoints]
HealthTask == [name : Names, lb : UpdateCalls]
Request == [op : {"add", "remove"}, app : AppNames, upstream : UpstreamArgs]

ASSUME NoValueAssumption == None \notin PoolConfig \cup Request

Settled(c) == pc[c] \in Outcomes
InFlight(c) == pc[c] # "idle" /\ ~Settled(c)

TypeOK ==
  /\ ServerTypeOK
  /\ state \in ProxyState
  /\ listen_address \in StartCalls \cup {None}
  /\ start_notifier \in StartCalls \cup {None}
  /\ stop_notifier \in StopCalls \cup {None}
  /\ status \in [LifecycleCalls -> {"Pending", "Ok", "Err"}]
  /\ rx \in [LifecycleCalls -> LifecycleCalls \cup {None}]
  /\ upstreams_by_app \in [Applications -> SUBSET UpstreamArgs]
  /\ pools \in [Keys -> PoolConfig \cup {None}]
  /\ router_config \in [Keys -> PoolConfig \cup {None}]
  /\ update_lock \in UpdateCalls \cup {None}
  /\ pc \in [Callers -> StartPc \cup StopPc \cup UpdatePc \cup Outcomes]
  /\ \A s \in StartCalls : pc[s] \in StartPc \cup Outcomes
  /\ \A c \in StopCalls : pc[c] \in StopPc \cup Outcomes
  /\ \A u \in UpdateCalls : pc[u] \in UpdatePc \cup {"resolved", "rejected"}
  /\ todo \in [Callers -> SUBSET HealthTask]
  /\ to_remove \in [UpdateCalls -> SUBSET Names]
  /\ req \in [UpdateCalls -> Request \cup {None}]
  /\ next_upstreams \in [UpdateCalls -> SUBSET UpstreamArgs]

\* build_router_config: the route tables depend on the options alone, which
\* never change, so what a refresh can change is the pool under each key.
build_router_config(p) == [k \in Keys |-> p[k]]

\* Proxy::new
Init ==
  /\ ServerInit
  /\ state = "Stopped"
  /\ listen_address = None
  /\ start_notifier = None
  /\ stop_notifier = None
  /\ status = [c \in LifecycleCalls |-> "Pending"]
  /\ rx = [c \in LifecycleCalls |-> None]
  /\ upstreams_by_app = [app \in Applications |-> {}]
  /\ pools = [k \in Keys |-> None]
  /\ router_config = build_router_config(pools)
  /\ update_lock = None
  /\ pc = [c \in Callers |-> "idle"]
  /\ todo = [c \in Callers |-> {}]
  /\ to_remove = [u \in UpdateCalls |-> {}]
  /\ req = [u \in UpdateCalls |-> None]
  /\ next_upstreams = [u \in UpdateCalls |-> {}]

-----------------------------------------------------------------------------
(* The client.  Both disciplines are optional and off in the runs about    *)
(* arbitrary clients.                                                      *)

\* AwaitBeforeRestart: a start() that finds the proxy stopped is made only
\* when every earlier start() and stop() promise has settled.
\* UpdatesAwaitLifecycle: addUpstream/removeUpstream calls never overlap a
\* start() or stop() call.
MayBegin(c) ==
  /\ pc[c] = "idle"
  /\ AwaitBeforeRestart /\ c \in StartCalls /\ state = "Stopped"
       => \A d \in LifecycleCalls : ~InFlight(d)
  /\ UpdatesAwaitLifecycle /\ c \in LifecycleCalls
       => \A d \in UpdateCalls : ~InFlight(d)
  /\ UpdatesAwaitLifecycle /\ c \in UpdateCalls
       => \A d \in LifecycleCalls : ~InFlight(d)

\* The receiver's view of a watch channel: a wait ends when a value was sent
\* or when the sender is gone, that is, no longer stored in ProxyInner (it is
\* taken, replaced or dropped there).
Answered(ch) == status[ch] = "Pending" => ch \notin {start_notifier, stop_notifier}

Goto(c, where) == pc' = [pc EXCEPT ![c] = where]

\* How a promise settles that waited on a channel: with the value sent, or
\* with the error "channel closed unexpectedly".
SettledBy(ch) == [Ok |-> "resolved", Err |-> "rejected", Pending |-> "closed"][status[ch]]

\* `notifier.take()` and, when there was one, `send(value)`.
TakeAndSend(notifier, value) ==
  status' = [c \in LifecycleCalls |-> IF c = notifier THEN value ELSE status[c]]

-----------------------------------------------------------------------------
(* start()                                                                 *)

\* Mutant of StartJoins: a second start is begun beside the first.
StartBeginsBeside(s) ==
  /\ MayBegin(s)
  /\ state = "Starting"
  /\ rx' = [rx EXCEPT ![s] = s]
  /\ start_notifier' = s
  /\ Goto(s, "setup")
  /\ UNCHANGED <<serverVars, state, listen_address, stop_notifier, status, tableVars,
                 todo, to_remove>>

\* The call finds a start under way and subscribes to its channel.
StartJoins(s) ==
  /\ MayBegin(s)
  /\ state = "Starting"
  /\ rx' = [rx EXCEPT ![s] = start_notifier]
  /\ Goto(s, IF start_notifier = None THEN "internal" ELSE "wait_ready")
  /\ UNCHANGED <<serverVars, state, listen_address, start_notifier, stop_notifier,
                 status, tableVars, todo, to_remove>>

\* AlreadyStarted: "Proxy is already started" or "Proxy is stopping".
StartRefused(s) ==
  /\ MayBegin(s)
  /\ state \in {"Running", "Stopping"}
  /\ Goto(s, "rejected")
  /\ UNCHANGED <<serverVars, lifecycleVars, tableVars, todo, to_remove>>

\* The health tasks a start snapshots from the pools it finds.
initial_lb_tasks ==
  {[name |-> lb_service_name(k[1], k[2]), lb |-> pools[k].lb] :
     k \in {k \in Keys : pools[k] # None}}

StartBegins(s) ==
  /\ MayBegin(s)
  /\ state = "Stopped"
  /\ state' = "Starting"
  /\ listen_address' = None
  /\ start_notifier' = s
  /\ rx' = [rx EXCEPT ![s] = s]
  /\ todo' = [todo EXCEPT ![s] = initial_lb_tasks]
  /\ Goto(s, "setup")
  /\ UNCHANGED <<serverVars, stop_notifier, status, tableVars, to_remove>>

\* The listening socket is open from a successful bind until the task that
\* serves it ends.
BoundBy(s) == pc[s] = "lbs" \/ \E h \in live : h.by = s /\ h.name = MainHttp
ListenerBound == \E s \in StartCalls : BoundBy(s)

\* build_start_resources succeeds.  Binding a fixed port needs it free.
StartSetup(s) ==
  /\ pc[s] = "setup"
  /\ EphemeralPort \/ ~ListenerBound
  /\ Goto(s, "lbs")
  /\ UNCHANGED <<serverVars, lifecycleVars, tableVars, todo, to_remove>>

\* Mutant of StartSetupFails: the error leaves by `?`, with nothing undone.
SetupErrorPropagates(s) ==
  /\ pc[s] = "setup"
  /\ todo' = [todo EXCEPT ![s] = {}]
  /\ Goto(s, "rejected")
  /\ UNCHANGED <<serverVars, lifecycleVars, tableVars, to_remove>>

\* Mutant of StartSetupFails: the notifier is dropped without an answer.
SetupErrorDropsNotifier(s) ==
  /\ pc[s] = "setup"
  /\ state' = "Stopped"
  /\ listen_address' = None
  /\ start_notifier' = None
  /\ todo' = [todo EXCEPT ![s] = {}]
  /\ Goto(s, "rejected")
  /\ UNCHANGED <<serverVars, stop_notifier, status, rx, tableVars, to_remove>>

\* Mutant of StartSetupFails: the state stays Starting.
SetupErrorKeepsState(s) ==
  /\ pc[s] = "setup"
  /\ listen_address' = None
  /\ TakeAndSend(start_notifier, "Err")
  /\ start_notifier' = None
  /\ todo' = [todo EXCEPT ![s] = {}]
  /\ Goto(s, "rejected")
  /\ UNCHANGED <<serverVars, state, stop_notifier, rx, tableVars, to_remove>>

\* build_start_resources fails: the port is taken, here or by another
\* process, or the TLS files cannot be loaded.
StartSetupFails(s) ==
  /\ pc[s] = "setup"
  /\ state' = "Stopped"
  /\ listen_address' = None
  /\ TakeAndSend(start_notifier, "Err")
  /\ start_notifier' = None
  /\ todo' = [todo EXCEPT ![s] = {}]
  /\ Goto(s, "rejected")
  /\ UNCHANGED <<serverVars, stop_notifier, rx, tableVars, to_remove>>

\* The blocking closure panics: the JoinError leaves by `?` and neither the
\* state nor the notifier is touched.
StartSetupPanics(s) ==
  /\ TaskPanics
  /\ pc[s] = "setup"
  /\ todo' = [todo EXCEPT ![s] = {}]
  /\ Goto(s, "panicked")
  /\ UNCHANGED <<serverVars, lifecycleVars, tableVars, to_remove>>

StartLbTask(s) ==
  /\ pc[s] = "lbs"
  /\ \E t \in todo[s] :
       /\ upsert_service(s, t.name, t.lb)
       /\ todo' = [todo EXCEPT ![s] = @ \ {t}]
  /\ UNCHANGED <<lifecycleVars, tableVars, pc, to_remove>>

\* The listener's task is spawned and registered.
StartMainHttp(s) ==
  /\ pc[s] = "lbs"
  /\ todo[s] = {}
  /\ upsert_service(s, MainHttp, None)
  /\ Goto(s, "commit")
  /\ UNCHANGED <<lifecycleVars, tableVars, todo, to_remove>>

\* Mutant of StartCommits: the state is not looked at before Running is set.
CommitsUnconditionally(s) ==
  /\ pc[s] = "commit"
  /\ Returned(s)
  /\ state' = "Running"
  /\ listen_address' = s
  /\ TakeAndSend(start_notifier, "Ok")
  /\ start_notifier' = None
  /\ Goto(s, "wait_ready")
  /\ UNCHANGED <<serverVars, stop_notifier, rx, tableVars, todo, to_remove>>

\* The critical section that ends a start: it commits Running, or finds that
\* a stop came first.  It takes and answers whichever notifier is stored.
StartCommits(s) ==
  /\ pc[s] = "commit"
  /\ Returned(s)
  /\ \/ /\ state \in {"Starting", "Running"}
        /\ state' = "Running"
        /\ listen_address' = s
        /\ TakeAndSend(start_notifier, "Ok")
        /\ Goto(s, "wait_ready")
     \/ /\ state \in {"Stopping", "Stopped"}
        /\ TakeAndSend(start_notifier, "Err")
        /\ Goto(s, "cancel")
        /\ UNCHANGED <<state, listen_address>>
  /\ start_notifier' = None
  /\ UNCHANGED <<serverVars, stop_notifier, rx, tableVars, todo, to_remove>>

StartCancelStopAll(s) ==
  /\ pc[s] = "cancel"
  /\ stop_all(s)
  /\ Goto(s, "cancel_drain")
  /\ UNCHANGED <<lifecycleVars, tableVars, todo, to_remove>>

StartCancelled(s) ==
  /\ pc[s] = "cancel_drain"
  /\ Returned(s)
  /\ state' = "Stopped"
  /\ listen_address' = None
  /\ Goto(s, "rejected")
  /\ UNCHANGED <<serverVars, start_notifier, stop_notifier, status, rx, tableVars,
                 todo, to_remove>>

\* wait_for_start_ready, at the end of the call's own start or of the one
\* it joined.
StartReady(s) ==
  /\ pc[s] = "wait_ready"
  /\ Answered(rx[s])
  /\ Goto(s, SettledBy(rx[s]))
  /\ UNCHANGED <<serverVars, lifecycleVars, tableVars, todo, to_remove>>

-----------------------------------------------------------------------------
(* stop()                                                                  *)

StopFindsStopped(c) ==
  /\ MayBegin(c)
  /\ state = "Stopped"
  /\ listen_address' = None
  /\ Goto(c, "resolved")
  /\ UNCHANGED <<serverVars, state, start_notifier, stop_notifier, status, rx,
                 tableVars, todo, to_remove>>

StopJoins(c) ==
  /\ MayBegin(c)
  /\ state = "Stopping"
  /\ rx' = [rx EXCEPT ![c] = stop_notifier]
  /\ Goto(c, IF stop_notifier = None THEN "internal" ELSE "wait_stop")
  /\ UNCHANGED <<serverVars, state, listen_address, start_notifier, stop_notifier,
                 status, tableVars, todo, to_remove>>

\* Mutant of StopBegins: Stopping is never entered.
StopBeginsSilently(c) ==
  /\ MayBegin(c)
  /\ state \in {"Starting", "Running"}
  /\ stop_notifier' = IF stop_notifier = None THEN c ELSE stop_notifier
  /\ rx' = [rx EXCEPT ![c] = start_notifier]
  /\ Goto(c, "wait_start")
  /\ UNCHANGED <<serverVars, state, listen_address, start_notifier, status, tableVars,
                 todo, to_remove>>

\* The call becomes the one that stops the proxy; if a start is under way
\* it will first wait for that start's answer.
StopBegins(c) ==
  /\ MayBegin(c)
  /\ state \in {"Starting", "Running"}
  /\ state' = "Stopping"
  /\ stop_notifier' = IF stop_notifier = None THEN c ELSE stop_notifier
  /\ rx' = [rx EXCEPT ![c] = start_notifier]
  /\ Goto(c, "wait_start")
  /\ UNCHANGED <<serverVars, listen_address, start_notifier, status, tableVars,
                 todo, to_remove>>

\* Whatever the start's answer (or its channel's end), stop everything.
StopStopsAll(c) ==
  /\ pc[c] = "wait_start"
  /\ rx[c] # None => Answered(rx[c])
  /\ stop_all(c)
  /\ Goto(c, "drain")
  /\ UNCHANGED <<lifecycleVars, tableVars, todo, to_remove>>

\* The critical section that ends a stop (on its own, the mutant in which
\* stop() does not wait for the tasks to end).
StopEnds(c) ==
  /\ pc[c] = "drain"
  /\ state' = "Stopped"
  /\ listen_address' = None
  /\ start_notifier' = None
  /\ TakeAndSend(stop_notifier, "Ok")
  /\ stop_notifier' = None
  /\ Goto(c, "resolved")
  /\ UNCHANGED <<serverVars, rx, tableVars, todo, to_remove>>

\* Mutant of StopFinishes: the joined stops are not answered.
StopFinishesSilently(c) ==
  /\ pc[c] = "drain"
  /\ Returned(c)
  /\ state' = "Stopped"
  /\ listen_address' = None
  /\ start_notifier' = None
  /\ stop_notifier' = None
  /\ Goto(c, "resolved")
  /\ UNCHANGED <<serverVars, status, rx, tableVars, todo, to_remove>>

StopFinishes(c) == Returned(c) /\ StopEnds(c)

\* wait_for_stop_ready
StopReady(c) ==
  /\ pc[c] = "wait_stop"
  /\ Answered(rx[c])
  /\ Goto(c, SettledBy(rx[c]))
  /\ UNCHANGED <<serverVars, lifecycleVars, tableVars, todo, to_remove>>

\* The value address() returns, as the start call that bound it.
address == IF state = "Running" THEN listen_address ELSE None

-----------------------------------------------------------------------------
(* addUpstream() and removeUpstream()                                      *)

\* The call is made: its arguments are parsed and its task waits for the
\* update lock.
UpdateCalled(u) ==
  /\ MayBegin(u)
  /\ \E r \in Request : req' = [req EXCEPT ![u] = r]
  /\ Goto(u, "queued")
  /\ UNCHANGED <<serverVars, lifecycleVars, upstreams_by_app, pools, router_config,
                 update_lock, next_upstreams, todo, to_remove>>

\* verify_hostname_for_secure_upstream
HostnameKnown(app, upstream) == upstream.secure => app \in SniApps

\* The checks that refuse an update: unknown application, an upstream that
\* is already there (add) or not there (remove), no host name (add only).
Acceptable(r) ==
  /\ r.app \in Applications
  /\ r.op = "add" => /\ r.upstream \notin upstreams_by_app[r.app]
                     /\ HostnameKnown(r.app, r.upstream)
  /\ r.op = "remove" => r.upstream \in upstreams_by_app[r.app]

\* Mutant of Applied: a removed upstream stays in the set.
AppliedKeepsRemoved(r, current) ==
  IF r.op = "add" THEN current \cup {r.upstream} ELSE current

\* The upstream set that an update leads to.
Applied(r, current) ==
  IF r.op = "add" THEN current \cup {r.upstream} ELSE current \ {r.upstream}

\* The lock is taken, the table is checked, and the lock is released again.
UpdateRefused(u) ==
  /\ pc[u] = "queued"
  /\ update_lock = None
  /\ ~Acceptable(req[u])
  /\ Goto(u, "rejected")
  /\ UNCHANGED <<serverVars, lifecycleVars, tableVars, todo, to_remove>>

\* The table is checked and its next value computed from a copy; the rebuild
\* then runs on a blocking thread with `inner` unlocked.  (On its own, the
\* mutant in which the update lock is not waited for.)
UpdateReadsTable(u) ==
  /\ pc[u] = "queued"
  /\ Acceptable(req[u])
  /\ update_lock' = u
  /\ next_upstreams' =
       [next_upstreams EXCEPT ![u] = Applied(req[u], upstreams_by_app[req[u].app])]
  /\ Goto(u, "rebuild")
  /\ UNCHANGED <<serverVars, lifecycleVars, upstreams_by_app, pools, router_config,
                 req, todo, to_remove>>

UpdateChecked(u) == update_lock = None /\ UpdateReadsTable(u)

\* Mutant of Buildable: a pool may mix secure and plain upstreams.
BuildableMixed(app, upstreams) == \A x \in upstreams : HostnameKnown(app, x)

\* rebuild_app_pools can succeed: no pool mixes secure and plain upstreams
\* and every secure pool has a host name to verify.
Buildable(app, upstreams) ==
  \A x, y \in upstreams :
    /\ x.transport = y.transport => x.secure = y.secure
    /\ HostnameKnown(app, x)

\* The pool that rebuild_app_pools makes for one transport, None when that
\* transport has no upstream left.
RebuiltPool(u, upstreams, transport) ==
  LET list == {x \in upstreams : x.transport = transport} IN
    IF list = {} THEN None
    ELSE [lb |-> u, secure |-> \E x \in list : x.secure,
          backends |-> {x.endpoint : x \in list}]

\* The rebuild fails: the set is not buildable, a host name does not resolve
\* now (so only if there is one), or the blocking closure panics.
UpdateRebuildFails(u) ==
  /\ pc[u] = "rebuild"
  /\ TaskPanics \/ next_upstreams[u] # {} \/ ~Buildable(req[u].app, next_upstreams[u])
  /\ update_lock' = None
  /\ Goto(u, "rejected")
  /\ UNCHANGED <<serverVars, lifecycleVars, upstreams_by_app, pools, router_config,
                 req, next_upstreams, todo, to_remove>>

\* The rebuild succeeds and one critical section commits the table, the
\* pools and the router's configuration, and reads whether the proxy runs.
UpdateCommits(u) ==
  LET app == req[u].app
      new(k) == IF k[1] = app THEN RebuiltPool(u, next_upstreams[u], k[2]) ELSE pools[k]
      mine == {app} \X TransportKind
      to_upsert == {[name |-> lb_service_name(k[1], k[2]), lb |-> u] :
                      k \in {k \in mine : new(k) # None}}
      gone == {lb_service_name(k[1], k[2]) :
                      k \in {k \in mine : new(k) = None /\ pools[k] # None}}
      is_running == state = "Running"
  IN
  /\ pc[u] = "rebuild"
  /\ Buildable(app, next_upstreams[u])
  /\ upstreams_by_app' = [upstreams_by_app EXCEPT ![app] = next_upstreams[u]]
  /\ pools' = [k \in Keys |-> new(k)]
  /\ router_config' = build_router_config(pools')
  /\ todo' = [todo EXCEPT ![u] = IF is_running THEN to_upsert ELSE {}]
  /\ to_remove' = [to_remove EXCEPT ![u] = IF is_running THEN gone ELSE {}]
  /\ Goto(u, "services")
  /\ UNCHANGED <<serverVars, lifecycleVars, update_lock, req, next_upstreams>>

UpdateUpserts(u) ==
  /\ pc[u] = "services"
  /\ \E t \in todo[u] :
       /\ upsert_service(u, t.name, t.lb)
       /\ todo' = [todo EXCEPT ![u] = @ \ {t}]
  /\ UNCHANGED <<lifecycleVars, tableVars, pc, to_remove>>

\* Mutant of UpdateRemoves: the health task of an emptied pool is forgotten.
UpdateForgetsRemoved(u) ==
  /\ pc[u] = "services"
  /\ todo[u] = {}
  /\ \E name \in to_remove[u] : to_remove' = [to_remove EXCEPT ![u] = @ \ {name}]
  /\ UNCHANGED <<serverVars, lifecycleVars, tableVars, pc, todo>>

\* Mutant of UpdateRemoves: every service is stopped, not the one named.
UpdateRemovesAll(u) ==
  /\ pc[u] = "services"
  /\ todo[u] = {}
  /\ \E name \in to_remove[u] :
       /\ stop_all(u)
       /\ to_remove' = [to_remove EXCEPT ![u] = @ \ {name}]
  /\ UNCHANGED <<lifecycleVars, tableVars, pc, todo>>

UpdateRemoves(u) ==
  /\ pc[u] = "services"
  /\ todo[u] = {}
  /\ \E name \in to_remove[u] :
       /\ remove_service(u, name)
       /\ to_remove' = [to_remove EXCEPT ![u] = @ \ {name}]
  /\ UNCHANGED <<lifecycleVars, tableVars, pc, todo>>

\* The task ends and its guard releases the update lock.
UpdateDone(u) ==
  /\ pc[u] = "services"
  /\ todo[u] = {} /\ to_remove[u] = {} /\ Returned(u)
  /\ update_lock' = None
  /\ Goto(u, "resolved")
  /\ UNCHANGED <<serverVars, lifecycleVars, upstreams_by_app, pools, router_config,
                 req, next_upstreams, todo, to_remove>>

-----------------------------------------------------------------------------
StartCallMade(s) == StartJoins(s) \/ StartRefused(s) \/ StartBegins(s)
StartStep(s) ==
  \/ StartSetup(s) \/ StartSetupFails(s) \/ StartSetupPanics(s)
  \/ StartLbTask(s) \/ StartMainHttp(s) \/ StartCommits(s)
  \/ StartCancelStopAll(s) \/ StartCancelled(s) \/ StartReady(s)
StopCallMade(c) == StopFindsStopped(c) \/ StopJoins(c) \/ StopBegins(c)
StopStep(c) == StopStopsAll(c) \/ StopFinishes(c) \/ StopReady(c)
UpdateStep(u) ==
  \/ UpdateRefused(u) \/ UpdateChecked(u) \/ UpdateRebuildFails(u)
  \/ UpdateCommits(u) \/ UpdateUpserts(u) \/ UpdateRemoves(u) \/ UpdateDone(u)

\* The steps of the registry's handles, for a call inside an operation.
SignalStep(c) == \E h \in held[c] : Signal(c, h) /\ UNCHANGED <<lifecycleVars, tableVars, taskVars>>
TaskStep(h) == TaskEnds(h) /\ UNCHANGED <<lifecycleVars, tableVars, taskVars>>

\* Every call was made and has settled: the program has nothing left to do.
AllSettled == (\A c \in Callers : Settled(c)) /\ UNCHANGED vars

Next ==
  \/ \E s \in StartCalls : StartCallMade(s) \/ StartStep(s)
  \/ \E c \in StopCalls : StopCallMade(c) \/ StopStep(c)
  \/ \E u \in UpdateCalls : UpdateCalled(u) \/ UpdateStep(u)
  \/ \E c \in Callers : SignalStep(c)
  \/ \E h \in signalled : TaskStep(h)
  \/ AllSettled

\* The runtime polls every spawned future until it completes and a task told
\* to shut down returns.  No call has to be made.
Fairness ==
  /\ \A s \in StartCalls : WF_vars(StartStep(s))
  /\ \A c \in StopCalls : WF_vars(StopStep(c))
  /\ \A u \in UpdateCalls : WF_vars(UpdateStep(u))
  /\ \A c \in Callers : WF_vars(SignalStep(c))
  /\ \A h \in ServiceHandle : WF_vars(TaskStep(h))

Spec == Init /\ [][Next]_vars
FairSpec == Spec /\ Fairness

-----------------------------------------------------------------------------
(* Properties that hold whatever the client does.                          *)

\* No call dies of "missing start notifier" or "missing stop notifier": in
\* state Starting a start notifier is stored, in Stopping a stop notifier,
\* although any racing call may take, replace or drop the stored sender.
NoInternalError == \A c \in Callers : pc[c] # "internal"

\* A stop() that joins another one is always answered: the stop channel is
\* never dropped unsent ("Proxy stop channel closed unexpectedly").
StopWaitersServed == \A c \in StopCalls : pc[c] # "closed"

\* A background task is never orphaned: it is registered, so that a later
\* stop() finds it, or a call that is still running awaits its end.
NoTaskOrphaned ==
  \A h \in live : services[h.name] = h \/ \E c \in Callers : InFlight(c) /\ h \in held[c]

\* The router always serves exactly the table's upstreams: each pool has the
\* addresses of the upstreams of its application and transport, never mixes
\* secure with plain ones, and is there only if there is an upstream.
RouterServesTable ==
  \A k \in Keys :
    LET list == {x \in upstreams_by_app[k[1]] : x.transport = k[2]}
        pool == router_config[k]
    IN  IF list = {} THEN pool = None
        ELSE /\ pool # None
             /\ pool.backends = {x.endpoint : x \in list}
             /\ \A x \in list : x.secure = pool.secure /\ HostnameKnown(k[1], x)

\* The answer of each update call as the abstract table sees it.
UpdateResult ==
  [u \in UpdateCalls |-> CASE pc[u] \in {"services", "resolved"} -> "applied"
                           [] pc[u] = "rejected" -> "refused"
                           [] OTHER -> "none"]
Table == INSTANCE UpstreamTable WITH
  Calls <- UpdateCalls, table <- upstreams_by_app, request <- req, result <- UpdateResult

\* The update lock makes addUpstream and removeUpstream atomic: the table
\* changes as if each call that resolves took effect at one instant, on the
\* table of that instant, and a call that rejects had no effect.
UpdatesAreAtomic == Table!Spec

-----------------------------------------------------------------------------
(* Properties under AwaitBeforeRestart.                                    *)

LifecycleQuiet == \A c \in LifecycleCalls : ~InFlight(c)

\* While the proxy reports an address, the listener of the start that bound
\* it is registered, running and was not told to shut down; and a running
\* proxy reports an address.
RunningMeansListening ==
  state = "Running" =>
    /\ address # None
    /\ services[MainHttp] # None
    /\ services[MainHttp].by = address
    /\ services[MainHttp] \in live \ signalled

\* At no moment do two starts hold a listening socket: concurrent start()
\* calls share one listener, and a restart begins after the old one closed.
OneListener == \A s, t \in StartCalls : BoundBy(s) /\ BoundBy(t) => s = t

\* Once every start() and stop() has settled, a stopped proxy has released
\* its port, however the calls were interleaved.
StoppedReleasesListener == state = "Stopped" /\ LifecycleQuiet => ~ListenerBound

\* A start() is always answered by a result, never by a dropped channel.
StartWaitersServed == \A s \in StartCalls : pc[s] # "closed"

\* The state machine Stopped -> Starting -> Running -> Stopping -> Stopped:
\* a running proxy is never declared stopped behind the back of a stop(),
\* and a start that a stop() interrupted never becomes Running.
LifecycleOrder ==
  [][\/ state = "Stopped"  /\ state' = "Starting"
     \/ state = "Starting" /\ state' \in {"Running", "Stopping", "Stopped"}
     \/ state = "Running"  /\ state' = "Stopping"
     \/ state = "Stopping" /\ state' = "Stopped"]_state

\* What the caller of a start() or stop() can rely on at each moment: a call
\* whose channel was answered is as good as settled, and a start that found
\* itself cancelled will be rejected.
Phase ==
  [c \in LifecycleCalls |->
     CASE pc[c] \in {"idle", "resolved"} -> pc[c]
       [] pc[c] \in {"setup", "lbs", "commit", "wait_start", "drain"} -> "waiting"
       [] pc[c] \in {"wait_ready", "wait_stop"} ->
            [Pending |-> "waiting", Ok |-> "resolved", Err |-> "rejected"][status[rx[c]]]
       [] OTHER -> "rejected"]
Life == INSTANCE Lifecycle WITH phase <- Phase

\* start() and stop() are atomic operations on the state: all the calls that
\* share a start, or a stop, get the same answer at the same moment; a start
\* resolves because the proxy runs, a stop because it stopped; no stop is
\* answered while a start still waits.
LifecycleIsAtomic == Life!Spec

-----------------------------------------------------------------------------
(* Properties under both disciplines.                                      *)

\* Once all calls have settled, a running proxy has a health task for the
\* current balancer of every pool and for nothing else: without it no
\* backend of the pool ever becomes routable.
HealthLoopForEveryPool ==
  state = "Running" /\ (\A c \in Callers : ~InFlight(c)) =>
    {<<h.name, h.lb>> : h \in live} =
      {<<lb_service_name(k[1], k[2]), router_config[k].lb>> :
         k \in {k \in Keys : router_config[k] # None}} \cup {<<MainHttp, None>>}

\* Once all calls have settled, a stopped proxy runs no background task.
StoppedMeansSilent ==
  state = "Stopped" /\ (\A c \in Callers : ~InFlight(c)) => live = {}

-----------------------------------------------------------------------------
\* What the tests "concurrent stop() callers resolve after the listener is
\* released" and "actually releases the listener port after stop()" say of
\* stop(): once it has resolved, a stopped proxy holds no listening socket.
ResolvedStopReleasesListener ==
  \A c \in StopCalls : pc[c] = "resolved" /\ state = "Stopped" => ~ListenerBound

\* The blocking setup of a start() panicked and the proxy still waits for it,
\* in Starting or in a stop() that began then; c waits for that start or stop.
LeftWaiting(c) ==
  /\ c \in LifecycleCalls /\ pc[c] \in {"wait_ready", "wait_start", "wait_stop"}
  /\ start_notifier # None /\ pc[start_notifier] = "panicked"
  /\ rx[c] # None /\ status[rx[c]] = "Pending"

\* Every promise settles: whatever a call waits for, a start's or a stop's
\* channel, the update lock or a task's end, it gets.  The exception is what
\* the code does when the setup of a start() panics: neither the state nor
\* the notifier is touched, and the calls that wait for that start are left
\* waiting; but no update call, and no call at any other point, is.
EveryCallSettles == \A c \in Callers : InFlight(c) ~> (Settled(c) \/ LeftWaiting(c))
=============================================================================
