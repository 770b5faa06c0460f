--------------------------- MODULE Gateway_proofs ---------------------------
(***************************************************************************)
(* Proofs about the proxy with traffic: what a request meets agrees with   *)
(* the promises that had settled when it arrived, for any sets of calls,   *)
(* requests, applications and upstreams.                                   *)
(*                                                                         *)
(* The argument has two halves.  TableHistory and StartedInv say, of every *)
(* state, which calls account for what is in the table and for the         *)
(* listener; a request that arrives reads its answer off them.  FrozenInv  *)
(* says that the order of the calls a request met never changes again, so  *)
(* the answer stays right.                                                 *)
(***************************************************************************)
EXTENDS Gateway, Lifecycle_proofs

\* The updates of one kind that took effect.
Committed(u) == pc[u] \in {"services", "resolved"}
InForce(op, app, x) == {u \in Calls(op, app, x) : Committed(u)}

\* The order of the calls is settled: a call's predecessors have resolved,
\* and the calls a request met had been made.
FrozenInv ==
  /\ \A c \in Callers : earlier[c] \subseteq Resolved
  /\ \A r \in Connections : \A c \in resolved_then[r] \cup pending_then[r] :
       c \in Callers /\ pc[c] # "idle"

\* An upstream in the table was put there by an add that had not resolved
\* when any of the removes that took effect was made.
PresentInv ==
  \A app \in Applications, x \in UpstreamArgs : x \in upstreams_by_app[app] =>
    \E a \in InForce("add", app, x) : \A d \in InForce("remove", app, x) : a \notin earlier[d]

\* An upstream that was added and is not in the table was taken out by a
\* remove, one that had not resolved when the add was made.
AbsentInv ==
  \A app \in Applications, x \in UpstreamArgs : x \notin upstreams_by_app[app] =>
    \A a \in InForce("add", app, x) : \E d \in InForce("remove", app, x) : d \notin earlier[a]

TableHistory == PresentInv /\ AbsentInv

\* A start that was answered with success is still in effect unless a stop
\* was made that had not resolved when that start was made.
Succeeded(s) == pc[s] = "resolved" \/ (pc[s] = "wait_ready" /\ status[rx[s]] = "Ok")
StartedInv ==
  \A s \in StartCalls : Succeeded(s) =>
    \/ state = "Running"
    \/ \E c \in StopCalls : pc[c] # "idle" /\ c \notin earlier[s]

\* A stop only ever resolves.
StopsResolveInv ==
  \A c \in StopCalls : status[c] # "Err" /\ pc[c] \in StopPc \cup {"resolved"}

\* What a request that was given a pool may rely on.
Route == [app : Applications, is_upgrade : BOOLEAN, pool : PoolConfig \cup {None}]
Justified(r, backend) ==
  \E x \in UpstreamArgs :
    /\ x.endpoint = backend /\ Serves(x, ctx[r].is_upgrade)
    /\ \E a \in Calls("add", ctx[r].app, x) \cap (resolved_then[r] \cup pending_then[r]) :
         ~\E d \in Calls("remove", ctx[r].app, x) \cap resolved_then[r] : a \in earlier[d]
RoutedInv ==
  /\ ctx \in [Connections -> Route \cup {None}]
  /\ \A r \in Connections : met[r] = "routed" =>
       /\ ctx[r].pool \in PoolConfig
       /\ \A backend \in ctx[r].pool.backends : Justified(r, backend)

\* The inductive invariant behind the properties about upstreams.
TrafficInv ==
  /\ TypeInv /\ LockInv /\ RouterInv /\ GatewayTypeOK /\ FrozenInv
  /\ TableHistory /\ RoutedInv /\ SentToAddedUpstream /\ AddedUpstreamHasPool

\* The inductive invariant behind the property about the listener.
ReachableInv ==
  /\ CarefulInv /\ NotifierInv /\ StopChannelInv /\ FrozenInv
  /\ StopsResolveInv /\ StartedInv /\ StartedProxyConnects

-----------------------------------------------------------------------------
(* What the steps leave alone.                                             *)

\* Every step of the composition is a step of the proxy or leaves it alone.
LEMMA GatewayStepIsProxyStep ==
  ASSUME [GatewayNext]_gatewayVars
  PROVE  [Next]_vars
BY CallTypes
DEF GatewayNext, gatewayVars, CallMade, ProxyStep, Observed, Unreachable, RequestFilter,
    UpstreamPeer, Idle, Next

\* A call that was made stays made, and one that resolved stays resolved.
CallsAdvance ==
  \A c \in Callers :
    /\ pc[c] # "idle" => pc'[c] # "idle"
    /\ pc[c] = "resolved" => pc'[c] = "resolved"

\* Every step of the proxy moves its calls forward.
LEMMA PcStep ==
  ASSUME TypeInv, [Next]_vars
  PROVE  CallsAdvance
<1>1. ASSUME NEW s \in StartCalls, StartCallMade(s) \/ StartStep(s) PROVE CallsAdvance
  BY <1>1, CallTypes
  DEF CallsAdvance, StartCallMade, StartStep, StartJoins, StartRefused, StartBegins, StartSetup,
      StartSetupFails, StartSetupPanics, StartLbTask, StartMainHttp, StartCommits,
      StartCancelStopAll, StartCancelled, StartReady, Goto, SettledBy, MayBegin, TypeInv, TypeOK,
      RxMade
<1>2. ASSUME NEW c \in StopCalls, StopCallMade(c) \/ StopStep(c) PROVE CallsAdvance
  BY <1>2, CallTypes
  DEF CallsAdvance, StopCallMade, StopStep, StopFindsStopped, StopJoins, StopBegins, StopStopsAll,
      StopFinishes, StopEnds, StopReady, Goto, SettledBy, MayBegin, TypeInv, TypeOK, RxMade
<1>3. ASSUME NEW u \in UpdateCalls, UpdateCalled(u) \/ UpdateStep(u) PROVE CallsAdvance
  BY <1>3, CallTypes
  DEF CallsAdvance, UpdateStep, UpdateCalled, UpdateRefused, UpdateChecked, UpdateReadsTable,
      UpdateRebuildFails, UpdateCommits, UpdateUpserts, UpdateRemoves, UpdateDone, Goto, MayBegin,
      TypeInv, TypeOK
<1>4. CASE UNCHANGED pc
  BY <1>4 DEF CallsAdvance
<1> QED
  BY <1>1, <1>2, <1>3, <1>4, RegistryFrame DEF Next, AllSettled, vars, taskVars

\* What a call was asked and what had resolved before it do not change once
\* it was made.
HistoryKept ==
  \A c \in Callers : pc[c] # "idle" =>
    earlier'[c] = earlier[c] /\ (c \in UpdateCalls => req'[c] = req[c])

\* A call's arguments are set when it is made and never again.
LEMMA ReqStep ==
  ASSUME TypeInv, [Next]_vars, NEW u \in UpdateCalls, pc[u] # "idle"
  PROVE  req'[u] = req[u]
<1>1. ASSUME NEW v \in UpdateCalls, UpdateCalled(v) PROVE req'[u] = req[u]
  BY <1>1 DEF UpdateCalled, MayBegin, TypeInv, TypeOK
<1>2. ASSUME NEW v \in UpdateCalls, UpdateStep(v) PROVE req'[u] = req[u]
  BY <1>2
  DEF UpdateStep, UpdateRefused, UpdateChecked, UpdateReadsTable, UpdateRebuildFails,
      UpdateCommits, UpdateUpserts, UpdateRemoves, UpdateDone, tableVars
<1>3. CASE UNCHANGED tableVars
  BY <1>3 DEF tableVars
<1> QED
  BY <1>1, <1>2, <1>3, StartFrame, StopFrame, RegistryFrame DEF Next, AllSettled, vars

\* Every step of the composition keeps the history.
LEMMA HistoryStep ==
  ASSUME TypeInv, earlier \in [Callers -> SUBSET Callers], [GatewayNext]_gatewayVars
  PROVE  /\ HistoryKept
         /\ \A c \in Callers : earlier'[c] = earlier[c] \/ earlier'[c] \subseteq Resolved
         /\ earlier' \in [Callers -> SUBSET Callers]
<1>1. \A u \in UpdateCalls : pc[u] # "idle" => req'[u] = req[u]
  BY ReqStep, GatewayStepIsProxyStep
<1>2. ASSUME NEW c \in Callers, CallMade(c)
      PROVE  /\ pc[c] = "idle"
             /\ earlier' = [earlier EXCEPT ![c] = earlier'[c]]
             /\ earlier'[c] \subseteq Resolved
  BY <1>2
  DEF CallMade, StartCallMade, StartJoins, StartRefused, StartBegins, StopCallMade,
      StopFindsStopped, StopJoins, StopBegins, UpdateCalled, MayBegin
<1>3. Resolved \subseteq Callers
  BY DEF Resolved
<1>4. (\E c \in Callers : CallMade(c)) \/ UNCHANGED earlier
  BY DEF GatewayNext, gatewayVars, ProxyStep, Observed, Unreachable, RequestFilter, UpstreamPeer,
     Idle
<1> QED BY <1>1, <1>2, <1>3, <1>4 DEF HistoryKept

\* Every step of the composition keeps the order of calls settled.
LEMMA FrozenStep ==
  ASSUME TypeInv, FrozenInv, earlier \in [Callers -> SUBSET Callers],
         resolved_then \in [Connections -> SUBSET Callers],
         pending_then \in [Connections -> SUBSET Callers],
         [GatewayNext]_gatewayVars
  PROVE  FrozenInv'
<1>1. CallsAdvance
  BY PcStep, GatewayStepIsProxyStep
<1>2. Resolved \subseteq Resolved'
  BY <1>1 DEF CallsAdvance, Resolved
<1>3. \A c \in Callers : earlier'[c] \subseteq Resolved'
  BY <1>2, HistoryStep DEF FrozenInv
<1>4. ASSUME NEW r \in Connections, Observed(r)
      PROVE  \A q \in Connections : \A c \in resolved_then'[q] \cup pending_then'[q] :
               c \in Callers /\ pc'[c] # "idle"
  BY <1>4, <1>1 DEF Observed, FrozenInv, Resolved, Pending, InFlight, CallsAdvance
<1>5. CASE UNCHANGED <<resolved_then, pending_then>>
  BY <1>1, <1>3, <1>5 DEF FrozenInv, CallsAdvance
<1>6. (\E r \in Connections : Observed(r)) \/ UNCHANGED <<resolved_then, pending_then>>
  BY DEF GatewayNext, gatewayVars, trafficVars, CallMade, ProxyStep, Unreachable, RequestFilter,
         UpstreamPeer, Idle
<1> QED BY <1>3, <1>4, <1>5, <1>6 DEF FrozenInv

-----------------------------------------------------------------------------
(* The table.                                                              *)

\* The table changes, and an update takes effect, in UpdateCommits alone.
LEMMA TableMoves ==
  ASSUME TypeInv, [Next]_vars
  PROVE  \/ \E u \in UpdateCalls : UpdateCommits(u)
         \/ /\ upstreams_by_app' = upstreams_by_app
            /\ \A u \in UpdateCalls : Committed(u)' <=> Committed(u)
<1> DEFINE Goal == \/ \E u \in UpdateCalls : UpdateCommits(u)
                   \/ /\ upstreams_by_app' = upstreams_by_app
                      /\ \A u \in UpdateCalls : Committed(u)' <=> Committed(u)
<1>1. ASSUME NEW u \in UpdateCalls, UpdateCalled(u) \/ UpdateStep(u) PROVE Goal
  BY <1>1, CallTypes
  DEF Committed, UpdateStep, UpdateCalled, UpdateRefused, UpdateChecked, UpdateReadsTable,
      UpdateRebuildFails, UpdateUpserts, UpdateRemoves, UpdateDone, Goto, MayBegin, tableVars,
      TypeInv, TypeOK
<1>2. ASSUME UNCHANGED tableVars, \A u \in UpdateCalls : pc'[u] = pc[u] PROVE Goal
  BY <1>2 DEF tableVars, Committed
<1> QED
  BY <1>1, <1>2, StartFrame, StopFrame, RegistryFrame DEF Next, AllSettled, vars, tableVars,
     taskVars

\* What UpdateCommits does to the table and to the calls in force.
LEMMA CommitFacts ==
  ASSUME TypeInv, LockInv, NEW u \in UpdateCalls, UpdateCommits(u)
  PROVE  /\ req[u] \in Request /\ req[u].app \in Applications /\ req' = req
         /\ pc[u] = "rebuild"
         /\ upstreams_by_app' = [upstreams_by_app EXCEPT ![req[u].app] =
                                   Applied(req[u], upstreams_by_app[req[u].app])]
         /\ \A op, app, x :
              InForce(op, app, x)' =
                InForce(op, app, x) \cup
                  (IF req[u] = [op |-> op, app |-> app, upstream |-> x] THEN {u} ELSE {})
<1>1. /\ req[u] \in Request /\ req[u].app \in Applications /\ req' = req
      /\ pc[u] = "rebuild"
      /\ upstreams_by_app' = [upstreams_by_app EXCEPT ![req[u].app] =
                                Applied(req[u], upstreams_by_app[req[u].app])]
  BY DEF UpdateCommits, LockInv, TypeInv, ReqMade
<1>2. \A v \in UpdateCalls : Committed(v)' <=> v = u \/ Committed(v)
  BY CallTypes DEF UpdateCommits, Goto, Committed, TypeInv, TypeOK
<1>3. \A op, app, x :
        InForce(op, app, x)' =
          InForce(op, app, x) \cup
            (IF req[u] = [op |-> op, app |-> app, upstream |-> x] THEN {u} ELSE {})
  BY <1>1, <1>2 DEF InForce, Calls
<1> QED BY <1>1, <1>3

\* A step other than a commit leaves the calls in force as they are.
LEMMA InForceKept ==
  ASSUME HistoryKept, \A u \in UpdateCalls : Committed(u)' <=> Committed(u)
  PROVE  \A op, app, x :
           /\ InForce(op, app, x)' = InForce(op, app, x)
           /\ \A u \in InForce(op, app, x) : u \in UpdateCalls /\ earlier'[u] = earlier[u]
BY CallTypes DEF InForce, Calls, Committed, HistoryKept

\* Every step keeps the calls behind the table's upstreams right.
LEMMA TableHistoryStep ==
  ASSUME TypeInv, LockInv, FrozenInv, TableHistory, earlier \in [Callers -> SUBSET Callers],
         [GatewayNext]_gatewayVars
  PROVE  TableHistory'
<1>1. CASE \E u \in UpdateCalls : UpdateCommits(u)
  <2>1. PICK u \in UpdateCalls : UpdateCommits(u)
    BY <1>1
  <2> DEFINE table(app) == upstreams_by_app[app]
             Asks(op, app, x) == req[u] = [op |-> op, app |-> app, upstream |-> x]
  <2>2. /\ req[u] \in Request /\ req[u].app \in Applications
        /\ pc[u] = "rebuild"
        /\ upstreams_by_app' = [upstreams_by_app EXCEPT ![req[u].app] =
                                  Applied(req[u], table(req[u].app))]
        /\ \A op, app, x :
             InForce(op, app, x)' = InForce(op, app, x) \cup (IF Asks(op, app, x) THEN {u} ELSE {})
    BY <2>1, CommitFacts
  <2>3. \A c \in Callers : u \notin earlier[c]
    BY <2>2 DEF FrozenInv, Resolved
  <2>4. \A c \in Callers : pc[c] # "idle" => earlier'[c] = earlier[c]
    BY HistoryStep DEF HistoryKept
  <2>5. \A op, app, x : \A v \in InForce(op, app, x)' :
          v \in Callers /\ earlier'[v] = earlier[v]
    BY <2>2, <2>4, CallTypes DEF InForce, Calls, Committed
  <2>6. ASSUME NEW app \in Applications, NEW x \in UpstreamArgs
        PROVE  x \in upstreams_by_app'[app] <=>
                 Asks("add", app, x) \/ (x \in table(app) /\ ~Asks("remove", app, x))
    <3>1. CASE app # req[u].app
      BY <2>2, <3>1 DEF TypeInv, TypeOK
    <3>2. CASE app = req[u].app
      <4>1. upstreams_by_app'[app] = Applied(req[u], table(app))
        BY <2>2, <3>2 DEF TypeInv, TypeOK
      <4>2. \A op : Asks(op, app, x) <=> req[u].op = op /\ req[u].upstream = x
        BY <2>2, <3>2 DEF Request
      <4>3. req[u].op \in {"add", "remove"}
        BY <2>2 DEF Request
      <4> QED BY <4>1, <4>2, <4>3 DEF Applied
    <3> QED BY <3>1, <3>2
  <2>7. PresentInv'
    <3> SUFFICES ASSUME NEW app \in Applications, NEW x \in UpstreamArgs,
                        x \in upstreams_by_app'[app]
                 PROVE  \E a \in InForce("add", app, x)' :
                          \A d \in InForce("remove", app, x)' : a \notin earlier'[d]
      BY DEF PresentInv
    <3>1. CASE Asks("add", app, x)
      BY <3>1, <2>2, <2>3, <2>5
    <3>2. CASE ~Asks("add", app, x)
      <4>1. x \in table(app) /\ ~Asks("remove", app, x)
        BY <2>6, <3>2
      <4>2. PICK a \in InForce("add", app, x) :
              \A d \in InForce("remove", app, x) : a \notin earlier[d]
        BY <4>1 DEF TableHistory, PresentInv
      <4>3. a \in InForce("add", app, x)' /\ InForce("remove", app, x)' = InForce("remove", app, x)
        BY <2>2, <4>1, <4>2
      <4> QED BY <2>5, <4>2, <4>3
    <3> QED BY <3>1, <3>2
  <2>8. AbsentInv'
    <3> SUFFICES ASSUME NEW app \in Applications, NEW x \in UpstreamArgs,
                        x \notin upstreams_by_app'[app], NEW a \in InForce("add", app, x)'
                 PROVE  \E d \in InForce("remove", app, x)' : d \notin earlier'[a]
      BY DEF AbsentInv
    <3>1. CASE Asks("remove", app, x)
      BY <3>1, <2>2, <2>3, <2>5
    <3>2. CASE ~Asks("remove", app, x)
      <4>1. x \notin table(app) /\ ~Asks("add", app, x)
        BY <2>6, <3>2
      <4>2. a \in InForce("add", app, x)
        BY <2>2, <4>1
      <4>3. PICK d \in InForce("remove", app, x) : d \notin earlier[a]
        BY <4>1, <4>2 DEF TableHistory, AbsentInv
      <4>4. d \in InForce("remove", app, x)'
        BY <2>2, <4>3
      <4>5. earlier'[a] = earlier[a]
        BY <2>5
      <4> QED BY <4>3, <4>4, <4>5
    <3> QED BY <3>1, <3>2
  <2> QED BY <2>7, <2>8 DEF TableHistory
<1>2. ASSUME upstreams_by_app' = upstreams_by_app,
             \A u \in UpdateCalls : Committed(u)' <=> Committed(u)
      PROVE  TableHistory'
  <2>1. \A op, app, x :
          /\ InForce(op, app, x)' = InForce(op, app, x)
          /\ \A u \in InForce(op, app, x) : earlier'[u] = earlier[u]
    BY <1>2, InForceKept, HistoryStep
  <2>2. PresentInv'
    BY <1>2, <2>1 DEF TableHistory, PresentInv
  <2>3. AbsentInv'
    BY <1>2, <2>1 DEF TableHistory, AbsentInv
  <2> QED BY <2>2, <2>3 DEF TableHistory
<1> QED BY <1>1, <1>2, TableMoves, GatewayStepIsProxyStep

-----------------------------------------------------------------------------
(* The requests.                                                           *)

\* What may happen to a request in one step: nothing, it arrives, or it is
\* sent on.
RequestKept(r) ==
  /\ met'[r] = met[r] /\ ctx'[r] = ctx[r] /\ peer'[r] = peer[r]
  /\ resolved_then'[r] = resolved_then[r] /\ pending_then'[r] = pending_then[r]

\* The functions over requests stay functions; a step touches one request.
LEMMA RequestMoves ==
  ASSUME GatewayTypeOK, RoutedInv, [GatewayNext]_gatewayVars, NEW r \in Connections
  PROVE  \/ RequestKept(r)
         \/ Unreachable(r)
         \/ \E app \in Applications, is_upgrade \in BOOLEAN : RequestFilter(r, app, is_upgrade)
         \/ UpstreamPeer(r)
<1>1. ASSUME NEW q \in Connections, q # r, Unreachable(q) PROVE RequestKept(r)
  BY <1>1 DEF Unreachable, Observed, RequestKept, GatewayTypeOK
<1>2. ASSUME NEW q \in Connections, q # r, NEW app \in Applications, NEW is_upgrade \in BOOLEAN,
             RequestFilter(q, app, is_upgrade)
      PROVE  RequestKept(r)
  BY <1>2 DEF RequestFilter, Observed, RequestKept, GatewayTypeOK, RoutedInv
<1>3. ASSUME NEW q \in Connections, q # r, UpstreamPeer(q) PROVE RequestKept(r)
  BY <1>3 DEF UpstreamPeer, RequestKept, GatewayTypeOK
<1>4. CASE UNCHANGED trafficVars
  BY <1>4 DEF RequestKept, trafficVars
<1> QED
  BY <1>1, <1>2, <1>3, <1>4 DEF GatewayNext, gatewayVars, CallMade, ProxyStep, Idle

\* The calls a request met are the same ever after, and in the same order.
LEMMA CallsMet ==
  ASSUME FrozenInv, HistoryKept, NEW r \in Connections,
         NEW S \in SUBSET (resolved_then[r] \cup pending_then[r])
  PROVE  \A op, app, x :
           /\ Calls(op, app, x)' \cap S = Calls(op, app, x) \cap S
           /\ \A u \in Calls(op, app, x) \cap S : earlier'[u] = earlier[u]
BY CallTypes DEF FrozenInv, HistoryKept, Calls

\* What justified sending a request to an address justifies it ever after.
LEMMA JustifiedKept ==
  ASSUME FrozenInv, HistoryKept, NEW r \in Connections, ctx'[r] = ctx[r],
         resolved_then'[r] = resolved_then[r], pending_then'[r] = pending_then[r],
         NEW backend, Justified(r, backend)
  PROVE  Justified(r, backend)'
<1>1. PICK x \in UpstreamArgs :
        /\ x.endpoint = backend /\ Serves(x, ctx[r].is_upgrade)
        /\ \E a \in Calls("add", ctx[r].app, x) \cap (resolved_then[r] \cup pending_then[r]) :
             ~\E d \in Calls("remove", ctx[r].app, x) \cap resolved_then[r] : a \in earlier[d]
  BY DEF Justified
<1>2. PICK a \in Calls("add", ctx[r].app, x) \cap (resolved_then[r] \cup pending_then[r]) :
        ~\E d \in Calls("remove", ctx[r].app, x) \cap resolved_then[r] : a \in earlier[d]
  BY <1>1
<1>3. a \in Calls("add", ctx[r].app, x)' \cap (resolved_then[r] \cup pending_then[r])
  BY <1>2, CallsMet
<1>4. /\ Calls("remove", ctx[r].app, x)' \cap resolved_then[r] =
           Calls("remove", ctx[r].app, x) \cap resolved_then[r]
      /\ \A d \in Calls("remove", ctx[r].app, x) \cap resolved_then[r] : earlier'[d] = earlier[d]
  BY CallsMet
<1>5. ~\E d \in Calls("remove", ctx[r].app, x)' \cap resolved_then[r] : a \in earlier'[d]
  BY <1>2, <1>4
<1> QED BY <1>1, <1>3, <1>5 DEF Justified, Serves, Calls

\* The pools of the router's configuration hold the upstreams of the table,
\* and a request that gets none finds none of its kind there.
LEMMA PoolMatches ==
  ASSUME TypeInv, RouterInv, NEW app \in Applications, NEW is_upgrade \in BOOLEAN
  PROVE  LET pool == router_config[PoolKey(app, is_upgrade)] IN
         /\ pool \in PoolConfig \cup {None}
         /\ pool # None => \A backend \in pool.backends : \E x \in upstreams_by_app[app] :
              x.endpoint = backend /\ Serves(x, is_upgrade)
         /\ pool = None => \A x \in upstreams_by_app[app] : ~Serves(x, is_upgrade)
<1> DEFINE key == PoolKey(app, is_upgrade)
           pool == router_config[key]
<1>1. \A t \in TransportKind : <<app, t>> \in Keys /\ PoolServes(<<app, t>>)
  BY DEF RouterInv, Keys
<1>2. router_config = pools /\ upstreams_by_app[app] \subseteq UpstreamArgs
  BY DEF RouterInv, TypeInv, TypeOK
<1>3. /\ key = <<app, key[2]>> /\ key[2] \in TransportKind
      /\ is_upgrade => key[2] = "Ws"
      /\ ~is_upgrade => key[2] \in {"Http1", "Http2"}
      /\ ~is_upgrade /\ pool = None => router_config[<<app, "Http2">>] = None /\ key[2] = "Http1"
  BY DEF PoolKey, TransportKind
<1>4. pool \in PoolConfig \cup {None}
  BY <1>1, <1>3 DEF TypeInv, TypeOK
<1>5. ASSUME pool # None, NEW backend \in pool.backends
      PROVE  \E x \in upstreams_by_app[app] : x.endpoint = backend /\ Serves(x, is_upgrade)
  BY <1>1, <1>2, <1>3, <1>5 DEF PoolServes, Serves
<1>6. ASSUME pool = None, NEW x \in upstreams_by_app[app], Serves(x, is_upgrade)
      PROVE  FALSE
  <2>1. \A t \in TransportKind : router_config[<<app, t>>] = None => x.transport # t
    BY <1>1, <1>2 DEF PoolServes
  <2> QED BY <1>3, <1>6, <2>1 DEF Serves, TransportKind
<1> QED BY <1>4, <1>5, <1>6

\* A request that arrives reads its answer off the calls behind the table.
LEMMA Arrival ==
  ASSUME TypeInv, LockInv, RouterInv, TableHistory,
         NEW app \in Applications, NEW is_upgrade \in BOOLEAN,
         NEW pool, pool = router_config[PoolKey(app, is_upgrade)]
  PROVE  /\ pool \in PoolConfig \cup {None}
         /\ pool # None => \A backend \in pool.backends :
              \E x \in UpstreamArgs :
                /\ x.endpoint = backend /\ Serves(x, is_upgrade)
                /\ \E a \in Calls("add", app, x) \cap (Resolved \cup Pending) :
                     ~\E d \in Calls("remove", app, x) \cap Resolved : a \in earlier[d]
         /\ pool = None => \A x \in UpstreamArgs : Serves(x, is_upgrade) =>
              \A a \in Calls("add", app, x) \cap Resolved :
                \E d \in Calls("remove", app, x) \cap (Resolved \cup Pending) : d \notin earlier[a]
<1>1. \A u \in UpdateCalls :
        /\ pc[u] = "resolved" <=> u \in Resolved
        /\ Committed(u) => u \in Resolved \cup Pending
        /\ u \in Resolved => Committed(u)
  BY CallTypes DEF Committed, Resolved, Pending, InFlight, Settled, Outcomes
<1>2. \A op, x : /\ InForce(op, app, x) \subseteq Calls(op, app, x) \cap (Resolved \cup Pending)
                 /\ Calls(op, app, x) \cap Resolved \subseteq InForce(op, app, x)
  BY <1>1 DEF InForce, Calls
<1>3. ASSUME pool # None, NEW backend \in pool.backends
      PROVE  \E x \in UpstreamArgs :
               /\ x.endpoint = backend /\ Serves(x, is_upgrade)
               /\ \E a \in Calls("add", app, x) \cap (Resolved \cup Pending) :
                    ~\E d \in Calls("remove", app, x) \cap Resolved : a \in earlier[d]
  <2>1. PICK x \in upstreams_by_app[app] : x.endpoint = backend /\ Serves(x, is_upgrade)
    BY <1>3, PoolMatches
  <2>2. x \in UpstreamArgs
    BY DEF TypeInv, TypeOK
  <2>3. PICK a \in InForce("add", app, x) :
          \A d \in InForce("remove", app, x) : a \notin earlier[d]
    BY <2>2 DEF TableHistory, PresentInv
  <2>4. /\ a \in Calls("add", app, x) \cap (Resolved \cup Pending)
        /\ ~\E d \in Calls("remove", app, x) \cap Resolved : a \in earlier[d]
    BY <1>2, <2>3
  <2> QED BY <2>1, <2>2, <2>4
<1>4. ASSUME pool = None, NEW x \in UpstreamArgs, Serves(x, is_upgrade),
             NEW a \in Calls("add", app, x) \cap Resolved
      PROVE  \E d \in Calls("remove", app, x) \cap (Resolved \cup Pending) : d \notin earlier[a]
  <2>1. x \notin upstreams_by_app[app]
    BY <1>4, PoolMatches
  <2>2. PICK d \in InForce("remove", app, x) : d \notin earlier[a]
    BY <1>2, <2>1 DEF TableHistory, AbsentInv
  <2> QED BY <1>2, <2>2
<1>5. pool \in PoolConfig \cup {None}
  BY PoolMatches
<1> QED BY <1>3, <1>4, <1>5

\* One request's part of the three properties and of RoutedInv.
RequestInv(r) ==
  /\ met[r] = "routed" => /\ ctx[r].pool \in PoolConfig
                          /\ \A backend \in ctx[r].pool.backends : Justified(r, backend)
  /\ met[r] = "sent" => Justified(r, peer[r])
  /\ met[r] = "missing_pool" =>
       \A x \in UpstreamArgs : Serves(x, ctx[r].is_upgrade) =>
         \A a \in Calls("add", ctx[r].app, x) \cap resolved_then[r] :
           \E d \in Calls("remove", ctx[r].app, x) \cap (resolved_then[r] \cup pending_then[r]) :
             d \notin earlier[a]

\* The properties, request by request, in this state and in the next one.
LEMMA RequestInvs ==
  /\ RoutedInv <=> /\ ctx \in [Connections -> Route \cup {None}]
                   /\ \A r \in Connections : met[r] = "routed" =>
                        /\ ctx[r].pool \in PoolConfig
                        /\ \A backend \in ctx[r].pool.backends : Justified(r, backend)
  /\ RoutedInv' <=> /\ ctx' \in [Connections -> Route \cup {None}]
                    /\ \A r \in Connections : met'[r] = "routed" =>
                         /\ ctx'[r].pool \in PoolConfig
                         /\ \A backend \in ctx'[r].pool.backends : Justified(r, backend)'
  /\ SentToAddedUpstream <=> \A r \in Connections : met[r] = "sent" => Justified(r, peer[r])
  /\ SentToAddedUpstream' <=> \A r \in Connections : met'[r] = "sent" => Justified(r, peer[r])'
BY DEF RoutedInv, SentToAddedUpstream, Justified, Route, PoolConfig, Calls, Serves

\* A request nothing happens to keeps its part of the properties.
LEMMA RequestInvKept ==
  ASSUME FrozenInv, HistoryKept, NEW r \in Connections, RequestKept(r), RequestInv(r)
  PROVE  RequestInv(r)'
<1>1. \A backend : Justified(r, backend) => Justified(r, backend)'
  BY JustifiedKept DEF RequestKept
<1>2. Justified(r, peer[r]) => Justified(r, peer[r])'
  BY <1>1 DEF RequestKept, Justified
<1>3. ASSUME met[r] = "missing_pool", NEW x \in UpstreamArgs, Serves(x, ctx[r].is_upgrade),
             NEW a \in Calls("add", ctx[r].app, x)' \cap resolved_then[r]
      PROVE  \E d \in Calls("remove", ctx[r].app, x)' \cap (resolved_then[r] \cup pending_then[r]) :
               d \notin earlier'[a]
  <2>1. a \in Calls("add", ctx[r].app, x) \cap resolved_then[r] /\ earlier'[a] = earlier[a]
    BY CallsMet DEF RequestKept
  <2>2. PICK d \in Calls("remove", ctx[r].app, x) \cap (resolved_then[r] \cup pending_then[r]) :
          d \notin earlier[a]
    BY <1>3, <2>1 DEF RequestInv
  <2>3. d \in Calls("remove", ctx[r].app, x)' \cap (resolved_then[r] \cup pending_then[r])
    BY CallsMet DEF RequestKept
  <2> QED BY <2>1, <2>2, <2>3
<1> QED BY <1>1, <1>2, <1>3 DEF RequestInv, RequestKept, PoolConfig, Serves, Calls

\* Every step keeps every request's part of the properties.
LEMMA RequestStep ==
  ASSUME TypeInv, LockInv, RouterInv, GatewayTypeOK, FrozenInv, TableHistory, RoutedInv,
         [GatewayNext]_gatewayVars, NEW r \in Connections, RequestInv(r)
  PROVE  RequestInv(r)'
<1>1. HistoryKept
  BY HistoryStep DEF GatewayTypeOK
<1>2. CASE RequestKept(r)
  BY <1>1, <1>2, RequestInvKept
<1>3. CASE Unreachable(r)
  BY <1>3 DEF Unreachable, Observed, RequestInv, GatewayTypeOK
<1>4. ASSUME NEW app \in Applications, NEW is_upgrade \in BOOLEAN, RequestFilter(r, app, is_upgrade)
      PROVE  RequestInv(r)'
  <2> DEFINE pool == router_config[PoolKey(app, is_upgrade)]
  <2>1. /\ UNCHANGED <<vars, earlier>>
        /\ met'[r] = IF pool = None THEN "missing_pool" ELSE "routed"
        /\ ctx'[r] = [app |-> app, is_upgrade |-> is_upgrade, pool |-> pool]
        /\ resolved_then'[r] = Resolved /\ pending_then'[r] = Pending
    BY <1>4 DEF RequestFilter, Observed, GatewayTypeOK, RoutedInv
  <2>2. ctx'[r].app = app /\ ctx'[r].is_upgrade = is_upgrade /\ ctx'[r].pool = pool
    BY <2>1
  <2>3. \A op, x : Calls(op, app, x)' = Calls(op, app, x)
    BY <2>1 DEF Calls, vars, tableVars
  <2>4. CASE pool = None
    <3>1. \A x \in UpstreamArgs : Serves(x, is_upgrade) =>
            \A a \in Calls("add", app, x) \cap Resolved :
              \E d \in Calls("remove", app, x) \cap (Resolved \cup Pending) : d \notin earlier[a]
      BY <2>4, Arrival
    <3>2. met'[r] = "missing_pool"
      BY <2>1, <2>4
    <3> QED BY <3>1, <3>2, <2>1, <2>2, <2>3 DEF RequestInv, Serves
  <2>5. CASE pool # None
    <3>1. met'[r] = "routed" /\ pool \in PoolConfig
      BY <2>1, <2>5, Arrival
    <3>2. ASSUME NEW backend \in pool.backends PROVE Justified(r, backend)'
      <4>1. \E x \in UpstreamArgs :
              /\ x.endpoint = backend /\ Serves(x, is_upgrade)
              /\ \E a \in Calls("add", app, x) \cap (Resolved \cup Pending) :
                   ~\E d \in Calls("remove", app, x) \cap Resolved : a \in earlier[d]
        BY <2>5, <3>2, Arrival
      <4> QED BY <4>1, <2>1, <2>2, <2>3 DEF Justified, Serves
    <3>3. PoolConfig' = PoolConfig
      BY DEF PoolConfig
    <3> QED BY <3>1, <3>2, <3>3, <2>2 DEF RequestInv
  <2> QED BY <2>4, <2>5
<1>5. CASE UpstreamPeer(r)
  <2>1. /\ met[r] = "routed" /\ met'[r] \in {"sent", "unhealthy"}
        /\ met'[r] = "sent" => peer'[r] \in ctx[r].pool.backends
        /\ ctx' = ctx /\ resolved_then' = resolved_then /\ pending_then' = pending_then
    BY <1>5 DEF UpstreamPeer, GatewayTypeOK
  <2>2. ASSUME met'[r] = "sent" PROVE Justified(r, peer[r])'
    <3>1. PICK backend \in ctx[r].pool.backends : peer'[r] = backend
      BY <2>1, <2>2
    <3>2. Justified(r, backend)'
      BY <1>1, <2>1, <3>1, JustifiedKept DEF RequestInv
    <3> QED BY <3>1, <3>2 DEF Justified
  <2> QED BY <2>1, <2>2 DEF RequestInv
<1> QED BY <1>2, <1>3, <1>4, <1>5, RequestMoves

\* Every step keeps the types.
LEMMA GatewayTypeStep ==
  ASSUME TypeInv, RouterInv, GatewayTypeOK, RoutedInv, [GatewayNext]_gatewayVars
  PROVE  GatewayTypeOK' /\ ctx' \in [Connections -> Route \cup {None}]
<1>1. TypeOK'
  BY TypeStep, GatewayStepIsProxyStep DEF TypeInv
<1>2. earlier' \in [Callers -> SUBSET Callers]
  BY HistoryStep DEF GatewayTypeOK
<1>3. /\ ctx \in [Connections -> Route \cup {None}]
      /\ Resolved \subseteq Callers /\ Pending \subseteq Callers
  BY DEF RoutedInv, Resolved, Pending
<1>4. ASSUME NEW r \in Connections, Unreachable(r)
      PROVE  GatewayTypeOK' /\ ctx' \in [Connections -> Route \cup {None}]
  BY <1>1, <1>2, <1>3, <1>4 DEF Unreachable, Observed, GatewayTypeOK
<1>5. ASSUME NEW r \in Connections, NEW app \in Applications, NEW is_upgrade \in BOOLEAN,
             RequestFilter(r, app, is_upgrade)
      PROVE  GatewayTypeOK' /\ ctx' \in [Connections -> Route \cup {None}]
  <2>1. router_config[PoolKey(app, is_upgrade)] \in PoolConfig \cup {None}
    BY PoolMatches
  <2>2. [app |-> app, is_upgrade |-> is_upgrade,
         pool |-> router_config[PoolKey(app, is_upgrade)]] \in Route
    BY <2>1 DEF Route
  <2> QED BY <1>1, <1>2, <1>3, <1>5, <2>2 DEF RequestFilter, Observed, GatewayTypeOK
<1>6. ASSUME NEW r \in Connections, UpstreamPeer(r)
      PROVE  GatewayTypeOK' /\ ctx' \in [Connections -> Route \cup {None}]
  <2>1. ctx[r].pool.backends \subseteq Endpoints
    BY <1>6 DEF UpstreamPeer, RoutedInv, PoolConfig
  <2> QED BY <1>1, <1>2, <1>3, <1>6, <2>1 DEF UpstreamPeer, GatewayTypeOK
<1>7. CASE UNCHANGED trafficVars
  BY <1>1, <1>2, <1>3, <1>7 DEF GatewayTypeOK, trafficVars
<1> QED
  BY <1>4, <1>5, <1>6, <1>7 DEF GatewayNext, gatewayVars, CallMade, ProxyStep, Idle

\* The invariant behind the properties about upstreams.
LEMMA TrafficInvariant == GatewaySpec => []TrafficInv
<1>1. GatewayInit => TrafficInv
  <2> SUFFICES ASSUME GatewayInit PROVE TrafficInv
    OBVIOUS
  <2>1. TypeInv
    BY InitTypeInv DEF GatewayInit
  <2>2. LockInv /\ RouterInv
    BY CallTypes DEF GatewayInit, Init, LockInv, RouterInv, PoolServes, build_router_config, Keys
  <2>3. GatewayTypeOK
    BY <2>1 DEF GatewayInit, GatewayTypeOK, TypeInv
  <2>4. FrozenInv
    BY DEF GatewayInit, FrozenInv
  <2>5. \A u \in UpdateCalls : ~Committed(u)
    BY CallTypes DEF GatewayInit, Init, Committed
  <2>6. TableHistory
    BY <2>5 DEF GatewayInit, Init, TableHistory, PresentInv, AbsentInv, InForce, Calls
  <2>7. RoutedInv /\ SentToAddedUpstream /\ AddedUpstreamHasPool
    BY DEF GatewayInit, RoutedInv, SentToAddedUpstream, AddedUpstreamHasPool
  <2> QED BY <2>1, <2>2, <2>3, <2>4, <2>6, <2>7 DEF TrafficInv
<1>2. TrafficInv /\ [GatewayNext]_gatewayVars => TrafficInv'
  <2> SUFFICES ASSUME TrafficInv, [GatewayNext]_gatewayVars PROVE TrafficInv'
    OBVIOUS
  <2> USE DEF TrafficInv
  <2>1. TypeInv' /\ LockInv' /\ RouterInv'
    BY GatewayStepIsProxyStep, TypeStep, LockStep, RouterStep
  <2>2. FrozenInv' /\ TableHistory'
    BY FrozenStep, TableHistoryStep DEF GatewayTypeOK
  <2>3. GatewayTypeOK' /\ ctx' \in [Connections -> Route \cup {None}]
    BY GatewayTypeStep
  <2>4. \A r \in Connections : RequestInv(r)
    BY RequestInvs DEF RequestInv, AddedUpstreamHasPool
  <2>5. \A r \in Connections : RequestInv(r)'
    BY <2>4, RequestStep
  <2>6. RoutedInv' /\ SentToAddedUpstream'
    BY <2>3, <2>5, RequestInvs DEF RequestInv
  <2>7. AddedUpstreamHasPool'
    BY <2>5 DEF RequestInv, AddedUpstreamHasPool
  <2> QED BY <2>1, <2>2, <2>3, <2>6, <2>7
<1> QED BY <1>1, <1>2, PTL DEF GatewaySpec

\* Traffic and calls keep their types, and every request is sent to a
\* configured address or to none.
THEOREM GatewayTypeCorrect == GatewaySpec => []GatewayTypeOK
<1>1. TrafficInv => GatewayTypeOK
  BY DEF TrafficInv
<1> QED BY <1>1, TrafficInvariant, PTL

\* request_filter and upstream_peer never use a removed upstream for a request
\* that arrived after removeUpstream() resolved, whatever calls race.
THEOREM RequestsGoToAddedUpstreams == GatewaySpec => []SentToAddedUpstream
<1>1. TrafficInv => SentToAddedUpstream
  BY DEF TrafficInv
<1> QED BY <1>1, TrafficInvariant, PTL

\* request_filter finds a pool for every request that arrives after
\* addUpstream() resolved and before a removeUpstream() of it is made.
THEOREM AddedUpstreamIsServed == GatewaySpec => []AddedUpstreamHasPool
<1>1. TrafficInv => AddedUpstreamHasPool
  BY DEF TrafficInv
<1> QED BY <1>1, TrafficInvariant, PTL

-----------------------------------------------------------------------------
(* The listener.                                                           *)

\* Every step lets stops only resolve.
LEMMA StopsResolveStep ==
  ASSUME TypeInv, NotifierInv, StopChannelInv, StopsResolveInv, [Next]_vars
  PROVE  StopsResolveInv'
<1>1. ASSUME NEW s \in StartCalls, StartJoins(s) PROVE StopsResolveInv'
  BY <1>1, CallTypes
  DEF StartJoins, Goto, MayBegin, StopsResolveInv, StopPc, NotifierInv, StopChannelInv,
      StopWaitersServed, TypeInv, TypeOK, RxMade
<1>2. ASSUME NEW s \in StartCalls, StartRefused(s) PROVE StopsResolveInv'
  BY <1>2, CallTypes
  DEF StartRefused, Goto, MayBegin, lifecycleVars, StopsResolveInv, StopPc, NotifierInv,
      StopChannelInv, StopWaitersServed, TypeInv, TypeOK, RxMade
<1>3. ASSUME NEW s \in StartCalls, StartBegins(s) PROVE StopsResolveInv'
  BY <1>3, CallTypes
  DEF StartBegins, Goto, MayBegin, StopsResolveInv, StopPc, NotifierInv, StopChannelInv,
      StopWaitersServed, TypeInv, TypeOK, RxMade
<1>4. ASSUME NEW s \in StartCalls, StartSetup(s) PROVE StopsResolveInv'
  BY <1>4, CallTypes
  DEF StartSetup, Goto, lifecycleVars, StopsResolveInv, StopPc, NotifierInv, StopChannelInv,
      StopWaitersServed, TypeInv, TypeOK, RxMade
<1>5. ASSUME NEW s \in StartCalls, StartSetupFails(s) PROVE StopsResolveInv'
  BY <1>5, CallTypes
  DEF StartSetupFails, Goto, TakeAndSend, StopsResolveInv, StopPc, NotifierInv, StopChannelInv,
      StopWaitersServed, TypeInv, TypeOK, RxMade
<1>6. ASSUME NEW s \in StartCalls, StartSetupPanics(s) PROVE StopsResolveInv'
  BY <1>6, CallTypes
  DEF StartSetupPanics, Goto, lifecycleVars, StopsResolveInv, StopPc, NotifierInv, StopChannelInv,
      StopWaitersServed, TypeInv, TypeOK, RxMade
<1>7. ASSUME NEW s \in StartCalls, StartLbTask(s) PROVE StopsResolveInv'
  BY <1>7, CallTypes
  DEF StartLbTask, lifecycleVars, StopsResolveInv, StopPc, NotifierInv, StopChannelInv,
      StopWaitersServed, TypeInv, TypeOK, RxMade
<1>8. ASSUME NEW s \in StartCalls, StartMainHttp(s) PROVE StopsResolveInv'
  BY <1>8, CallTypes
  DEF StartMainHttp, Goto, lifecycleVars, StopsResolveInv, StopPc, NotifierInv, StopChannelInv,
      StopWaitersServed, TypeInv, TypeOK, RxMade
<1>9. ASSUME NEW s \in StartCalls, StartCommits(s) PROVE StopsResolveInv'
  BY <1>9, CallTypes
  DEF StartCommits, Goto, TakeAndSend, StopsResolveInv, StopPc, NotifierInv, StopChannelInv,
      StopWaitersServed, TypeInv, TypeOK, RxMade
<1>10. ASSUME NEW s \in StartCalls, StartCancelStopAll(s) PROVE StopsResolveInv'
  BY <1>10, CallTypes
  DEF StartCancelStopAll, Goto, lifecycleVars, StopsResolveInv, StopPc, NotifierInv, StopChannelInv,
      StopWaitersServed, TypeInv, TypeOK, RxMade
<1>11. ASSUME NEW s \in StartCalls, StartCancelled(s) PROVE StopsResolveInv'
  BY <1>11, CallTypes
  DEF StartCancelled, Goto, StopsResolveInv, StopPc, NotifierInv, StopChannelInv, StopWaitersServed,
      TypeInv, TypeOK, RxMade
<1>12. ASSUME NEW s \in StartCalls, StartReady(s) PROVE StopsResolveInv'
  BY <1>12, CallTypes
  DEF StartReady, Goto, SettledBy, Answered, lifecycleVars, StopsResolveInv, StopPc, NotifierInv,
      StopChannelInv, StopWaitersServed, TypeInv, TypeOK, RxMade
<1>13. ASSUME NEW c \in StopCalls, StopFindsStopped(c) PROVE StopsResolveInv'
  BY <1>13, CallTypes
  DEF StopFindsStopped, Goto, MayBegin, lifecycleVars, StopsResolveInv, StopPc, NotifierInv,
      StopChannelInv, StopWaitersServed, TypeInv, TypeOK, RxMade
<1>14. ASSUME NEW c \in StopCalls, StopJoins(c) PROVE StopsResolveInv'
  BY <1>14, CallTypes
  DEF StopJoins, Goto, MayBegin, StopsResolveInv, StopPc, NotifierInv, StopChannelInv,
      StopWaitersServed, TypeInv, TypeOK, RxMade
<1>15. ASSUME NEW c \in StopCalls, StopBegins(c) PROVE StopsResolveInv'
  BY <1>15, CallTypes
  DEF StopBegins, Goto, MayBegin, StopsResolveInv, StopPc, NotifierInv, StopChannelInv,
      StopWaitersServed, TypeInv, TypeOK, RxMade
<1>16. ASSUME NEW c \in StopCalls, StopStopsAll(c) PROVE StopsResolveInv'
  BY <1>16, CallTypes
  DEF StopStopsAll, Goto, lifecycleVars, StopsResolveInv, StopPc, NotifierInv, StopChannelInv,
      StopWaitersServed, TypeInv, TypeOK, RxMade
<1>17. ASSUME NEW c \in StopCalls, StopFinishes(c) PROVE StopsResolveInv'
  BY <1>17, CallTypes
  DEF StopFinishes, StopEnds, Goto, TakeAndSend, StopsResolveInv, StopPc, NotifierInv,
      StopChannelInv, StopWaitersServed, TypeInv, TypeOK, RxMade
<1>18. ASSUME NEW c \in StopCalls, StopReady(c) PROVE StopsResolveInv'
  BY <1>18, CallTypes
  DEF StopReady, Goto, SettledBy, Answered, lifecycleVars, StopsResolveInv, StopPc, NotifierInv,
      StopChannelInv, StopWaitersServed, TypeInv, TypeOK, RxMade
<1>19. ASSUME UNCHANGED lifecycleVars, \A c \in LifecycleCalls : pc'[c] = pc[c]
      PROVE  StopsResolveInv'
  BY <1>19, CallTypes
  DEF lifecycleVars, StopsResolveInv, StopPc, NotifierInv, StopChannelInv, StopWaitersServed,
      TypeInv, TypeOK, RxMade
<1> QED
  BY <1>1, <1>2, <1>3, <1>4, <1>5, <1>6, <1>7, <1>8, <1>9, <1>10, <1>11, <1>12, <1>13, <1>14, <1>15,
     <1>16, <1>17, <1>18, <1>19, UpdateFrame, RegistryFrame
  DEF Next, StartCallMade, StartStep, StopCallMade, StopStep, AllSettled, vars, lifecycleVars,
      taskVars

\* A start succeeds only by making the proxy run, and a proxy that runs goes
\* on doing so until a stop is called.
Answers ==
  /\ \A s \in StartCalls : Succeeded(s)' => Succeeded(s) \/ state' = "Running"
  /\ state = "Running" =>
       state' = "Running" \/ \E c \in StopCalls : pc[c] = "idle" /\ pc'[c] # "idle"

\* Every step answers starts that way.
LEMMA AnswersStep ==
  ASSUME CarefulInv, [Next]_vars
  PROVE  Answers
<1>1. ASSUME NEW s \in StartCalls, StartJoins(s) PROVE Answers
  BY <1>1, CallTypes
  DEF StartJoins, Goto, MayBegin, Answers, Succeeded, CarefulInv, StarterInv, StopperInv,
      StartChannelInv, Precommit, Cancelling, Stopper, TypeInv, TypeOK, RxMade, ProxyState
<1>2. ASSUME NEW s \in StartCalls, StartRefused(s) PROVE Answers
  BY <1>2, CallTypes
  DEF StartRefused, Goto, MayBegin, lifecycleVars, Answers, Succeeded, CarefulInv, StarterInv,
      StopperInv, StartChannelInv, Precommit, Cancelling, Stopper, TypeInv, TypeOK, RxMade,
      ProxyState
<1>3. ASSUME NEW s \in StartCalls, StartBegins(s) PROVE Answers
  BY <1>3, CallTypes
  DEF StartBegins, Goto, MayBegin, Answers, Succeeded, CarefulInv, StarterInv, StopperInv,
      StartChannelInv, Precommit, Cancelling, Stopper, TypeInv, TypeOK, RxMade, ProxyState
<1>4. ASSUME NEW s \in StartCalls, StartSetup(s) PROVE Answers
  BY <1>4, CallTypes
  DEF StartSetup, Goto, lifecycleVars, Answers, Succeeded, CarefulInv, StarterInv, StopperInv,
      StartChannelInv, Precommit, Cancelling, Stopper, TypeInv, TypeOK, RxMade, ProxyState
<1>5. ASSUME NEW s \in StartCalls, StartSetupFails(s) PROVE Answers
  BY <1>5, CallTypes
  DEF StartSetupFails, Goto, TakeAndSend, Answers, Succeeded, CarefulInv, StarterInv, StopperInv,
      StartChannelInv, Precommit, Cancelling, Stopper, TypeInv, TypeOK, RxMade, ProxyState
<1>6. ASSUME NEW s \in StartCalls, StartSetupPanics(s) PROVE Answers
  BY <1>6, CallTypes
  DEF StartSetupPanics, Goto, lifecycleVars, Answers, Succeeded, CarefulInv, StarterInv, StopperInv,
      StartChannelInv, Precommit, Cancelling, Stopper, TypeInv, TypeOK, RxMade, ProxyState
<1>7. ASSUME NEW s \in StartCalls, StartLbTask(s) PROVE Answers
  BY <1>7, CallTypes
  DEF StartLbTask, lifecycleVars, Answers, Succeeded, CarefulInv, StarterInv, StopperInv,
      StartChannelInv, Precommit, Cancelling, Stopper, TypeInv, TypeOK, RxMade, ProxyState
<1>8. ASSUME NEW s \in StartCalls, StartMainHttp(s) PROVE Answers
  BY <1>8, CallTypes
  DEF StartMainHttp, Goto, lifecycleVars, Answers, Succeeded, CarefulInv, StarterInv, StopperInv,
      StartChannelInv, Precommit, Cancelling, Stopper, TypeInv, TypeOK, RxMade, ProxyState
<1>9. ASSUME NEW s \in StartCalls, StartCommits(s) PROVE Answers
  BY <1>9, CallTypes
  DEF StartCommits, Goto, TakeAndSend, Answers, Succeeded, CarefulInv, StarterInv, StopperInv,
      StartChannelInv, Precommit, Cancelling, Stopper, TypeInv, TypeOK, RxMade, ProxyState
<1>10. ASSUME NEW s \in StartCalls, StartCancelStopAll(s) PROVE Answers
  BY <1>10, CallTypes
  DEF StartCancelStopAll, Goto, lifecycleVars, Answers, Succeeded, CarefulInv, StarterInv,
      StopperInv, StartChannelInv, Precommit, Cancelling, Stopper, TypeInv, TypeOK, RxMade,
      ProxyState
<1>11. ASSUME NEW s \in StartCalls, StartCancelled(s) PROVE Answers
  BY <1>11, CallTypes
  DEF StartCancelled, Goto, Answers, Succeeded, CarefulInv, StarterInv, StopperInv, StartChannelInv,
      Precommit, Cancelling, Stopper, TypeInv, TypeOK, RxMade, ProxyState
<1>12. ASSUME NEW s \in StartCalls, StartReady(s) PROVE Answers
  BY <1>12, CallTypes
  DEF StartReady, Goto, SettledBy, Answered, lifecycleVars, Answers, Succeeded, CarefulInv,
      StarterInv, StopperInv, StartChannelInv, Precommit, Cancelling, Stopper, TypeInv, TypeOK,
      RxMade, ProxyState
<1>13. ASSUME NEW c \in StopCalls, StopFindsStopped(c) PROVE Answers
  BY <1>13, CallTypes
  DEF StopFindsStopped, Goto, MayBegin, lifecycleVars, Answers, Succeeded, CarefulInv, StarterInv,
      StopperInv, StartChannelInv, Precommit, Cancelling, Stopper, TypeInv, TypeOK, RxMade,
      ProxyState
<1>14. ASSUME NEW c \in StopCalls, StopJoins(c) PROVE Answers
  BY <1>14, CallTypes
  DEF StopJoins, Goto, MayBegin, Answers, Succeeded, CarefulInv, StarterInv, StopperInv,
      StartChannelInv, Precommit, Cancelling, Stopper, TypeInv, TypeOK, RxMade, ProxyState
<1>15. ASSUME NEW c \in StopCalls, StopBegins(c) PROVE Answers
  BY <1>15, CallTypes
  DEF StopBegins, Goto, MayBegin, Answers, Succeeded, CarefulInv, StarterInv, StopperInv,
      StartChannelInv, Precommit, Cancelling, Stopper, TypeInv, TypeOK, RxMade, ProxyState
<1>16. ASSUME NEW c \in StopCalls, StopStopsAll(c) PROVE Answers
  BY <1>16, CallTypes
  DEF StopStopsAll, Goto, lifecycleVars, Answers, Succeeded, CarefulInv, StarterInv, StopperInv,
      StartChannelInv, Precommit, Cancelling, Stopper, TypeInv, TypeOK, RxMade, ProxyState
<1>17. ASSUME NEW c \in StopCalls, StopFinishes(c) PROVE Answers
  BY <1>17, CallTypes
  DEF StopFinishes, StopEnds, Goto, TakeAndSend, Answers, Succeeded, CarefulInv, StarterInv,
      StopperInv, StartChannelInv, Precommit, Cancelling, Stopper, TypeInv, TypeOK, RxMade,
      ProxyState
<1>18. ASSUME NEW c \in StopCalls, StopReady(c) PROVE Answers
  BY <1>18, CallTypes
  DEF StopReady, Goto, SettledBy, Answered, lifecycleVars, Answers, Succeeded, CarefulInv,
      StarterInv, StopperInv, StartChannelInv, Precommit, Cancelling, Stopper, TypeInv, TypeOK,
      RxMade, ProxyState
<1>19. ASSUME UNCHANGED lifecycleVars, \A c \in LifecycleCalls : pc'[c] = pc[c]
      PROVE  Answers
  BY <1>19, CallTypes
  DEF lifecycleVars, Answers, Succeeded, CarefulInv, StarterInv, StopperInv, StartChannelInv,
      Precommit, Cancelling, Stopper, TypeInv, TypeOK, RxMade, ProxyState
<1> QED
  BY <1>1, <1>2, <1>3, <1>4, <1>5, <1>6, <1>7, <1>8, <1>9, <1>10, <1>11, <1>12, <1>13, <1>14, <1>15,
     <1>16, <1>17, <1>18, <1>19, UpdateFrame, RegistryFrame
  DEF Next, StartCallMade, StartStep, StopCallMade, StopStep, AllSettled, CarefulInv, vars,
      lifecycleVars, taskVars

\* Every step keeps the stops behind a start that is no longer in effect.
LEMMA StartedStep ==
  ASSUME CarefulInv, FrozenInv, StartedInv, earlier \in [Callers -> SUBSET Callers],
         [GatewayNext]_gatewayVars
  PROVE  StartedInv'
<1> SUFFICES ASSUME NEW s \in StartCalls, Succeeded(s)', state' # "Running"
             PROVE  \E c \in StopCalls : pc'[c] # "idle" /\ c \notin earlier'[s]
  BY DEF StartedInv
<1>1. Answers /\ CallsAdvance
  BY GatewayStepIsProxyStep, AnswersStep, PcStep DEF CarefulInv
<1>2. Succeeded(s)
  BY <1>1 DEF Answers
<1>3. earlier'[s] = earlier[s]
  BY <1>2, HistoryStep, CallTypes DEF HistoryKept, Succeeded, CarefulInv
<1>4. CASE state = "Running"
  <2>1. PICK c \in StopCalls : pc[c] = "idle" /\ pc'[c] # "idle"
    BY <1>1, <1>4 DEF Answers
  <2>2. c \notin earlier[s]
    BY <2>1, CallTypes DEF FrozenInv, Resolved
  <2> QED BY <1>3, <2>1, <2>2
<1>5. CASE state # "Running"
  <2>1. PICK c \in StopCalls : pc[c] # "idle" /\ c \notin earlier[s]
    BY <1>2, <1>5 DEF StartedInv
  <2> QED BY <1>1, <1>3, <2>1, CallTypes DEF CallsAdvance
<1> QED BY <1>4, <1>5

\* A client that is turned away arrived when no start was in effect.
LEMMA TurnedAway ==
  ASSUME CarefulInv, StopsResolveInv, StartedInv, ~Accepting(live \ signalled),
         NEW s \in StartCalls \cap Resolved
  PROVE  \E c \in StopCalls \cap (Resolved \cup Pending) : c \notin earlier[s]
<1>1. state # "Running"
  <2> SUFFICES ASSUME state = "Running" PROVE FALSE
    OBVIOUS
  <2>1. services[MainHttp] # None
    BY DEF CarefulInv, MainInv
  <2>2. services[MainHttp] \in live \ signalled /\ services[MainHttp].name = MainHttp
    BY <2>1, MainHttpType DEF CarefulInv, TypeInv, ServerInv, RegisteredIsServing, Registered,
       NamesMatch
  <2> QED BY <2>2 DEF Accepting
<1>2. PICK c \in StopCalls : pc[c] # "idle" /\ c \notin earlier[s]
  BY <1>1 DEF StartedInv, Succeeded, Resolved
<1>3. c \in Resolved \cup Pending
  BY <1>2, CallTypes DEF StopsResolveInv, StopPc, Resolved, Pending, InFlight, Settled, Outcomes
<1> QED BY <1>2, <1>3

\* Every step keeps the property about the listener.
LEMMA ReachableStep ==
  ASSUME ReachableInv, GatewayTypeOK, RoutedInv, [GatewayNext]_gatewayVars
  PROVE  StartedProxyConnects'
<1> USE DEF ReachableInv
<1>1. HistoryKept
  BY HistoryStep DEF GatewayTypeOK, CarefulInv
<1> SUFFICES ASSUME NEW r \in Connections, met'[r] = "unreachable",
                    NEW s \in StartCalls \cap resolved_then'[r]
             PROVE  \E c \in StopCalls \cap (resolved_then'[r] \cup pending_then'[r]) :
                      c \notin earlier'[s]
  BY DEF StartedProxyConnects
<1>2. CASE RequestKept(r)
  <2>1. s \in resolved_then[r] /\ earlier'[s] = earlier[s]
    BY <1>1, <1>2 DEF RequestKept, FrozenInv, HistoryKept
  <2> QED BY <1>2, <2>1 DEF RequestKept, StartedProxyConnects
<1>3. CASE Unreachable(r)
  <2>1. /\ resolved_then'[r] = Resolved /\ pending_then'[r] = Pending /\ earlier' = earlier
        /\ ~Accepting(live \ signalled)
    BY <1>3 DEF Unreachable, Observed, GatewayTypeOK
  <2> QED BY <2>1, TurnedAway
<1>4. ASSUME NEW app \in Applications, NEW is_upgrade \in BOOLEAN, RequestFilter(r, app, is_upgrade)
      PROVE  FALSE
  BY <1>4 DEF RequestFilter, GatewayTypeOK
<1>5. CASE UpstreamPeer(r)
  BY <1>5 DEF UpstreamPeer, GatewayTypeOK
<1> QED BY <1>2, <1>3, <1>4, <1>5, RequestMoves

\* start() means started: no client is turned away after start() resolved
\* until a stop() is called.
THEOREM StartedMeansReachable ==
  ASSUME AwaitBeforeRestart
  PROVE  GatewaySpec => []StartedProxyConnects
<1>1. GatewayInit => ReachableInv
  <2> SUFFICES ASSUME GatewayInit PROVE ReachableInv
    OBVIOUS
  <2>1. CarefulInv
    BY InitCareful DEF GatewayInit
  <2>2. NotifierInv /\ StopChannelInv /\ StopsResolveInv
    BY CallTypes
    DEF GatewayInit, Init, NotifierInv, StopChannelInv, StopWaitersServed, StopsResolveInv, StopPc
  <2>3. FrozenInv /\ StartedProxyConnects
    BY DEF GatewayInit, FrozenInv, StartedProxyConnects
  <2>4. StartedInv
    BY CallTypes DEF GatewayInit, Init, StartedInv, Succeeded
  <2> QED BY <2>1, <2>2, <2>3, <2>4 DEF ReachableInv
<1>2. TrafficInv /\ ReachableInv /\ [GatewayNext]_gatewayVars => ReachableInv'
  <2> SUFFICES ASSUME TrafficInv, ReachableInv, [GatewayNext]_gatewayVars PROVE ReachableInv'
    OBVIOUS
  <2>1. GatewayTypeOK /\ RoutedInv /\ TypeInv /\ [Next]_vars
    BY GatewayStepIsProxyStep DEF TrafficInv
  <2>2. CarefulInv' /\ NotifierInv' /\ StopChannelInv' /\ StopsResolveInv'
    BY <2>1, CarefulStep, NotifierStep, StopChannelStep, StopsResolveStep DEF ReachableInv
  <2>3. FrozenInv' /\ StartedInv'
    BY <2>1, FrozenStep, StartedStep DEF ReachableInv, GatewayTypeOK
  <2>4. StartedProxyConnects'
    BY <2>1, ReachableStep
  <2> QED BY <2>2, <2>3, <2>4 DEF ReachableInv
<1>3. ReachableInv => StartedProxyConnects
  BY DEF ReachableInv
<1> QED BY <1>1, <1>2, <1>3, TrafficInvariant, PTL DEF GatewaySpec

\* Requests do not disturb the proxy: with traffic it has no behaviour that
\* it does not have without, so what is proved of the calls holds here too.
THEOREM TrafficLeavesProxyAlone == GatewaySpec => Spec
<1>1. GatewayInit => Init
  BY DEF GatewayInit
<1>2. [GatewayNext]_gatewayVars => [Next]_vars
  BY GatewayStepIsProxyStep
<1> QED BY <1>1, <1>2, PTL DEF GatewaySpec, Spec
=============================================================================
