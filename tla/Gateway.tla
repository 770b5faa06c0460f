------------------------------ MODULE Gateway ------------------------------
(***************************************************************************)
(* The proxy with traffic: module Proxy composed with the requests that    *)
(* arrive at its listener.  Module Requests follows a request in detail    *)
(* under arbitrary configurations; here a request is what the calls of the *)
(* object decide about it: whether it gets a connection, which pool it is  *)
(* given, and to which address it is sent later, from that pool.           *)
(*                                                                         *)
(* The properties compare what a request met with the promises that had    *)
(* settled when it arrived.  The variables earlier, resolved_then and      *)
(* pending_then keep the order of events for them and guard no step.       *)
(***************************************************************************)
EXTENDS Proxy

CONSTANT Connections     \* the requests, each on a connection of its own

ASSUME ConnectionsAssumption == Connections \cap Callers = {}

VARIABLES
  met,             \* request -> what became of it
  ctx,             \* request -> the pool request_filter gave it, or None
  peer,            \* request -> the address it was sent to, or None
  earlier,         \* call -> the calls of its kind that had resolved when it was made
  resolved_then,   \* request -> the calls that had resolved when it arrived
  pending_then     \* request -> the calls that were in flight when it arrived

trafficVars == <<met, ctx, peer, resolved_then, pending_then>>
gatewayVars == <<vars, trafficVars, earlier>>

Resolved == {c \in Callers : pc[c] = "resolved"}
Pending == {c \in Callers : InFlight(c)}

GatewayInit ==
  /\ Init
  /\ met = [r \in Connections |-> "nothing"]
  /\ ctx = [r \in Connections |-> None]
  /\ peer = [r \in Connections |-> None]
  /\ earlier = [c \in Callers |-> {}]
  /\ resolved_then = [r \in Connections |-> {}]
  /\ pending_then = [r \in Connections |-> {}]

-----------------------------------------------------------------------------
\* The steps of module Proxy, with the calls' order remembered.
CallMade(c) ==
  /\ \/ c \in StartCalls /\ StartCallMade(c)
     \/ c \in StopCalls /\ StopCallMade(c)
     \/ c \in UpdateCalls /\ UpdateCalled(c)
  /\ earlier' = [earlier EXCEPT ![c] =
       Resolved \cap (IF c \in UpdateCalls THEN UpdateCalls ELSE LifecycleCalls)]
  /\ UNCHANGED trafficVars

ProxyStep ==
  /\ \/ \E s \in StartCalls : StartStep(s)
     \/ \E c \in StopCalls : StopStep(c)
     \/ \E u \in UpdateCalls : UpdateStep(u)
     \/ \E c \in Callers : SignalStep(c)
     \/ \E h \in signalled : TaskStep(h)
  /\ UNCHANGED <<trafficVars, earlier>>

\* The listener accepts until its task was told to end, and may do so until
\* the task has ended.
Accepting(tasks) == \E h \in tasks : h.name = MainHttp

Observed(r) ==
  /\ met[r] = "nothing"
  /\ resolved_then' = [resolved_then EXCEPT ![r] = Resolved]
  /\ pending_then' = [pending_then EXCEPT ![r] = Pending]
  /\ UNCHANGED <<vars, earlier>>

\* A client connects and is not served.
Unreachable(r) ==
  /\ Observed(r)
  /\ ~Accepting(live \ signalled)
  /\ met' = [met EXCEPT ![r] = "unreachable"]
  /\ UNCHANGED <<ctx, peer>>

\* Mutant of PoolKey: an application without HTTP/2 upstreams is not served.
PoolKeyHttp2Only(app, is_upgrade) == <<app, IF is_upgrade THEN "Ws" ELSE "Http2">>

\* The pool request_filter resolves: ws for an upgrade, else HTTP/2 first.
PoolKey(app, is_upgrade) ==
  <<app, IF is_upgrade THEN "Ws" ELSE IF router_config[<<app, "Http2">>] # None THEN "Http2" ELSE "Http1">>

\* request_filter, on the configuration of this moment.
RequestFilter(r, app, is_upgrade) ==
  LET pool == router_config[PoolKey(app, is_upgrade)] IN
    /\ Observed(r)
    /\ Accepting(live)
    /\ met' = [met EXCEPT ![r] = IF pool = None THEN "missing_pool" ELSE "routed"]
    /\ ctx' = [ctx EXCEPT ![r] = [app |-> app, is_upgrade |-> is_upgrade, pool |-> pool]]
    /\ UNCHANGED peer

\* upstream_peer, any time later, on the pool that request_filter resolved:
\* one of its backends, or none if none is healthy.
UpstreamPeer(r) ==
  /\ met[r] = "routed"
  /\ \/ /\ met' = [met EXCEPT ![r] = "sent"]
        /\ \E backend \in ctx[r].pool.backends : peer' = [peer EXCEPT ![r] = backend]
     \/ /\ met' = [met EXCEPT ![r] = "unhealthy"]
        /\ UNCHANGED peer
  /\ UNCHANGED <<vars, ctx, earlier, resolved_then, pending_then>>

Idle == AllSettled /\ UNCHANGED <<trafficVars, earlier>>

GatewayNext ==
  \/ \E c \in Callers : CallMade(c)
  \/ ProxyStep
  \/ \E r \in Connections :
       \/ Unreachable(r)
       \/ \E app \in Applications, is_upgrade \in BOOLEAN : RequestFilter(r, app, is_upgrade)
       \/ UpstreamPeer(r)
  \/ Idle

GatewaySpec == GatewayInit /\ [][GatewayNext]_gatewayVars

-----------------------------------------------------------------------------
GatewayTypeOK ==
  /\ TypeOK
  /\ met \in [Connections -> {"nothing", "unreachable", "missing_pool", "routed", "sent",
                           "unhealthy"}]
  /\ peer \in [Connections -> Endpoints \cup {None}]
  /\ earlier \in [Callers -> SUBSET Callers]
  /\ resolved_then \in [Connections -> SUBSET Callers]
  /\ pending_then \in [Connections -> SUBSET Callers]

Calls(op, app, x) == {u \in UpdateCalls : req[u] = [op |-> op, app |-> app, upstream |-> x]}
Serves(x, is_upgrade) == IF is_upgrade THEN x.transport = "Ws" ELSE x.transport \in {"Http1", "Http2"}

\* A removed upstream gets no new requests: a request is sent only to the
\* address of an upstream for which an addUpstream() was made before it
\* arrived that no removeUpstream() undid, one that was made after that add
\* had resolved and that itself had resolved when the request arrived.
SentToAddedUpstream ==
  \A r \in Connections : met[r] = "sent" =>
    \E x \in UpstreamArgs :
      /\ x.endpoint = peer[r] /\ Serves(x, ctx[r].is_upgrade)
      /\ \E a \in Calls("add", ctx[r].app, x) \cap (resolved_then[r] \cup pending_then[r]) :
           ~\E d \in Calls("remove", ctx[r].app, x) \cap resolved_then[r] : a \in earlier[d]

\* An added upstream is there for every new request: none is refused for the
\* want of a pool when an addUpstream() for its kind of pool had resolved,
\* unless a removeUpstream() of the same upstream was made since.
AddedUpstreamHasPool ==
  \A r \in Connections : met[r] = "missing_pool" =>
    \A x \in UpstreamArgs : Serves(x, ctx[r].is_upgrade) =>
      \A a \in Calls("add", ctx[r].app, x) \cap resolved_then[r] :
        \E d \in Calls("remove", ctx[r].app, x) \cap (resolved_then[r] \cup pending_then[r]) :
          d \notin earlier[a]

\* start() means started: no client is turned away when a start() had
\* resolved and every stop() made by then had resolved before that start().
StartedProxyConnects ==
  \A r \in Connections : met[r] = "unreachable" =>
    \A s \in StartCalls \cap resolved_then[r] :
      \E c \in StopCalls \cap (resolved_then[r] \cup pending_then[r]) : c \notin earlier[s]
=============================================================================
