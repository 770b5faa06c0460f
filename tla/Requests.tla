------------------------------ MODULE Requests ------------------------------
(***************************************************************************)
(* The life of a request in src/router.rs: request_filter routes it and    *)
(* takes a snapshot of its pool, upstream_peer picks a backend (through    *)
(* the sticky store when sticky sessions are on), fail_to_connect retries  *)
(* once, fail_to_proxy answers failures.  Requests run concurrently with   *)
(* each other and with updates of the router's configuration.              *)
(***************************************************************************)
EXTENDS Sticky

CONSTANTS
  Applications,
  ClientKeys,        \* affinity keys that cookies and headers carry
  subdomain_routes, path_routes, default_app,   \* the route tables
  RequestInputs,     \* what a request can look like
  PoolChoices,       \* the pools an update can give an application
  StickyChoices,     \* the values StickySessionConfig.enabled can have
  MaxUpdates,        \* bound of the model: configuration updates
  MaxReuses,         \* Pingora's bound on retries of broken reused connections
  ErrorStatuses,     \* the statuses that errors of Pingora's own may carry
  SerialSessions     \* client discipline, see Arrives

TransportKind == {"Http1", "Http2", "Ws"}
FailureHint == {"MissingApplication", "MissingWsPool", "MissingUpstreamPool", "UnhealthyUpstream"}
Answers == {200, 404, 413, 414, 431, 500, 503} \cup ErrorStatuses
\* version: the configuration the pool was taken from (not kept by the code).
RouterCtx == [app : Applications, transport : TransportKind, pool : SUBSET Backends,
              version : Nat, affinity_key : ClientKeys \cup Requests \cup {None}]

ASSUME RouterAssumption ==
  /\ AffinityKeys = Applications \X TransportKind \X (ClientKeys \cup Requests)
  /\ None \notin Applications \cup ClientKeys \cup Requests \cup RouterCtx \cup FailureHint \cup Answers
  /\ DOMAIN subdomain_routes \cap {None} = {} /\ DOMAIN path_routes \cap {None} = {}
  /\ \A host \in DOMAIN subdomain_routes : subdomain_routes[host] \in Applications
  /\ \A segment \in DOMAIN path_routes : path_routes[segment] \in Applications
  /\ default_app \in Applications \cup {None}
  /\ PoolChoices \subseteq [TransportKind -> SUBSET Backends]
  /\ StickyChoices \subseteq BOOLEAN /\ SerialSessions \in BOOLEAN /\ {MaxUpdates, MaxReuses} \subseteq Nat
  /\ \A status \in ErrorStatuses : status \in Nat /\ status >= 400
  /\ \A in \in RequestInputs :
       /\ in.is_upgrade \in BOOLEAN
       /\ in.limit \in {None, 413, 414, 431}
       /\ {in.cookie, in.header} \subseteq ClientKeys \cup {None}

VARIABLES
  config,      \* application -> transport -> backends ({}: no pool)
  sticky,      \* whether the router has a sticky store
  updates,     \* how many times the configuration was replaced
  rpc,         \* request -> how far it is
  ctx,         \* request -> its RouterCtx, None before request_filter
  retried,     \* request -> sticky_retry_attempted
  peer,        \* request -> the backend it was last sent to, or None
  failures,    \* request -> connections that failed
  broken,      \* request -> connections that were made and broke later
  answer       \* request -> the status it was answered with, or None

requestVars == <<rpc, ctx, retried, peer, failures, broken, answer>>
routerVars == <<config, sticky, updates>>
allVars == <<stickyVars, routerVars, requestVars>>

Stage == {"new", "peer", "lookup", "select", "bind", "connect", "done"}

RequestsTypeOK ==
  /\ StickyTypeOK
  /\ config \in [Applications -> [TransportKind -> SUBSET Backends]]
  /\ sticky \in BOOLEAN
  /\ updates \in 0 .. MaxUpdates
  /\ rpc \in [Requests -> Stage]
  /\ ctx \in [Requests -> RouterCtx \cup {None}]
  /\ retried \in [Requests -> BOOLEAN]
  /\ peer \in [Requests -> Backends \cup {None}]
  /\ failures \in [Requests -> Nat]
  /\ broken \in [Requests -> Nat]
  /\ answer \in [Requests -> Answers \cup {None}]
  /\ \A r \in Requests : rpc[r] \in {"peer", "lookup", "select", "bind", "connect"} => ctx[r] # None

\* Router::new, with the configuration Proxy::new gives it: no pools yet.
RequestsInit ==
  /\ StickyInit
  /\ config = [app \in Applications |-> [t \in TransportKind |-> {}]]
  /\ sticky \in StickyChoices
  /\ updates = 0
  /\ rpc = [r \in Requests |-> "new"]
  /\ ctx = [r \in Requests |-> None]
  /\ retried = [r \in Requests |-> FALSE]
  /\ peer = [r \in Requests |-> None]
  /\ failures = [r \in Requests |-> 0]
  /\ broken = [r \in Requests |-> 0]
  /\ answer = [r \in Requests |-> None]

-----------------------------------------------------------------------------
\* Router::update: one update call of the proxy rebuilds one application's
\* pools and swaps the whole configuration.
update(app, pools) ==
  /\ updates < MaxUpdates
  /\ config' = [config EXCEPT ![app] = pools]
  /\ updates' = updates + 1
  /\ UNCHANGED <<stickyVars, sticky, requestVars>>

\* Subdomain before path before default; None when nothing matches.
resolve_route(host, segment) ==
  CASE host \in DOMAIN subdomain_routes -> subdomain_routes[host]
    [] host \notin DOMAIN subdomain_routes /\ segment \in DOMAIN path_routes -> path_routes[segment]
    [] OTHER -> default_app

\* An upgrade needs the ws pool; other requests prefer HTTP/2.
Transport(app, is_upgrade) ==
  IF is_upgrade THEN "Ws" ELSE IF config[app]["Http2"] # {} THEN "Http2" ELSE "Http1"

\* Cookie before header before a generated key (unique to the request); the
\* keys that are not cookie-safe were dropped when they were extracted.
AffinityKey(r, in) ==
  CASE in.cookie # None -> in.cookie
    [] in.cookie = None /\ in.header # None -> in.header
    [] OTHER -> r

\* The status of a failed request: the one of the failure_hint, without a hint
\* the one the error carries (ErrorType::HTTPStatus), and 500 without either.
fail_to_proxy(failure_hint, status) ==
  CASE failure_hint = "MissingApplication" -> 404
    [] failure_hint \in {"MissingWsPool", "MissingUpstreamPool", "UnhealthyUpstream"} -> 503
    [] OTHER -> IF status # None THEN status ELSE 500

Answer(r, status) ==
  /\ rpc' = [rpc EXCEPT ![r] = "done"]
  /\ answer' = [answer EXCEPT ![r] = status]

\* A request arrives.  SerialSessions: a client makes a request with a key
\* only when its earlier requests with that key were answered.
Arrives(r, in) ==
  /\ rpc[r] = "new"
  /\ in \in RequestInputs
  /\ SerialSessions =>
       \A q \in Requests : ctx[q] # None /\ ctx[q].affinity_key = AffinityKey(r, in) => rpc[q] = "done"

\* request_filter panics on a request without a Host header that is text (see
\* RequestAborts of module Routing): it ends without an answer.
RequestAborts(r) ==
  /\ \E in \in RequestInputs : Arrives(r, in) /\ in.limit = None /\ in.host = None
  /\ rpc' = [rpc EXCEPT ![r] = "done"]
  /\ UNCHANGED <<stickyVars, routerVars, ctx, retried, peer, failures, broken, answer>>

\* request_filter answers the request itself: it is over a limit, matches
\* no application, or its application has no pool for it.
RequestRefused(r) ==
  /\ \E in \in RequestInputs :
       LET app == resolve_route(in.host, in.segment)
           no_pool == IF in.is_upgrade THEN "MissingWsPool" ELSE "MissingUpstreamPool"
       IN
       /\ Arrives(r, in)
       /\ \/ in.limit # None /\ Answer(r, in.limit)
          \/ /\ in.limit = None /\ in.host # None /\ app = None
             /\ Answer(r, fail_to_proxy("MissingApplication", 404))
          \/ /\ in.limit = None /\ in.host # None /\ app # None
             /\ config[app][Transport(app, in.is_upgrade)] = {}
             /\ Answer(r, fail_to_proxy(no_pool, 503))
  /\ UNCHANGED <<stickyVars, routerVars, ctx, retried, peer, failures, broken>>

\* request_filter lets the request pass, with the pool of this moment.
RequestFilter(r) ==
  /\ \E in \in RequestInputs :
       LET app == resolve_route(in.host, in.segment)
           transport == Transport(app, in.is_upgrade)
       IN
       /\ Arrives(r, in)
       /\ in.limit = None /\ in.host # None /\ app # None
       /\ config[app][transport] # {}
       /\ ctx' = [ctx EXCEPT ![r] =
            [app |-> app, transport |-> transport, pool |-> config[app][transport],
             version |-> updates,
             affinity_key |-> IF sticky THEN AffinityKey(r, in) ELSE None]]
  /\ rpc' = [rpc EXCEPT ![r] = "peer"]
  /\ UNCHANGED <<stickyVars, routerVars, retried, peer, failures, broken, answer>>

-----------------------------------------------------------------------------
(* upstream_peer                                                           *)

IsSticky(r) == ctx[r].affinity_key # None
MapKey(r) == <<ctx[r].app, ctx[r].transport, ctx[r].affinity_key>>

\* Without sticky sessions the balancer's choice is final.  LoadBalancer's
\* select (Pingora) picks some backend of the pool it believes healthy.
PeerPlain(r) ==
  /\ rpc[r] = "peer" /\ ~IsSticky(r)
  /\ \E backend \in ctx[r].pool : peer' = [peer EXCEPT ![r] = backend]
  /\ rpc' = [rpc EXCEPT ![r] = "connect"]
  /\ UNCHANGED <<stickyVars, routerVars, ctx, retried, failures, broken, answer>>

PeerLooksUp(r) ==
  /\ rpc[r] = "peer" /\ IsSticky(r)
  /\ LookupBegins(r, MapKey(r))
  /\ rpc' = [rpc EXCEPT ![r] = "lookup"]
  /\ UNCHANGED <<routerVars, ctx, retried, peer, failures, broken, answer>>

\* The lookup ends: the mapped backend is the peer, or one must be selected.
PeerMapped(r) ==
  LET mapped == Mapped(r, ctx[r].pool) IN
    /\ rpc[r] = "lookup"
    /\ LookupEnds(r, ctx[r].pool)
    /\ peer' = [peer EXCEPT ![r] = IF mapped = None THEN @ ELSE mapped]
    /\ rpc' = [rpc EXCEPT ![r] = IF mapped = None THEN "select" ELSE "connect"]
    /\ UNCHANGED <<routerVars, ctx, retried, failures, broken, answer>>

PeerSelects(r) ==
  /\ rpc[r] = "select"
  /\ \E backend \in ctx[r].pool : peer' = [peer EXCEPT ![r] = backend]
  /\ BindBegins(r, MapKey(r))
  /\ rpc' = [rpc EXCEPT ![r] = "bind"]
  /\ UNCHANGED <<routerVars, ctx, retried, failures, broken, answer>>

PeerBinds(r) ==
  /\ rpc[r] = "bind"
  /\ BindEnds(r, peer[r])
  /\ rpc' = [rpc EXCEPT ![r] = "connect"]
  /\ UNCHANGED <<routerVars, ctx, retried, peer, failures, broken, answer>>

\* The balancer finds no healthy backend among those it tries.
NoHealthyPeer(r) ==
  /\ rpc[r] = "select" \/ (rpc[r] = "peer" /\ ~IsSticky(r))
  /\ Answer(r, fail_to_proxy("UnhealthyUpstream", 503))
  /\ UNCHANGED <<stickyVars, routerVars, ctx, retried, peer, failures, broken>>

-----------------------------------------------------------------------------
(* The connection                                                          *)

\* The backend answers; response_filter refreshes the affinity cookie.
Served(r) ==
  /\ rpc[r] = "connect" /\ op[r].at = "idle"
  /\ Answer(r, 200)
  /\ UNCHANGED <<stickyVars, routerVars, ctx, retried, peer, failures, broken>>

\* Mutant of FailToConnect: the retry is not remembered.
FailToConnectForgetful(r) ==
  /\ rpc[r] = "connect" /\ op[r].at = "idle"
  /\ IsSticky(r)
  /\ remove(r, MapKey(r))
  /\ failures' = [failures EXCEPT ![r] = @ + 1]
  /\ rpc' = [rpc EXCEPT ![r] = "peer"]
  /\ UNCHANGED <<routerVars, ctx, retried, peer, broken, answer>>

\* Mutant of FailToConnect: the same, with failures (which the code does not
\* keep) left alone, so that the run stays finite.
FailToConnectForever(r) ==
  /\ rpc[r] = "connect" /\ op[r].at = "idle"
  /\ IsSticky(r)
  /\ remove(r, MapKey(r))
  /\ rpc' = [rpc EXCEPT ![r] = "peer"]
  /\ UNCHANGED <<routerVars, ctx, retried, peer, failures, broken, answer>>

\* Mutant of FailToConnect: the store keeps the session's backend.
FailToConnectRemembers(r) ==
  LET retry == IsSticky(r) /\ ~retried[r] IN
    /\ rpc[r] = "connect" /\ op[r].at = "idle"
    /\ failures' = [failures EXCEPT ![r] = @ + 1]
    /\ \/ /\ retry
          /\ retried' = [retried EXCEPT ![r] = TRUE]
          /\ rpc' = [rpc EXCEPT ![r] = "peer"]
          /\ UNCHANGED answer
       \/ ~retry /\ Answer(r, fail_to_proxy(None, None)) /\ UNCHANGED retried
    /\ UNCHANGED <<stickyVars, routerVars, ctx, peer, broken>>

\* The connection fails.  fail_to_connect forgets the session's backend and
\* has Pingora call upstream_peer again, once; without sticky sessions, and
\* the second time, the request fails without a hint.
FailToConnect(r) ==
  LET retry == IsSticky(r) /\ ~retried[r] IN
    /\ rpc[r] = "connect" /\ op[r].at = "idle"
    /\ \/ IsSticky(r) /\ remove(r, MapKey(r))
       \/ ~IsSticky(r) /\ UNCHANGED stickyVars
    /\ failures' = [failures EXCEPT ![r] = @ + 1]
    /\ \/ /\ retry
          /\ retried' = [retried EXCEPT ![r] = TRUE]
          /\ rpc' = [rpc EXCEPT ![r] = "peer"]
          /\ UNCHANGED answer
       \/ ~retry /\ Answer(r, fail_to_proxy(None, None)) /\ UNCHANGED retried
    /\ UNCHANGED <<routerVars, ctx, peer, broken>>

\* The connection is made and breaks during the exchange.  Pingora's own
\* error_while_proxy retries a reused connection, without fail_to_connect;
\* otherwise the request fails without a hint, with the status the error
\* carries, if any.  (A cookie that response_filter cannot append fails it too.)
ExchangeFails(r) ==
  /\ rpc[r] = "connect" /\ op[r].at = "idle"
  /\ broken' = [broken EXCEPT ![r] = @ + 1]
  /\ \/ broken[r] < MaxReuses /\ rpc' = [rpc EXCEPT ![r] = "peer"] /\ UNCHANGED answer
     \/ \E status \in ErrorStatuses \cup {None} : Answer(r, fail_to_proxy(None, status))
  /\ UNCHANGED <<stickyVars, routerVars, ctx, retried, peer, failures>>

-----------------------------------------------------------------------------
\* The steps of a request's sweep of the store, and time.
SweepStep(r) == (SweepLocks(r) \/ Sweep(r)) /\ UNCHANGED <<routerVars, requestVars>>
TimePasses == Tick /\ UNCHANGED <<routerVars, requestVars>>

RequestStep(r) ==
  \/ PeerPlain(r) \/ PeerLooksUp(r) \/ PeerMapped(r) \/ PeerSelects(r)
  \/ PeerBinds(r) \/ NoHealthyPeer(r) \/ Served(r) \/ FailToConnect(r)
  \/ ExchangeFails(r) \/ SweepStep(r)

AllAnswered == (\A r \in Requests : rpc[r] = "done") /\ UNCHANGED allVars

RequestsNext ==
  \/ \E r \in Requests : RequestAborts(r) \/ RequestRefused(r) \/ RequestFilter(r) \/ RequestStep(r)
  \/ \E app \in Applications, pools \in PoolChoices : update(app, pools)
  \/ TimePasses
  \/ AllAnswered

RequestsSpec == RequestsInit /\ [][RequestsNext]_allVars

\* Pingora drives a request it accepted to its end: connections succeed or
\* fail within the connect timeout, and a free mutex is eventually taken.
RequestsFairSpec == RequestsSpec /\ \A r \in Requests : WF_allVars(RequestStep(r))

-----------------------------------------------------------------------------
\* A request is only ever sent to a backend of the pool it was routed to,
\* whatever the sticky store remembers from other configurations: once an
\* update has removed a backend, no request that arrives later reaches it.
PeerFromSnapshot ==
  \A r \in Requests : rpc[r] = "connect" => peer[r] \in ctx[r].pool

\* A connection that cannot be made is retried at most once and only for a
\* sticky session, and a request whose connections never broke later is
\* answered with 500 only when every allowed attempt failed.
RetriedOnce ==
  \A r \in Requests :
    /\ failures[r] <= 2
    /\ failures[r] = 2 => IsSticky(r)
    /\ answer[r] = 500 /\ broken[r] = 0 => failures[r] = IF IsSticky(r) THEN 2 ELSE 1
    /\ answer[r] = 200 => failures[r] <= 1

\* A session sticks: two served requests with the same affinity key, the
\* same application and transport and the same configuration, less than the
\* time-to-live apart, went to the same backend, unless a connection of the
\* session failed or the store is too small for its keys.  For clients that
\* make the requests of a session one after the other.
SessionsStick ==
  Cardinality(AffinityKeys) <= max_entries =>
    \A r, q \in Requests :
      /\ answer[r] = 200 /\ answer[q] = 200
      /\ IsSticky(r) /\ IsSticky(q) /\ MapKey(r) = MapKey(q)
      /\ ctx[r].version = ctx[q].version
      /\ op[r].now <= op[q].now /\ op[q].now < op[r].now + Ttl
      /\ \A p \in Requests : failures[p] > 0 => MapKey(p) # MapKey(r)
      => peer[r] = peer[q]

\* A retry does not meet the backend that failed in the store: from the
\* failed connection until the retry has bound another backend, the session
\* has no entry, whatever other requests do meanwhile.  For clients that make
\* the requests of a session one after the other.
FailedBackendForgotten ==
  \A r \in Requests :
    retried[r] /\ broken[r] = 0 /\ rpc[r] \in {"peer", "lookup", "select", "bind"} =>
      entries[MapKey(r)] = None

\* Every request that request_filter lets through is answered: neither the
\* sweeps of the store nor the retries keep one going, or waiting, for ever,
\* and none ends without a status.
EveryRequestAnswered ==
  \A r \in Requests : rpc[r] \notin {"new", "done"} ~> answer[r] # None
=============================================================================
