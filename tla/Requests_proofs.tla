-------------------------- MODULE Requests_proofs --------------------------
(***************************************************************************)
(* The request flow, for any number of requests, routes, pools and         *)
(* configuration updates: its type correctness, the pool its peers come    *)
(* from and the bound on its retries; that it uses the store of sessions   *)
(* as module Sticky says, so that the store's bounds hold under it; and,   *)
(* for clients that wait for each answer, that a session stays with its    *)
(* backend.                                                                *)
(***************************************************************************)
EXTENDS Requests, Sticky_proofs

\* What is true of a request at each point of its life: the backend chosen
\* is in its pool until the request leaves it, and the failed connections
\* are counted by the one retry, which only a sticky request makes.
FlowOK(r) ==
  /\ rpc[r] \in {"bind", "connect"} => peer[r] \in ctx[r].pool
  /\ rpc[r] \in {"lookup", "select", "bind"} => IsSticky(r)
  /\ rpc[r] = "new" => ~retried[r]
  /\ rpc[r] # "done" => answer[r] = None
  /\ rpc[r] # "done" => failures[r] = IF retried[r] THEN 1 ELSE 0
  /\ rpc[r] # "done" /\ retried[r] => IsSticky(r)
  /\ rpc[r] = "done" =>
       /\ failures[r] <= 2
       /\ failures[r] = 2 => IsSticky(r)
       /\ answer[r] = 500 /\ broken[r] = 0 => failures[r] = IF IsSticky(r) THEN 2 ELSE 1
       /\ answer[r] = 200 => failures[r] <= 1

FlowInv == \A r \in Requests : FlowOK(r)

\* The inductive invariant of the request flow.
RequestsInv == StickyInv /\ RequestsTypeOK /\ FlowInv

\* A step that leaves a request's variables alone keeps what is true of it.
LEMMA FlowFrame ==
  ASSUME NEW q, FlowOK(q),
         rpc'[q] = rpc[q], ctx'[q] = ctx[q], retried'[q] = retried[q], peer'[q] = peer[q],
         failures'[q] = failures[q], broken'[q] = broken[q], answer'[q] = answer[q]
  PROVE  FlowOK(q)'
BY DEF FlowOK, IsSticky

\* A new router satisfies the invariant.
LEMMA RequestsInitInv == RequestsInit => RequestsInv
<1> SUFFICES ASSUME RequestsInit PROVE RequestsInv
  OBVIOUS
<1> USE RouterAssumption
<1>1. StickyInv
  BY StickyInitInv DEF RequestsInit
<1>2. RequestsTypeOK
  <2>1. [t \in TransportKind |-> {}] \in [TransportKind -> SUBSET Backends]
    OBVIOUS
  <2>2. 0 \in 0 .. MaxUpdates
    OBVIOUS
  <2> QED BY <1>1, <2>1, <2>2 DEF RequestsInit, RequestsTypeOK, Stage, StickyInv
<1>3. FlowInv
  BY DEF RequestsInit, FlowInv, FlowOK
<1> QED BY <1>1, <1>2, <1>3 DEF RequestsInv

-----------------------------------------------------------------------------
\* A route that resolves leads to an application.
LEMMA ResolvedRoute ==
  ASSUME NEW host, NEW segment
  PROVE  resolve_route(host, segment) \in Applications \cup {None}
BY RouterAssumption DEF resolve_route

\* A sticky request's key is a key of the store.
LEMMA MapKeyType ==
  ASSUME RequestsTypeOK, NEW r \in Requests, ctx[r] # None, IsSticky(r)
  PROVE  MapKey(r) \in AffinityKeys
<1>1. ctx[r] \in RouterCtx
  BY DEF RequestsTypeOK
<1>2. /\ ctx[r].app \in Applications
      /\ ctx[r].transport \in TransportKind
      /\ ctx[r].affinity_key \in ClientKeys \cup Requests
  BY <1>1 DEF RouterCtx, IsSticky
<1> QED BY <1>2, RouterAssumption DEF MapKey

\* Answering a request ends it with a status of the code.
LEMMA AnswerType ==
  ASSUME RequestsTypeOK, NEW r \in Requests, NEW status \in Answers, Answer(r, status)
  PROVE  /\ rpc' \in [Requests -> Stage]
         /\ answer' \in [Requests -> Answers \cup {None}]
         /\ rpc'[r] = "done" /\ answer'[r] = status
         /\ \A q \in Requests \ {r} : rpc'[q] = rpc[q] /\ answer'[q] = answer[q]
BY DEF Answer, RequestsTypeOK, Stage

\* Without a hint the status is the error's own, or 500; never 200.
LEMMA UnhintedStatus ==
  /\ fail_to_proxy(None, None) = 500
  /\ \A error \in ErrorStatuses \cup {None} : fail_to_proxy(None, error) \in Answers \ {200}
<1>1. None \notin FailureHint /\ None \notin Answers
  BY RouterAssumption
<1>2. \A error : fail_to_proxy(None, error) = IF error # None THEN error ELSE 500
  BY <1>1 DEF fail_to_proxy, FailureHint
<1>3. \A error \in ErrorStatuses : error # 200
  BY RouterAssumption
<1> QED BY <1>1, <1>2, <1>3 DEF Answers

\* Swapping the configuration leaves every request's snapshot as it was.
LEMMA UpdateInv ==
  ASSUME RequestsInv, NEW app \in Applications, NEW pools \in PoolChoices, update(app, pools)
  PROVE  RequestsInv'
<1> USE DEF RequestsInv
<1>1. StickyInv'
  BY StickyStutterInv DEF update
<1>2. RequestsTypeOK'
  <2>1. pools \in [TransportKind -> SUBSET Backends]
    BY RouterAssumption
  <2>2. updates' \in 0 .. MaxUpdates
    BY RouterAssumption DEF update, RequestsTypeOK
  <2>3. config' \in [Applications -> [TransportKind -> SUBSET Backends]]
    BY <2>1 DEF update, RequestsTypeOK
  <2> QED BY <1>1, <2>2, <2>3 DEF update, RequestsTypeOK, requestVars, StickyInv
<1>3. FlowInv'
  BY FlowFrame DEF update, requestVars, FlowInv
<1> QED BY <1>1, <1>2, <1>3

\* A request that request_filter panics on has no backend and no answer.
LEMMA RequestAbortsInv ==
  ASSUME RequestsInv, NEW r \in Requests, RequestAborts(r)
  PROVE  RequestsInv'
<1> USE DEF RequestsInv
<1>1. StickyInv'
  BY StickyStutterInv DEF RequestAborts
<1>2. rpc[r] = "new" /\ rpc' = [rpc EXCEPT ![r] = "done"]
  BY DEF RequestAborts, Arrives
<1>3. RequestsTypeOK'
  BY <1>1, <1>2 DEF RequestAborts, RequestsTypeOK, routerVars, StickyInv, Stage
<1>4. FlowInv'
  <2> SUFFICES ASSUME NEW q \in Requests PROVE FlowOK(q)'
    BY DEF FlowInv
  <2>1. FlowOK(q)
    BY DEF FlowInv
  <2>2. CASE q = r
    <3>1. answer[r] = None /\ None # 500 /\ None # 200 /\ failures[r] = 0 /\ rpc'[r] = "done"
      BY <1>2, <2>1, <2>2, RouterAssumption DEF FlowOK, Answers, RequestsTypeOK
    <3> QED BY <2>2, <3>1 DEF RequestAborts, FlowOK
  <2>3. CASE q # r
    BY <1>2, <2>1, <2>3, FlowFrame DEF RequestAborts, RequestsTypeOK
  <2> QED BY <2>2, <2>3
<1> QED BY <1>1, <1>3, <1>4

\* A request refused by request_filter never saw a backend.
LEMMA RequestRefusedInv ==
  ASSUME RequestsInv, NEW r \in Requests, RequestRefused(r)
  PROVE  RequestsInv'
<1> USE DEF RequestsInv
<1>1. StickyInv'
  BY StickyStutterInv DEF RequestRefused
<1>2. PICK status \in Answers \ {200, 500} : Answer(r, status)
  BY RouterAssumption DEF RequestRefused, Arrives, Answers, fail_to_proxy
<1>3. rpc[r] = "new"
  BY DEF RequestRefused, Arrives
<1>4. RequestsTypeOK'
  BY <1>1, <1>2, AnswerType DEF RequestRefused, RequestsTypeOK, routerVars, StickyInv
<1>5. FlowInv'
  <2> SUFFICES ASSUME NEW q \in Requests PROVE FlowOK(q)'
    BY DEF FlowInv
  <2>1. FlowOK(q)
    BY DEF FlowInv
  <2>2. CASE q = r
    BY <1>2, <1>3, <2>1, <2>2, AnswerType DEF RequestRefused, FlowOK
  <2>3. CASE q # r
    BY <1>2, <2>1, <2>3, AnswerType, FlowFrame DEF RequestRefused
  <2> QED BY <2>2, <2>3
<1> QED BY <1>1, <1>4, <1>5

\* request_filter gives the request a well-formed context.
LEMMA RequestFilterInv ==
  ASSUME RequestsInv, NEW r \in Requests, RequestFilter(r)
  PROVE  RequestsInv'
<1> USE DEF RequestsInv
<1>1. StickyInv'
  BY StickyStutterInv DEF RequestFilter
<1>2. PICK new_ctx \in RouterCtx : ctx' = [ctx EXCEPT ![r] = new_ctx]
  <2>1. PICK in \in RequestInputs :
          LET app == resolve_route(in.host, in.segment)
              transport == Transport(app, in.is_upgrade)
          IN
          /\ Arrives(r, in)
          /\ in.limit = None /\ in.host # None /\ app # None
          /\ config[app][transport] # {}
          /\ ctx' = [ctx EXCEPT ![r] =
               [app |-> app, transport |-> transport, pool |-> config[app][transport],
                version |-> updates,
                affinity_key |-> IF sticky THEN AffinityKey(r, in) ELSE None]]
    BY DEF RequestFilter
  <2> DEFINE app == resolve_route(in.host, in.segment)
             transport == Transport(app, in.is_upgrade)
             key == IF sticky THEN AffinityKey(r, in) ELSE None
  <2>2. app \in Applications
    BY <2>1, ResolvedRoute
  <2>3. transport \in TransportKind
    BY DEF Transport, TransportKind
  <2>4. config[app][transport] \in SUBSET Backends
    <3> HIDE DEF app, transport
    <3> QED BY <2>2, <2>3 DEF RequestsTypeOK
  <2>5. key \in ClientKeys \cup Requests \cup {None}
    BY RouterAssumption DEF AffinityKey
  <2>6. updates \in Nat
    BY RouterAssumption DEF RequestsTypeOK
  <2>7. ctx' = [ctx EXCEPT ![r] =
          [app |-> app, transport |-> transport, pool |-> config[app][transport],
           version |-> updates, affinity_key |-> key]]
    BY <2>1
  <2> HIDE DEF app, transport, key
  <2>8. [app |-> app, transport |-> transport, pool |-> config[app][transport],
         version |-> updates, affinity_key |-> key] \in RouterCtx
    BY <2>2, <2>3, <2>4, <2>5, <2>6 DEF RouterCtx
  <2> QED BY <2>7, <2>8
<1>3. rpc[r] = "new" /\ rpc' = [rpc EXCEPT ![r] = "peer"]
  BY DEF RequestFilter, Arrives
<1>4. None \notin RouterCtx
  BY RouterAssumption
<1>5. RequestsTypeOK'
  BY <1>1, <1>2, <1>3, <1>4 DEF RequestFilter, RequestsTypeOK, routerVars, StickyInv, Stage
<1>6. FlowInv'
  <2> SUFFICES ASSUME NEW q \in Requests PROVE FlowOK(q)'
    BY DEF FlowInv
  <2>1. FlowOK(q)
    BY DEF FlowInv
  <2>2. CASE q = r
    BY <1>2, <1>3, <2>1, <2>2 DEF RequestFilter, FlowOK, RequestsTypeOK
  <2>3. CASE q # r
    BY <1>2, <1>3, <2>1, <2>3, FlowFrame DEF RequestFilter, RequestsTypeOK
  <2> QED BY <2>2, <2>3
<1> QED BY <1>1, <1>5, <1>6
-----------------------------------------------------------------------------
(* upstream_peer                                                           *)

\* Without sticky sessions the peer is one of the pool.
LEMMA PeerPlainInv ==
  ASSUME RequestsInv, NEW r \in Requests, PeerPlain(r)
  PROVE  RequestsInv'
<1> USE DEF RequestsInv
<1>1. StickyInv'
  BY StickyStutterInv DEF PeerPlain
<1>2. ctx[r] \in RouterCtx
  BY DEF PeerPlain, RequestsTypeOK
<1>3. PICK backend \in ctx[r].pool : peer' = [peer EXCEPT ![r] = backend]
  BY DEF PeerPlain
<1>4. backend \in Backends
  BY <1>2 DEF RouterCtx
<1>5. rpc[r] = "peer" /\ rpc' = [rpc EXCEPT ![r] = "connect"]
  BY DEF PeerPlain
<1>6. RequestsTypeOK'
  BY <1>1, <1>2, <1>3, <1>4, <1>5 DEF PeerPlain, RequestsTypeOK, routerVars, StickyInv, Stage
<1>7. FlowInv'
  <2> SUFFICES ASSUME NEW q \in Requests PROVE FlowOK(q)'
    BY DEF FlowInv
  <2>1. FlowOK(q)
    BY DEF FlowInv
  <2>2. CASE q = r
    BY <1>3, <1>5, <2>1, <2>2 DEF PeerPlain, FlowOK, RequestsTypeOK, IsSticky
  <2>3. CASE q # r
    BY <1>3, <1>5, <2>1, <2>3, FlowFrame DEF PeerPlain, RequestsTypeOK
  <2> QED BY <2>2, <2>3
<1> QED BY <1>1, <1>6, <1>7

\* The lookup of a sticky request uses a key of the store.
LEMMA PeerLooksUpInv ==
  ASSUME RequestsInv, NEW r \in Requests, PeerLooksUp(r)
  PROVE  RequestsInv'
<1> USE DEF RequestsInv
<1>1. MapKey(r) \in AffinityKeys
  BY MapKeyType DEF PeerLooksUp, RequestsTypeOK
<1>2. StickyInv'
  BY <1>1, LookupBeginsInv DEF PeerLooksUp
<1>3. rpc[r] = "peer" /\ rpc' = [rpc EXCEPT ![r] = "lookup"]
  BY DEF PeerLooksUp
<1>4. RequestsTypeOK'
  BY <1>2, <1>3 DEF PeerLooksUp, RequestsTypeOK, routerVars, StickyInv, Stage
<1>5. FlowInv'
  <2> SUFFICES ASSUME NEW q \in Requests PROVE FlowOK(q)'
    BY DEF FlowInv
  <2>1. FlowOK(q)
    BY DEF FlowInv
  <2>2. CASE q = r
    BY <1>3, <2>1, <2>2 DEF PeerLooksUp, FlowOK, RequestsTypeOK, IsSticky
  <2>3. CASE q # r
    BY <1>3, <2>1, <2>3, FlowFrame DEF PeerLooksUp, RequestsTypeOK
  <2> QED BY <2>2, <2>3
<1> QED BY <1>2, <1>4, <1>5

\* The lookup only returns a backend of the pool it is given.
LEMMA MappedInPool ==
  ASSUME NEW r, NEW allowed_backends, Mapped(r, allowed_backends) # None
  PROVE  Mapped(r, allowed_backends) \in allowed_backends
BY DEF Mapped

\* The peer a lookup returns is one of the pool.
LEMMA PeerMappedInv ==
  ASSUME RequestsInv, NEW r \in Requests, PeerMapped(r)
  PROVE  RequestsInv'
<1> USE DEF RequestsInv
<1> DEFINE mapped == Mapped(r, ctx[r].pool)
<1>1. StickyInv'
  BY LookupEndsInv DEF PeerMapped
<1>2. ctx[r] \in RouterCtx
  BY DEF PeerMapped, RequestsTypeOK
<1>3. mapped # None => mapped \in ctx[r].pool /\ mapped \in Backends
  BY <1>2, MappedInPool DEF RouterCtx
<1>4. /\ rpc[r] = "lookup"
      /\ peer' = [peer EXCEPT ![r] = IF mapped = None THEN peer[r] ELSE mapped]
      /\ rpc' = [rpc EXCEPT ![r] = IF mapped = None THEN "select" ELSE "connect"]
  BY DEF PeerMapped
<1> HIDE DEF mapped
<1>5. RequestsTypeOK'
  BY <1>1, <1>2, <1>3, <1>4 DEF PeerMapped, RequestsTypeOK, routerVars, StickyInv, Stage
<1>6. FlowInv'
  <2> SUFFICES ASSUME NEW q \in Requests PROVE FlowOK(q)'
    BY DEF FlowInv
  <2>1. FlowOK(q)
    BY DEF FlowInv
  <2>2. CASE q = r
    BY <1>3, <1>4, <2>1, <2>2 DEF PeerMapped, FlowOK, RequestsTypeOK, IsSticky
  <2>3. CASE q # r
    BY <1>4, <2>1, <2>3, FlowFrame DEF PeerMapped, RequestsTypeOK
  <2> QED BY <2>2, <2>3
<1> QED BY <1>1, <1>5, <1>6

\* The peer the balancer selects is one of the pool.
LEMMA PeerSelectsInv ==
  ASSUME RequestsInv, NEW r \in Requests, PeerSelects(r)
  PROVE  RequestsInv'
<1> USE DEF RequestsInv
<1>1. rpc[r] = "select" /\ rpc' = [rpc EXCEPT ![r] = "bind"]
  BY DEF PeerSelects
<1>2. IsSticky(r)
  BY <1>1 DEF FlowInv, FlowOK
<1>3. ctx[r] \in RouterCtx /\ ctx[r] # None
  BY <1>1 DEF RequestsTypeOK
<1>4. StickyInv'
  BY <1>2, <1>3, MapKeyType, BindBeginsInv DEF PeerSelects
<1>5. PICK backend \in ctx[r].pool : peer' = [peer EXCEPT ![r] = backend]
  BY DEF PeerSelects
<1>6. backend \in Backends
  BY <1>3 DEF RouterCtx
<1>7. RequestsTypeOK'
  BY <1>1, <1>3, <1>4, <1>5, <1>6 DEF PeerSelects, RequestsTypeOK, routerVars, StickyInv, Stage
<1>8. FlowInv'
  <2> SUFFICES ASSUME NEW q \in Requests PROVE FlowOK(q)'
    BY DEF FlowInv
  <2>1. FlowOK(q)
    BY DEF FlowInv
  <2>2. CASE q = r
    BY <1>1, <1>5, <2>1, <2>2 DEF PeerSelects, FlowOK, RequestsTypeOK, IsSticky
  <2>3. CASE q # r
    BY <1>1, <1>5, <2>1, <2>3, FlowFrame DEF PeerSelects, RequestsTypeOK
  <2> QED BY <2>2, <2>3
<1> QED BY <1>4, <1>7, <1>8

\* Binding the selected peer keeps it in the pool.
LEMMA PeerBindsInv ==
  ASSUME RequestsInv, NEW r \in Requests, PeerBinds(r)
  PROVE  RequestsInv'
<1> USE DEF RequestsInv
<1>1. rpc[r] = "bind" /\ rpc' = [rpc EXCEPT ![r] = "connect"]
  BY DEF PeerBinds
<1>2. peer[r] \in Backends
  <2>1. ctx[r] \in RouterCtx
    BY <1>1 DEF RequestsTypeOK
  <2>2. peer[r] \in ctx[r].pool
    BY <1>1 DEF FlowInv, FlowOK
  <2> QED BY <2>1, <2>2 DEF RouterCtx
<1>3. StickyInv'
  BY <1>2, BindEndsInv DEF PeerBinds
<1>4. RequestsTypeOK'
  BY <1>1, <1>3 DEF PeerBinds, RequestsTypeOK, routerVars, StickyInv, Stage
<1>5. FlowInv'
  <2> SUFFICES ASSUME NEW q \in Requests PROVE FlowOK(q)'
    BY DEF FlowInv
  <2>1. FlowOK(q)
    BY DEF FlowInv
  <2>2. CASE q = r
    BY <1>1, <2>1, <2>2 DEF PeerBinds, FlowOK, RequestsTypeOK, IsSticky
  <2>3. CASE q # r
    BY <1>1, <2>1, <2>3, FlowFrame DEF PeerBinds, RequestsTypeOK
  <2> QED BY <2>2, <2>3
<1> QED BY <1>3, <1>4, <1>5

\* A request without a healthy backend ends with 503.
LEMMA NoHealthyPeerInv ==
  ASSUME RequestsInv, NEW r \in Requests, NoHealthyPeer(r)
  PROVE  RequestsInv'
<1> USE DEF RequestsInv
<1>1. StickyInv'
  BY StickyStutterInv DEF NoHealthyPeer
<1>2. Answer(r, 503) /\ 503 \in Answers
  BY DEF NoHealthyPeer, fail_to_proxy, Answers
<1>3. RequestsTypeOK'
  BY <1>1, <1>2, AnswerType DEF NoHealthyPeer, RequestsTypeOK, routerVars, StickyInv
<1>4. FlowInv'
  <2> SUFFICES ASSUME NEW q \in Requests PROVE FlowOK(q)'
    BY DEF FlowInv
  <2>1. FlowOK(q)
    BY DEF FlowInv
  <2>2. CASE q = r
    BY <1>2, <2>1, <2>2, AnswerType DEF NoHealthyPeer, FlowOK
  <2>3. CASE q # r
    BY <1>2, <2>1, <2>3, AnswerType, FlowFrame DEF NoHealthyPeer
  <2> QED BY <2>2, <2>3
<1> QED BY <1>1, <1>3, <1>4

-----------------------------------------------------------------------------
(* The connection                                                          *)

\* A served request had at most one failed connection.
LEMMA ServedInv ==
  ASSUME RequestsInv, NEW r \in Requests, Served(r)
  PROVE  RequestsInv'
<1> USE DEF RequestsInv
<1>1. StickyInv'
  BY StickyStutterInv DEF Served
<1>2. Answer(r, 200) /\ 200 \in Answers
  BY DEF Served, Answers
<1>3. RequestsTypeOK'
  BY <1>1, <1>2, AnswerType DEF Served, RequestsTypeOK, routerVars, StickyInv
<1>4. FlowInv'
  <2> SUFFICES ASSUME NEW q \in Requests PROVE FlowOK(q)'
    BY DEF FlowInv
  <2>1. FlowOK(q)
    BY DEF FlowInv
  <2>2. CASE q = r
    BY <1>2, <2>1, <2>2, AnswerType DEF Served, FlowOK
  <2>3. CASE q # r
    BY <1>2, <2>1, <2>3, AnswerType, FlowFrame DEF Served
  <2> QED BY <2>2, <2>3
<1> QED BY <1>1, <1>3, <1>4

\* A failure is the first, and then a sticky request tries again, or it is
\* the last and the request is answered with 500.
LEMMA FailToConnectInv ==
  ASSUME RequestsInv, NEW r \in Requests, FailToConnect(r)
  PROVE  RequestsInv'
<1> USE DEF RequestsInv
<1>1. rpc[r] = "connect" /\ ctx[r] # None
  BY DEF FailToConnect, RequestsTypeOK
<1>2. StickyInv'
  <2>1. CASE IsSticky(r) /\ remove(r, MapKey(r))
    BY <1>1, <2>1, MapKeyType, RemoveInv
  <2>2. CASE UNCHANGED stickyVars
    BY <2>2, StickyStutterInv
  <2> QED BY <2>1, <2>2 DEF FailToConnect
<1>3. failures' = [failures EXCEPT ![r] = @ + 1]
  BY DEF FailToConnect
<1>4. failures' \in [Requests -> Nat]
  BY <1>3 DEF RequestsTypeOK
<1>5. FlowOK(r)
  BY DEF FlowInv
<1>6. CASE IsSticky(r) /\ ~retried[r]
  <2>1. /\ retried' = [retried EXCEPT ![r] = TRUE]
        /\ rpc' = [rpc EXCEPT ![r] = "peer"]
        /\ UNCHANGED answer
    BY <1>6 DEF FailToConnect
  <2>2. RequestsTypeOK'
    BY <1>1, <1>2, <1>4, <2>1 DEF FailToConnect, RequestsTypeOK, routerVars, StickyInv, Stage
  <2>3. FlowInv'
    <3> SUFFICES ASSUME NEW q \in Requests PROVE FlowOK(q)'
      BY DEF FlowInv
    <3>1. CASE q = r
      BY <1>1, <1>3, <1>5, <1>6, <2>1, <3>1 DEF FailToConnect, FlowOK, RequestsTypeOK, IsSticky
    <3>2. CASE q # r
      BY <1>3, <2>1, <3>2, FlowFrame DEF FailToConnect, RequestsTypeOK, FlowInv
    <3> QED BY <3>1, <3>2
  <2> QED BY <1>2, <2>2, <2>3
<1>7. CASE ~(IsSticky(r) /\ ~retried[r])
  <2>1. Answer(r, 500) /\ 500 \in Answers /\ UNCHANGED retried
    BY <1>7, UnhintedStatus DEF FailToConnect, Answers
  <2>2. RequestsTypeOK'
    BY <1>2, <1>4, <2>1, AnswerType DEF FailToConnect, RequestsTypeOK, routerVars, StickyInv
  <2>3. FlowInv'
    <3> SUFFICES ASSUME NEW q \in Requests PROVE FlowOK(q)'
      BY DEF FlowInv
    <3>1. CASE q = r
      <4>1. failures'[r] = failures[r] + 1 /\ ctx' = ctx
        BY <1>3 DEF FailToConnect, RequestsTypeOK
      <4>2. failures[r] = IF IsSticky(r) THEN 1 ELSE 0
        BY <1>1, <1>5, <1>7 DEF FlowOK
      <4> QED BY <2>1, <3>1, <4>1, <4>2, AnswerType DEF FlowOK, IsSticky
    <3>2. CASE q # r
      BY <1>3, <2>1, <3>2, AnswerType, FlowFrame DEF FailToConnect, RequestsTypeOK, FlowInv
    <3> QED BY <3>1, <3>2
  <2> QED BY <1>2, <2>2, <2>3
<1> QED BY <1>6, <1>7

\* A broken exchange counts no failed connection.
LEMMA ExchangeFailsInv ==
  ASSUME RequestsInv, NEW r \in Requests, ExchangeFails(r)
  PROVE  RequestsInv'
<1> USE DEF RequestsInv
<1>1. StickyInv'
  BY StickyStutterInv DEF ExchangeFails
<1>2. rpc[r] = "connect" /\ ctx[r] # None /\ FlowOK(r)
  BY DEF ExchangeFails, RequestsTypeOK, FlowInv
<1>3. broken' = [broken EXCEPT ![r] = @ + 1] /\ broken'[r] # 0 /\ broken' \in [Requests -> Nat]
  BY DEF ExchangeFails, RequestsTypeOK
<1>4. CASE rpc' = [rpc EXCEPT ![r] = "peer"] /\ UNCHANGED answer
  <2>1. RequestsTypeOK'
    BY <1>1, <1>2, <1>3, <1>4 DEF ExchangeFails, RequestsTypeOK, routerVars, StickyInv, Stage
  <2>2. FlowInv'
    <3> SUFFICES ASSUME NEW q \in Requests PROVE FlowOK(q)'
      BY DEF FlowInv
    <3>1. CASE q = r
      BY <1>2, <1>4, <3>1 DEF ExchangeFails, FlowOK, RequestsTypeOK, IsSticky
    <3>2. CASE q # r
      BY <1>3, <1>4, <3>2, FlowFrame DEF ExchangeFails, RequestsTypeOK, FlowInv
    <3> QED BY <3>1, <3>2
  <2> QED BY <1>1, <2>1, <2>2
<1>5. CASE \E error \in ErrorStatuses \cup {None} : Answer(r, fail_to_proxy(None, error))
  <2>1. PICK status \in Answers \ {200} : Answer(r, status)
    BY <1>5, UnhintedStatus
  <2>2. RequestsTypeOK'
    BY <1>1, <1>3, <2>1, AnswerType DEF ExchangeFails, RequestsTypeOK, routerVars, StickyInv
  <2>3. FlowInv'
    <3> SUFFICES ASSUME NEW q \in Requests PROVE FlowOK(q)'
      BY DEF FlowInv
    <3>1. CASE q = r
      BY <1>2, <1>3, <2>1, <3>1, AnswerType DEF ExchangeFails, FlowOK
    <3>2. CASE q # r
      BY <1>3, <2>1, <3>2, AnswerType, FlowFrame DEF ExchangeFails, RequestsTypeOK, FlowInv
    <3> QED BY <3>1, <3>2
  <2> QED BY <1>1, <2>2, <2>3
<1> QED BY <1>4, <1>5 DEF ExchangeFails

\* Sweeps, the clock and stuttering leave the requests alone.
LEMMA RequestsFrame ==
  ASSUME RequestsInv, StickyInv', UNCHANGED <<routerVars, requestVars>>
  PROVE  RequestsInv'
<1>1. RequestsTypeOK'
  BY DEF RequestsInv, RequestsTypeOK, routerVars, requestVars, StickyInv
<1>2. FlowInv'
  BY FlowFrame DEF RequestsInv, FlowInv, requestVars
<1> QED BY <1>1, <1>2 DEF RequestsInv

-----------------------------------------------------------------------------
\* The request flow's invariant holds for any requests and updates.
LEMMA RequestsInvariant == RequestsSpec => []RequestsInv
<1>1. RequestsInit => RequestsInv
  BY RequestsInitInv
<1>2. RequestsInv /\ [RequestsNext]_allVars => RequestsInv'
  <2> SUFFICES ASSUME RequestsInv, [RequestsNext]_allVars
               PROVE  RequestsInv'
    OBVIOUS
  <2>1. ASSUME NEW r \in Requests, RequestAborts(r) \/ RequestRefused(r) \/ RequestFilter(r)
        PROVE  RequestsInv'
    BY <2>1, RequestAbortsInv, RequestRefusedInv, RequestFilterInv
  <2>2. ASSUME NEW r \in Requests, RequestStep(r) PROVE RequestsInv'
    <3>1. CASE SweepStep(r)
      <4>1. StickyInv'
        BY <3>1, SweepLocksInv, SweepInv DEF SweepStep, RequestsInv
      <4> QED BY <3>1, <4>1, RequestsFrame DEF SweepStep
    <3> QED BY <2>2, <3>1, PeerPlainInv, PeerLooksUpInv, PeerMappedInv, PeerSelectsInv,
               PeerBindsInv, NoHealthyPeerInv, ServedInv, FailToConnectInv,
               ExchangeFailsInv DEF RequestStep
  <2>3. CASE \E app \in Applications, pools \in PoolChoices : update(app, pools)
    BY <2>3, UpdateInv
  <2>4. CASE TimePasses
    <3>1. StickyInv'
      BY <2>4, TickInv DEF TimePasses, RequestsInv
    <3> QED BY <2>4, <3>1, RequestsFrame DEF TimePasses
  <2>5. CASE UNCHANGED allVars
    <3>1. StickyInv'
      BY <2>5, StickyStutterInv DEF allVars, RequestsInv
    <3> QED BY <2>5, <3>1, RequestsFrame DEF allVars
  <2> QED BY <2>1, <2>2, <2>3, <2>4, <2>5 DEF RequestsNext, AllAnswered
<1> QED BY <1>1, <1>2, PTL DEF RequestsSpec

\* Type correctness of the router and its sticky store under requests.
THEOREM RequestsTypeCorrect == RequestsSpec => []RequestsTypeOK
<1>1. RequestsInv => RequestsTypeOK
  BY DEF RequestsInv
<1> QED BY <1>1, RequestsInvariant, PTL

\* Each request goes only to backends of the pool it was routed to, whatever
\* updates replace the configuration meanwhile.
THEOREM PeerIsFromSnapshot == RequestsSpec => []PeerFromSnapshot
<1>1. RequestsInv => PeerFromSnapshot
  BY DEF RequestsInv, FlowInv, FlowOK, PeerFromSnapshot
<1> QED BY <1>1, RequestsInvariant, PTL

\* A failing connection is retried at most once, and only for a sticky
\* session.
THEOREM RetryIsBounded == RequestsSpec => []RetriedOnce
<1>1. None # 500 /\ None # 200
  BY RouterAssumption DEF Answers
<1>2. RequestsInv => RetriedOnce
  BY <1>1 DEF RequestsInv, FlowInv, FlowOK, RetriedOnce, RequestsTypeOK
<1> QED BY <1>2, RequestsInvariant, PTL

\* The sweeps that requests run on the way never deadlock.
THEOREM RequestSweepsNeverDeadlock == RequestsSpec => []SomeSweeperMoves
<1>1. RequestsInv => SomeSweeperMoves
  BY OrderedLocksProgress DEF RequestsInv
<1> QED BY <1>1, RequestsInvariant, PTL

-----------------------------------------------------------------------------
(* The store under the requests                                            *)

\* What a request does to the store is one of the store's operations.
LEMMA StoreStep ==
  ASSUME RequestsInv, [RequestsNext]_allVars
  PROVE  [StickyNext]_stickyVars
<1> USE DEF RequestsInv
<1>1. ASSUME NEW r \in Requests, PeerLooksUp(r) PROVE StickyNext
  <2>1. MapKey(r) \in AffinityKeys
    BY <1>1, MapKeyType DEF PeerLooksUp, RequestsTypeOK
  <2> QED BY <1>1, <2>1 DEF PeerLooksUp, StickyNext
<1>2. ASSUME NEW r \in Requests, PeerMapped(r) PROVE StickyNext
  <2>1. ctx[r] \in RouterCtx
    BY <1>2 DEF PeerMapped, RequestsTypeOK
  <2>2. ctx[r].pool \in SUBSET Backends
    BY <2>1 DEF RouterCtx
  <2> QED BY <1>2, <2>2 DEF PeerMapped, StickyNext
<1>3. ASSUME NEW r \in Requests, PeerSelects(r) PROVE StickyNext
  <2>1. MapKey(r) \in AffinityKeys
    BY <1>3, MapKeyType DEF PeerSelects, RequestsTypeOK, FlowInv, FlowOK
  <2> QED BY <1>3, <2>1 DEF PeerSelects, StickyNext
<1>4. ASSUME NEW r \in Requests, PeerBinds(r) PROVE StickyNext
  <2>1. ctx[r] \in RouterCtx /\ peer[r] \in ctx[r].pool
    BY <1>4 DEF PeerBinds, RequestsTypeOK, FlowInv, FlowOK
  <2>2. peer[r] \in Backends
    BY <2>1 DEF RouterCtx
  <2> QED BY <1>4, <2>2 DEF PeerBinds, StickyNext
<1>5. ASSUME NEW r \in Requests, FailToConnect(r) PROVE [StickyNext]_stickyVars
  <2>1. ctx[r] # None
    BY <1>5 DEF FailToConnect, RequestsTypeOK
  <2>2. IsSticky(r) => MapKey(r) \in AffinityKeys
    BY <2>1, MapKeyType
  <2> QED BY <1>5, <2>2 DEF FailToConnect, StickyNext
<1>6. ASSUME NEW r \in Requests, SweepStep(r) PROVE StickyNext
  BY <1>6 DEF SweepStep, StickyNext
<1>7. CASE TimePasses
  BY <1>7 DEF TimePasses, StickyNext
<1>8. ASSUME NEW r \in Requests,
             \/ RequestAborts(r) \/ RequestRefused(r) \/ RequestFilter(r) \/ PeerPlain(r)
             \/ NoHealthyPeer(r) \/ Served(r) \/ ExchangeFails(r)
      PROVE  UNCHANGED stickyVars
  BY <1>8 DEF RequestAborts, RequestRefused, RequestFilter, PeerPlain, NoHealthyPeer, Served, ExchangeFails
<1>9. ASSUME NEW r \in Requests, RequestStep(r) PROVE [StickyNext]_stickyVars
  BY <1>1, <1>2, <1>3, <1>4, <1>5, <1>6, <1>8, <1>9 DEF RequestStep
<1>10. CASE \E app \in Applications, pools \in PoolChoices : update(app, pools)
  BY <1>10 DEF update
<1>11. CASE UNCHANGED allVars
  BY <1>11 DEF allVars
<1> QED BY <1>7, <1>8, <1>9, <1>10, <1>11 DEF RequestsNext, AllAnswered

\* The requests use the store only through its operations: what is proved of
\* the store on its own holds of the store inside the router.
THEOREM StoreUnderRequests == RequestsSpec => StickySpec
<1>1. RequestsInit => StickyInit
  BY DEF RequestsInit
<1>2. RequestsInv /\ [RequestsNext]_allVars => [StickyNext]_stickyVars
  BY StoreStep
<1> QED BY <1>1, <1>2, RequestsInvariant, PTL DEF RequestsSpec, StickySpec

\* In particular its size stays bounded, however the requests interleave.
THEOREM RequestsKeepStoreBounded == RequestsSpec => []CapacityBound
BY StoreUnderRequests, StoreStaysNearCapacity, PTL

-----------------------------------------------------------------------------
(* Sessions                                                                *)

\* Two requests of one session: same affinity key, any application.
SameSession(p, q) ==
  /\ ctx[p] # None /\ ctx[q] # None /\ IsSticky(p)
  /\ ctx[p].affinity_key = ctx[q].affinity_key

\* A sticky request that has its backend, or was served by it.
Settled(r) == ctx[r] # None /\ IsSticky(r) /\ (rpc[r] = "connect" \/ answer[r] = 200)
NoFailure(k) == \A p \in Requests : failures[p] > 0 => MapKey(p) # k

\* The store operation of a request is about its own key, and not of the
\* future; a settled request's backend is one of its pool.
OperationOK(p) ==
  /\ op[p].now <= clock
  /\ rpc[p] \in {"lookup", "bind"} => op[p].key = MapKey(p)
  /\ rpc[p] = "new" => ctx[p] = None
  /\ answer[p] = 200 => ctx[p] # None /\ peer[p] \in ctx[p].pool

OperationInv == \A p \in Requests : OperationOK(p)

\* A session has one unanswered request at a time, which saw the latest
\* configuration of all its requests and looks up at the latest time.
SerialInv ==
  \A p, q \in Requests :
    p # q /\ SameSession(p, q) /\ rpc[p] # "done" =>
      /\ rpc[q] = "done"
      /\ ctx[q].version <= ctx[p].version
      /\ rpc[p] = "lookup" => op[q].now <= op[p].now

\* A version stands for one configuration.
VersionInv ==
  \A p \in Requests : ctx[p] # None =>
    /\ ctx[p].version <= updates
    /\ ctx[p].version = updates => ctx[p].pool = config[ctx[p].app][ctx[p].transport]
    /\ \A q \in Requests :
         /\ ctx[q] # None /\ ctx[p].app = ctx[q].app /\ ctx[p].transport = ctx[q].transport
         /\ ctx[p].version = ctx[q].version
         => ctx[p].pool = ctx[q].pool

\* A request binds its key only while the store has no entry for it.
MissInv == \A p \in Requests : rpc[p] \in {"select", "bind"} => entries[MapKey(p)] = None

\* Why a settled request's backend is or is not in the store: it is there,
Stored(r) ==
  /\ entries[MapKey(r)] # None
  /\ entries[MapKey(r)].backend = peer[r]
  /\ entries[MapKey(r)].expires_at >= op[r].now + Ttl

\* or its time is over, for every request that may still use the entry,
TimedOut(r) ==
  /\ clock >= op[r].now + Ttl
  /\ \A p \in Requests : ctx[p] # None /\ MapKey(p) = MapKey(r) =>
       /\ rpc[p] = "lookup" /\ entries[MapKey(r)] # None => op[p].now >= op[r].now + Ttl
       /\ rpc[p] = "bind" => op[p].now >= op[r].now + Ttl

\* or the session has gone on to a newer configuration.
MovedOn(r) ==
  \E p \in Requests : ctx[p] # None /\ MapKey(p) = MapKey(r) /\ ctx[p].version > ctx[r].version

RememberedInv ==
  \A r \in Requests : Settled(r) /\ NoFailure(MapKey(r)) => Stored(r) \/ TimedOut(r) \/ MovedOn(r)

\* SessionsStick, of the requests that are still connecting too.
Agree(r, q) ==
  /\ Settled(r) /\ Settled(q) /\ MapKey(r) = MapKey(q)
  /\ ctx[r].version = ctx[q].version
  /\ op[r].now <= op[q].now /\ op[q].now < op[r].now + Ttl
  /\ NoFailure(MapKey(r))
  => peer[r] = peer[q]

AgreeInv == \A r, q \in Requests : Agree(r, q)

\* The inductive invariant behind SessionsStick.
SessionInv == OperationInv /\ SerialInv /\ VersionInv /\ MissInv /\ RememberedInv /\ AgreeInv

\* What the steps have in common that settle no request: contexts stay,
\* entries are only dropped, and those of settled requests only when they
\* expired or their session moved on; a time that is read is the clock's.
GoesOn ==
  /\ clock' >= clock
  /\ \A p \in Requests : ctx[p] # None => ctx'[p] = ctx[p]
  /\ \A p \in Requests : rpc[p] = "done" => rpc'[p] = "done" /\ op'[p].now = op[p].now
  /\ \A k \in AffinityKeys : NoFailure(k)' => NoFailure(k)
  /\ \A k \in AffinityKeys : entries'[k] = entries[k] \/ entries'[k] = None
  /\ \A q \in Requests : Settled(q) /\ Stored(q) /\ NoFailure(MapKey(q))' =>
       \/ entries'[MapKey(q)] = entries[MapKey(q)]
       \/ entries[MapKey(q)].expires_at <= clock
       \/ MovedOn(q)
  /\ \A q \in Requests : Settled(q)' =>
       Settled(q) /\ peer'[q] = peer[q] /\ op'[q].now = op[q].now
  /\ \A p \in Requests : rpc'[p] \in {"lookup", "bind"} =>
       /\ ctx[p] # None
       /\ (rpc'[p] = rpc[p] /\ op'[p].now = op[p].now) \/ op'[p].now = clock
  /\ \A p \in Requests : rpc'[p] \in {"select", "bind"} =>
       /\ ctx[p] # None
       /\ rpc[p] \in {"select", "bind"} \/ entries'[MapKey(p)] = None

\* The key of a settled request is one of the store's.
LEMMA SettledKey ==
  ASSUME RequestsInv, NEW q \in Requests, Settled(q)
  PROVE  MapKey(q) \in AffinityKeys
BY MapKeyType DEF RequestsInv, Settled

\* Such a step keeps why each settled request's backend is where it is.
LEMMA RememberedKept ==
  ASSUME RequestsInv, RequestsInv', SessionInv, GoesOn
  PROVE  RememberedInv'
<1> SUFFICES ASSUME NEW q \in Requests, Settled(q)', NoFailure(MapKey(q))'
             PROVE  (Stored(q) \/ TimedOut(q) \/ MovedOn(q))'
  BY DEF RememberedInv
<1> DEFINE k == MapKey(q)
<1>1. Settled(q) /\ peer'[q] = peer[q] /\ op'[q].now = op[q].now
  BY DEF GoesOn
<1>2. ctx[q] # None /\ ctx'[q] = ctx[q] /\ k \in AffinityKeys
  BY <1>1, SettledKey DEF Settled, GoesOn
<1>3. k' = k
  BY <1>2 DEF MapKey
<1>4. \A p \in Requests : ctx[p] # None => MapKey(p)' = MapKey(p)
  BY DEF GoesOn, MapKey
<1>5. NoFailure(k)
  BY <1>2, <1>3 DEF GoesOn
<1>6. /\ clock \in Nat /\ clock' \in Nat /\ clock' >= clock
      /\ \A p \in Requests : op[p].now \in Nat /\ op'[p].now \in Nat
      /\ Ttl \in Nat \ {0}
      /\ entries[k] # None => entries[k].expires_at \in Nat
  BY <1>2, StickyAssumption DEF RequestsInv, StickyInv, StickyTypeOK, Operation, AffinityEntry,
     GoesOn
<1>7. CASE MovedOn(q)
  BY <1>2, <1>3, <1>4, <1>7 DEF MovedOn, GoesOn
<1>8. CASE TimedOut(q)
  <2> SUFFICES TimedOut(q)'
    OBVIOUS
  <2>1. clock >= op[q].now + Ttl
    BY <1>8 DEF TimedOut
  <2>2. clock' >= op'[q].now + Ttl
    BY <1>1, <1>6, <2>1
  <2>3. ASSUME NEW p \in Requests, ctx'[p] # None, MapKey(p)' = k,
               (rpc'[p] = "lookup" /\ entries'[k] # None) \/ rpc'[p] = "bind"
        PROVE  op'[p].now >= op[q].now + Ttl
    <3>1. /\ ctx[p] # None
          /\ (rpc'[p] = rpc[p] /\ op'[p].now = op[p].now) \/ op'[p].now = clock
      BY <2>3 DEF GoesOn
    <3>2. CASE op'[p].now = clock
      BY <2>1, <3>2
    <3>3. CASE rpc'[p] = rpc[p] /\ op'[p].now = op[p].now
      <4>1. MapKey(p) = k
        BY <1>4, <2>3, <3>1
      <4>2. entries'[k] # None => entries[k] # None
        BY <1>2 DEF GoesOn
      <4> QED BY <1>8, <2>3, <3>1, <3>3, <4>1, <4>2 DEF TimedOut
    <3> QED BY <3>1, <3>2, <3>3
  <2> QED BY <1>1, <1>3, <2>2, <2>3 DEF TimedOut
<1>9. CASE Stored(q) /\ ~MovedOn(q)
  <2>1. CASE entries'[k] = entries[k]
    BY <1>1, <1>3, <1>9, <2>1 DEF Stored
  <2>2. CASE entries'[k] # entries[k]
    <3>1. entries[k].expires_at <= clock /\ entries'[k] = None
      BY <1>1, <1>2, <1>3, <1>9, <2>2 DEF GoesOn
    <3>2. entries[k] # None /\ entries[k].expires_at >= op[q].now + Ttl
      BY <1>9 DEF Stored
    <3>3. clock >= op[q].now + Ttl
      BY <1>6, <3>1, <3>2
    <3>4. clock' >= op'[q].now + Ttl
      BY <1>1, <1>6, <3>3
    <3>5. ASSUME NEW p \in Requests, MapKey(p)' = k, rpc'[p] = "bind"
          PROVE  op'[p].now >= op[q].now + Ttl
      <4>1. /\ ctx[p] # None
            /\ (rpc'[p] = rpc[p] /\ op'[p].now = op[p].now) \/ op'[p].now = clock
        BY <3>5 DEF GoesOn
      <4>2. rpc[p] # "bind"
        BY <1>4, <3>2, <3>5, <4>1 DEF SessionInv, MissInv
      <4> QED BY <3>3, <3>5, <4>1, <4>2
    <3>6. TimedOut(q)'
      BY <1>1, <1>3, <3>1, <3>4, <3>5 DEF TimedOut
    <3> QED BY <3>6
  <2> QED BY <2>1, <2>2
<1>10. Stored(q) \/ TimedOut(q) \/ MovedOn(q)
  BY <1>1, <1>5 DEF SessionInv, RememberedInv
<1> QED BY <1>7, <1>8, <1>9, <1>10

\* And the backends of the settled requests.
LEMMA AgreeKept ==
  ASSUME RequestsInv, SessionInv, GoesOn
  PROVE  AgreeInv'
<1> SUFFICES ASSUME NEW r \in Requests, NEW q \in Requests
             PROVE  Agree(r, q)'
  BY DEF AgreeInv
<1> SUFFICES ASSUME Settled(r)', Settled(q)', NoFailure(MapKey(r))'
             PROVE  Agree(r, q)'
  BY DEF Agree
<1>1. /\ Settled(r) /\ peer'[r] = peer[r] /\ op'[r].now = op[r].now
      /\ Settled(q) /\ peer'[q] = peer[q] /\ op'[q].now = op[q].now
  BY DEF GoesOn
<1>2. ctx'[r] = ctx[r] /\ ctx'[q] = ctx[q] /\ MapKey(r) \in AffinityKeys
  BY <1>1, SettledKey DEF Settled, GoesOn
<1>3. MapKey(r)' = MapKey(r) /\ MapKey(q)' = MapKey(q)
  BY <1>2 DEF MapKey
<1>4. NoFailure(MapKey(r))
  BY <1>2, <1>3 DEF GoesOn
<1>5. Agree(r, q)
  BY DEF SessionInv, AgreeInv
<1> QED BY <1>1, <1>2, <1>3, <1>4, <1>5 DEF Agree

\* And that a request binds only where there is no entry.
LEMMA MissKept ==
  ASSUME RequestsInv, SessionInv, GoesOn
  PROVE  MissInv'
<1> SUFFICES ASSUME NEW p \in Requests, rpc'[p] \in {"select", "bind"}
             PROVE  entries'[MapKey(p)'] = None
  BY DEF MissInv
<1>1. ctx[p] # None /\ (rpc[p] \in {"select", "bind"} \/ entries'[MapKey(p)] = None)
  BY DEF GoesOn
<1>2. MapKey(p)' = MapKey(p)
  BY <1>1 DEF GoesOn, MapKey
<1>3. CASE rpc[p] \in {"select", "bind"}
  <2>1. MapKey(p) \in AffinityKeys
    BY <1>1, <1>3, MapKeyType DEF RequestsInv, FlowInv, FlowOK
  <2>2. entries[MapKey(p)] = None
    BY <1>3 DEF SessionInv, MissInv
  <2> QED BY <1>2, <2>1, <2>2 DEF GoesOn
<1> QED BY <1>1, <1>2, <1>3

\* And the order of the session's requests.
LEMMA SerialKept ==
  ASSUME RequestsInv, RequestsInv', SessionInv, GoesOn, UNCHANGED ctx
  PROVE  SerialInv'
<1> SUFFICES ASSUME NEW p \in Requests, NEW q \in Requests,
                    p # q, SameSession(p, q), rpc'[p] # "done"
             PROVE  /\ rpc'[q] = "done"
                    /\ ctx[q].version <= ctx[p].version
                    /\ rpc'[p] = "lookup" => op'[q].now <= op'[p].now
  BY DEF SerialInv, SameSession, IsSticky
<1>1. rpc[p] # "done"
  BY DEF GoesOn
<1>2. /\ rpc[q] = "done" /\ ctx[q].version <= ctx[p].version
      /\ rpc[p] = "lookup" => op[q].now <= op[p].now
  BY <1>1 DEF SessionInv, SerialInv
<1>3. rpc'[q] = "done" /\ op'[q].now = op[q].now
  BY <1>2 DEF GoesOn
<1>4. op[q].now <= clock
  BY DEF SessionInv, OperationInv, OperationOK
<1>5. rpc'[p] = "lookup" => (rpc[p] = "lookup" /\ op'[p].now = op[p].now) \/ op'[p].now = clock
  BY DEF GoesOn
<1> QED BY <1>2, <1>3, <1>4, <1>5

\* A step that settles no request and reads no configuration keeps it all.
LEMMA GoesOnInv ==
  ASSUME RequestsInv, RequestsInv', SessionInv, GoesOn, OperationInv',
         UNCHANGED <<ctx, config, updates>>
  PROVE  SessionInv'
<1>1. VersionInv'
  BY DEF SessionInv, VersionInv
<1> QED BY <1>1, RememberedKept, AgreeKept, MissKept, SerialKept DEF SessionInv

\* Failures that are not new leave the sessions that had none as they were.
LEMMA NoNewFailure ==
  ASSUME failures' = failures, ctx' = ctx, NEW k
  PROVE  NoFailure(k)' => NoFailure(k)
BY DEF NoFailure, MapKey

\* What is true of a request's operation does not change while it waits.
LEMMA OperationFrame ==
  ASSUME NEW p, OperationOK(p), clock' >= clock, clock \in Nat, clock' \in Nat, op[p].now \in Nat,
         op'[p].now = op[p].now, op'[p].key = op[p].key, rpc'[p] = rpc[p],
         ctx'[p] = ctx[p], peer'[p] = peer[p], answer'[p] = answer[p]
  PROVE  OperationOK(p)'
<1>1. op'[p].now <= clock'
  BY DEF OperationOK
<1> QED BY <1>1 DEF OperationOK, MapKey

\* Requests that leave the store alone and settle nobody.
LEMMA QuietSessions ==
  ASSUME RequestsInv, RequestsInv', SessionInv, NEW r \in Requests,
         UNCHANGED <<stickyVars, ctx, config, updates, failures>>,
         rpc[r] # "done", rpc'[r] \in {"peer", "connect", "done"},
         Settled(r)' => Settled(r) /\ peer'[r] = peer[r],
         answer'[r] = 200 => ctx[r] # None /\ peer'[r] \in ctx[r].pool,
         \A q \in Requests \ {r} : rpc'[q] = rpc[q] /\ peer'[q] = peer[q] /\ answer'[q] = answer[q]
  PROVE  SessionInv'
<1>1. clock \in Nat /\ clock' = clock /\ op' = op /\ entries' = entries
  BY DEF RequestsInv, StickyInv, StickyTypeOK, stickyVars
<1>2. OperationInv'
  <2> SUFFICES ASSUME NEW p \in Requests PROVE OperationOK(p)'
    BY DEF OperationInv
  <2>1. OperationOK(p) /\ op[p].now \in Nat
    BY DEF SessionInv, OperationInv, RequestsInv, StickyInv, StickyTypeOK, Operation
  <2>2. CASE p = r
    BY <1>1, <2>1, <2>2 DEF OperationOK
  <2>3. CASE p # r
    BY <1>1, <2>1, <2>3, OperationFrame
  <2> QED BY <2>2, <2>3
<1>3. \A q \in Requests : Settled(q)' => Settled(q) /\ peer'[q] = peer[q]
  <2> SUFFICES ASSUME NEW q \in Requests, Settled(q)' PROVE Settled(q) /\ peer'[q] = peer[q]
    OBVIOUS
  <2>1. CASE q # r
    BY <2>1 DEF Settled, IsSticky
  <2> QED BY <2>1
<1>4. GoesOn
  <2>1. \A p \in Requests : rpc[p] = "done" => rpc'[p] = "done"
    OBVIOUS
  <2>2. \A p \in Requests : rpc'[p] \in {"lookup", "select", "bind"} => rpc'[p] = rpc[p] /\ ctx[p] # None
    BY DEF RequestsInv, RequestsTypeOK
  <2>3. \A k \in AffinityKeys : NoFailure(k)' => NoFailure(k)
    BY NoNewFailure
  <2> QED BY <1>1, <1>3, <2>1, <2>2, <2>3 DEF GoesOn
<1> QED BY <1>2, <1>4, GoesOnInv

\* A request that ends without an answer of its backend settles nothing.
LEMMA AnswerSettlesNone ==
  ASSUME RequestsInv, NEW r \in Requests, NEW status \in Answers \ {200}, Answer(r, status)
  PROVE  /\ rpc'[r] = "done" /\ answer'[r] # 200 /\ ~Settled(r)'
         /\ \A q \in Requests \ {r} : rpc'[q] = rpc[q] /\ answer'[q] = answer[q]
BY AnswerType DEF RequestsInv, Settled

\* Nor does one that request_filter panics on.
LEMMA AbortsSessions ==
  ASSUME RequestsInv, RequestsInv', SessionInv, NEW r \in Requests, RequestAborts(r)
  PROVE  SessionInv'
<1>1. /\ rpc[r] = "new" /\ rpc'[r] = "done" /\ answer'[r] # 200
      /\ \A q \in Requests \ {r} : rpc'[q] = rpc[q]
      /\ UNCHANGED <<stickyVars, routerVars, ctx, peer, failures, answer>>
  BY RouterAssumption DEF RequestAborts, Arrives, RequestsInv, RequestsTypeOK, FlowInv, FlowOK, Answers
<1>2. ~Settled(r)'
  BY <1>1 DEF Settled
<1> QED BY <1>1, <1>2, QuietSessions DEF routerVars

\* The requests that request_filter answers itself have no session.
LEMMA RefusedSessions ==
  ASSUME RequestsInv, RequestsInv', SessionInv, NEW r \in Requests, RequestRefused(r)
  PROVE  SessionInv'
<1>1. PICK status \in Answers \ {200} : Answer(r, status)
  BY RouterAssumption DEF RequestRefused, Arrives, Answers, fail_to_proxy
<1>2. rpc[r] # "done"
  BY DEF RequestRefused, Arrives
<1> QED BY <1>1, <1>2, AnswerSettlesNone, QuietSessions DEF RequestRefused, routerVars

\* A request without a healthy backend ends unsettled.
LEMMA NoHealthyPeerSessions ==
  ASSUME RequestsInv, RequestsInv', SessionInv, NEW r \in Requests, NoHealthyPeer(r)
  PROVE  SessionInv'
<1>1. Answer(r, 503) /\ 503 \in Answers \ {200}
  BY DEF NoHealthyPeer, fail_to_proxy, Answers
<1>2. rpc[r] # "done"
  BY DEF NoHealthyPeer
<1> QED BY <1>1, <1>2, AnswerSettlesNone, QuietSessions DEF NoHealthyPeer, routerVars

\* A broken exchange takes its request's backend away, and nothing else.
LEMMA ExchangeFailsSessions ==
  ASSUME RequestsInv, RequestsInv', SessionInv, NEW r \in Requests, ExchangeFails(r)
  PROVE  SessionInv'
<1>1. rpc[r] = "connect" /\ answer[r] = None /\ None # 200
  BY RouterAssumption DEF ExchangeFails, RequestsInv, FlowInv, FlowOK, Answers
<1>2. CASE rpc' = [rpc EXCEPT ![r] = "peer"] /\ UNCHANGED answer
  <2>1. /\ rpc'[r] = "peer" /\ answer'[r] # 200 /\ ~Settled(r)'
        /\ \A q \in Requests \ {r} : rpc'[q] = rpc[q] /\ answer'[q] = answer[q]
    BY <1>1, <1>2 DEF RequestsInv, RequestsTypeOK, Settled
  <2> QED BY <1>1, <2>1, QuietSessions DEF ExchangeFails, routerVars
<1>3. CASE \E error \in ErrorStatuses \cup {None} : Answer(r, fail_to_proxy(None, error))
  <2>1. PICK status \in Answers \ {200} : Answer(r, status)
    BY <1>3, UnhintedStatus
  <2> QED BY <1>1, <2>1, AnswerSettlesNone, QuietSessions DEF ExchangeFails, routerVars
<1> QED BY <1>2, <1>3 DEF ExchangeFails

\* A served request was settled before.
LEMMA ServedSessions ==
  ASSUME RequestsInv, RequestsInv', SessionInv, NEW r \in Requests, Served(r)
  PROVE  SessionInv'
<1>1. rpc[r] = "connect" /\ ctx[r] # None /\ peer[r] \in ctx[r].pool
  BY DEF Served, RequestsInv, RequestsTypeOK, FlowInv, FlowOK
<1>2. Answer(r, 200) /\ 200 \in Answers
  BY DEF Served, Answers
<1>3. /\ rpc'[r] = "done"
      /\ \A q \in Requests \ {r} : rpc'[q] = rpc[q] /\ answer'[q] = answer[q]
  BY <1>2, AnswerType DEF RequestsInv
<1>4. Settled(r)' => Settled(r)
  BY <1>1 DEF Served, Settled, IsSticky
<1> QED BY <1>1, <1>3, <1>4, QuietSessions DEF Served, routerVars

\* A request without a session is never settled.
LEMMA PlainSessions ==
  ASSUME RequestsInv, RequestsInv', SessionInv, NEW r \in Requests, PeerPlain(r)
  PROVE  SessionInv'
<1>1. /\ rpc[r] = "peer" /\ answer[r] = None /\ None # 200 /\ ~IsSticky(r) /\ ctx' = ctx
      /\ answer' = answer
  BY RouterAssumption DEF PeerPlain, RequestsInv, FlowInv, FlowOK, Answers
<1>2. ~Settled(r)'
  BY <1>1 DEF Settled, IsSticky
<1>3. rpc'[r] = "connect" /\ \A q \in Requests \ {r} : rpc'[q] = rpc[q] /\ peer'[q] = peer[q]
  BY DEF PeerPlain, RequestsInv, RequestsTypeOK
<1> QED BY <1>1, <1>2, <1>3, QuietSessions DEF PeerPlain, routerVars

\* The types the steps on the store need.
LEMMA StoreTypes ==
  ASSUME RequestsInv
  PROVE  /\ clock \in Nat /\ Ttl \in Nat \ {0}
         /\ \A p \in Requests : op[p].now \in Nat
         /\ \A k \in AffinityKeys : entries[k] # None => entries[k].expires_at \in Nat
BY StickyAssumption DEF RequestsInv, StickyInv, StickyTypeOK, Operation, AffinityEntry

\* An unsettled request: one that is still on its way to a backend.
LEMMA NotSettledYet ==
  ASSUME RequestsInv, NEW r \in Requests, rpc[r] \notin {"connect", "done"}
  PROVE  ~Settled(r)
BY RouterAssumption DEF RequestsInv, FlowInv, FlowOK, Settled, Answers

\* Time and the steps outside the model keep the sessions' invariant.
LEMMA TimeSessions ==
  ASSUME RequestsInv, RequestsInv', SessionInv, clock' >= clock,
         UNCHANGED <<entries, op, routerVars, requestVars>>
  PROVE  SessionInv'
<1> USE DEF requestVars, routerVars
<1>1. OperationInv'
  BY OperationFrame, StoreTypes DEF OperationInv, SessionInv, RequestsInv, StickyInv, StickyTypeOK
<1>2. \A k \in AffinityKeys : NoFailure(k)' => NoFailure(k)
  BY NoNewFailure
<1>3. \A q \in Requests : Settled(q)' => Settled(q)
  BY DEF Settled, IsSticky
<1>4. GoesOn
  BY <1>2, <1>3 DEF GoesOn, RequestsInv, RequestsTypeOK
<1> QED BY <1>1, <1>4, GoesOnInv

\* An update makes a version that no request has seen.
LEMMA UpdateSessions ==
  ASSUME RequestsInv, RequestsInv', SessionInv,
         NEW app \in Applications, NEW pools \in PoolChoices, update(app, pools)
  PROVE  SessionInv'
<1> USE DEF update, requestVars, stickyVars
<1>1. OperationInv'
  BY OperationFrame, StoreTypes DEF OperationInv, SessionInv
<1>2. \A k \in AffinityKeys : NoFailure(k)' => NoFailure(k)
  BY NoNewFailure
<1>3. \A q \in Requests : Settled(q)' => Settled(q)
  BY DEF Settled, IsSticky
<1>4. GoesOn
  BY <1>2, <1>3, StoreTypes DEF GoesOn, RequestsInv, RequestsTypeOK
<1>5. VersionInv'
  <2>1. updates \in Nat /\ updates' = updates + 1 /\ ctx' = ctx
    BY RouterAssumption DEF RequestsInv, RequestsTypeOK
  <2>2. \A p \in Requests : ctx[p] # None => ctx[p].version \in Nat
    BY DEF RequestsInv, RequestsTypeOK, RouterCtx
  <2>3. \A p \in Requests : ctx[p] # None => ctx[p].version <= updates
    BY DEF SessionInv, VersionInv
  <2>4. \A p \in Requests : ctx[p] # None => ctx[p].version < updates'
    BY <2>1, <2>2, <2>3
  <2> QED BY <2>1, <2>2, <2>4 DEF SessionInv, VersionInv
<1> QED BY <1>1, <1>4, <1>5, RememberedKept, AgreeKept, MissKept, SerialKept DEF SessionInv

\* A lookup that begins reads the clock, which no operation is ahead of.
LEMMA LooksUpSessions ==
  ASSUME RequestsInv, RequestsInv', SessionInv, NEW r \in Requests, PeerLooksUp(r)
  PROVE  SessionInv'
<1>1. /\ rpc[r] = "peer" /\ rpc'[r] = "lookup" /\ op'[r].now = clock /\ op'[r].key = MapKey(r)
      /\ \A q \in Requests \ {r} : rpc'[q] = rpc[q] /\ op'[q] = op[q]
      /\ UNCHANGED <<clock, entries, config, updates, ctx, peer, failures, answer>>
  BY DEF PeerLooksUp, LookupBegins, RequestsInv, RequestsTypeOK, StickyInv, StickyTypeOK, routerVars
<1>2. ctx[r] # None /\ answer[r] # 200
  BY <1>1, RouterAssumption DEF RequestsInv, RequestsTypeOK, FlowInv, FlowOK, Answers
<1>3. OperationInv'
  <2> SUFFICES ASSUME NEW p \in Requests PROVE OperationOK(p)'
    BY DEF OperationInv
  <2>1. CASE p = r
    BY <1>1, <1>2, <2>1, StoreTypes DEF OperationOK, MapKey
  <2>2. CASE p # r
    BY <1>1, <2>2, OperationFrame, StoreTypes DEF SessionInv, OperationInv
  <2> QED BY <2>1, <2>2
<1>4. \A q \in Requests : Settled(q)' => Settled(q) /\ q # r
  BY <1>1, <1>2 DEF Settled, IsSticky
<1>5. \A k \in AffinityKeys : NoFailure(k)' => NoFailure(k)
  BY <1>1, NoNewFailure
<1>6. \A p \in Requests : rpc'[p] \in {"lookup", "select", "bind"} => ctx[p] # None
  BY <1>1, <1>2 DEF RequestsInv, RequestsTypeOK
<1>7. GoesOn
  BY <1>1, <1>4, <1>5, <1>6, StoreTypes DEF GoesOn
<1> QED BY <1>1, <1>3, <1>7, GoesOnInv

\* So does a bind that begins.
LEMMA SelectsSessions ==
  ASSUME RequestsInv, RequestsInv', SessionInv, NEW r \in Requests, PeerSelects(r)
  PROVE  SessionInv'
<1>1. /\ rpc[r] = "select" /\ rpc'[r] = "bind" /\ op'[r].now = clock /\ op'[r].key = MapKey(r)
      /\ \A q \in Requests \ {r} : rpc'[q] = rpc[q] /\ op'[q] = op[q] /\ peer'[q] = peer[q]
      /\ UNCHANGED <<clock, entries, config, updates, ctx, failures, answer>>
  BY DEF PeerSelects, BindBegins, RequestsInv, RequestsTypeOK, StickyInv, StickyTypeOK, routerVars
<1>2. ctx[r] # None /\ answer[r] # 200
  BY <1>1, RouterAssumption DEF RequestsInv, RequestsTypeOK, FlowInv, FlowOK, Answers
<1>3. OperationInv'
  <2> SUFFICES ASSUME NEW p \in Requests PROVE OperationOK(p)'
    BY DEF OperationInv
  <2>1. CASE p = r
    BY <1>1, <1>2, <2>1, StoreTypes DEF OperationOK, MapKey
  <2>2. CASE p # r
    BY <1>1, <2>2, OperationFrame, StoreTypes DEF SessionInv, OperationInv
  <2> QED BY <2>1, <2>2
<1>4. \A q \in Requests : Settled(q)' => Settled(q) /\ q # r
  BY <1>1, <1>2 DEF Settled, IsSticky
<1>5. \A k \in AffinityKeys : NoFailure(k)' => NoFailure(k)
  BY <1>1, NoNewFailure
<1>6. \A p \in Requests : rpc'[p] \in {"lookup", "select", "bind"} => ctx[p] # None
  BY <1>1, <1>2 DEF RequestsInv, RequestsTypeOK
<1>7. GoesOn
  BY <1>1, <1>4, <1>5, <1>6, StoreTypes DEF GoesOn
<1> QED BY <1>1, <1>3, <1>7, GoesOnInv

\* A sweep of a store that is large enough drops expired entries only.
LEMMA SweepSessions ==
  ASSUME RequestsInv, RequestsInv', SessionInv, NEW r \in Requests, SweepStep(r),
         IsFiniteSet(AffinityKeys), Cardinality(AffinityKeys) <= max_entries
  PROVE  SessionInv'
<1>1. /\ \A q \in Requests : op'[q].now = op[q].now /\ op'[q].key = op[q].key
      /\ clock' = clock /\ UNCHANGED <<routerVars, requestVars>>
  BY DEF SweepStep, SweepLocks, Sweep, Proceed, RequestsInv, StickyInv, StickyTypeOK
<1>2. \A k \in AffinityKeys :
        entries'[k] = entries[k] \/ (entries'[k] = None /\ entries[k].expires_at <= clock)
  <2>1. CASE SweepLocks(r)
    BY <2>1 DEF SweepLocks
  <2>2. CASE Sweep(r)
    <3> DEFINE fresh == {k \in Bound : entries[k].expires_at > op[r].now}
    <3>1. PICK kept \in Survivors(op[r].now) :
            entries' = [k \in AffinityKeys |-> IF k \in kept THEN entries[k] ELSE None]
      BY <2>2 DEF Sweep
    <3>2. /\ kept \in SUBSET fresh /\ Cardinality(kept) <= max_entries
          /\ kept = fresh \/ Cardinality(kept) = max_entries
      BY DEF Survivors
    <3>3. fresh \in SUBSET AffinityKeys
      BY DEF Bound
    <3> HIDE DEF fresh
    <3>4. IsFiniteSet(fresh) /\ Cardinality(fresh) <= Cardinality(AffinityKeys)
      BY <3>3, FS_Subset
    <3>5. IsFiniteSet(kept) /\ Cardinality(kept) <= Cardinality(fresh)
          /\ (Cardinality(fresh) = Cardinality(kept) => fresh = kept)
      BY <3>2, <3>4, FS_Subset
    <3>6. Cardinality(kept) \in Nat /\ Cardinality(fresh) \in Nat /\ Cardinality(AffinityKeys) \in Nat
      BY <3>4, <3>5, FS_CardinalityType
    <3>7. kept = fresh
      BY <3>2, <3>4, <3>5, <3>6, StickyAssumption
    <3>8. op[r].now <= clock
      BY DEF SessionInv, OperationInv, OperationOK
    <3> SUFFICES ASSUME NEW k \in AffinityKeys, entries'[k] # entries[k]
                 PROVE  entries'[k] = None /\ entries[k].expires_at <= clock
      OBVIOUS
    <3>9. entries'[k] = None /\ k \notin fresh /\ entries[k] # None
      BY <3>1, <3>7
    <3> QED BY <3>8, <3>9, StoreTypes DEF fresh, Bound
  <2> QED BY <2>1, <2>2 DEF SweepStep
<1> USE DEF requestVars, routerVars
<1>3. OperationInv'
  BY <1>1, OperationFrame, StoreTypes DEF OperationInv, SessionInv
<1>4. \A k \in AffinityKeys : NoFailure(k)' => NoFailure(k)
  BY <1>1, NoNewFailure
<1>5. \A q \in Requests : Settled(q)' <=> Settled(q)
  BY <1>1 DEF Settled, IsSticky
<1>6. \A q \in Requests : Settled(q) =>
        entries'[MapKey(q)] = entries[MapKey(q)] \/ entries[MapKey(q)].expires_at <= clock
  BY <1>2, SettledKey
<1>7. GoesOn
  BY <1>1, <1>2, <1>4, <1>5, <1>6, StoreTypes DEF GoesOn, RequestsInv, RequestsTypeOK
<1> QED BY <1>1, <1>3, <1>7, GoesOnInv

\* A connection that fails drops the entry of its own session, which from
\* then on has a failure.
LEMMA FailToConnectSessions ==
  ASSUME RequestsInv, RequestsInv', SessionInv, NEW r \in Requests, FailToConnect(r)
  PROVE  SessionInv'
<1>1. /\ rpc[r] = "connect" /\ rpc'[r] \in {"peer", "done"} /\ answer'[r] # 200
      /\ \A q \in Requests \ {r} : rpc'[q] = rpc[q] /\ answer'[q] = answer[q]
  <2>1. rpc[r] = "connect" /\ answer[r] = None /\ None # 200
    BY RouterAssumption DEF FailToConnect, RequestsInv, FlowInv, FlowOK, Answers
  <2>2. fail_to_proxy(None, None) = 500
    BY UnhintedStatus
  <2> QED BY <2>1, <2>2 DEF FailToConnect, Answer, RequestsInv, RequestsTypeOK
<1>2. /\ failures'[r] = failures[r] + 1
      /\ \A q \in Requests \ {r} : failures'[q] = failures[q]
      /\ failures \in [Requests -> Nat]
      /\ UNCHANGED <<clock, op, config, updates, ctx, peer>>
  BY DEF FailToConnect, remove, stickyVars, routerVars, RequestsInv, RequestsTypeOK
<1>3. ctx[r] # None
  BY <1>1 DEF RequestsInv, RequestsTypeOK
<1>4. \A k \in AffinityKeys : entries'[k] = entries[k] \/ (entries'[k] = None /\ k = MapKey(r))
  BY DEF FailToConnect, remove, stickyVars, RequestsInv, StickyInv, StickyTypeOK
<1>5. \A k \in AffinityKeys : NoFailure(k)' => NoFailure(k) /\ k # MapKey(r)
  <2>1. \A p \in Requests : MapKey(p)' = MapKey(p)
    BY <1>2 DEF MapKey
  <2>2. failures'[r] > 0 /\ \A p \in Requests : failures[p] > 0 => failures'[p] > 0
    BY <1>2
  <2> QED BY <2>1, <2>2 DEF NoFailure
<1>6. OperationInv'
  <2> SUFFICES ASSUME NEW p \in Requests PROVE OperationOK(p)'
    BY DEF OperationInv
  <2>1. OperationOK(p)
    BY DEF SessionInv, OperationInv
  <2>2. CASE p = r
    BY <1>1, <1>2, <2>1, <2>2 DEF OperationOK
  <2>3. CASE p # r
    BY <1>1, <1>2, <2>1, <2>3, OperationFrame, StoreTypes
  <2> QED BY <2>2, <2>3
<1>7. \A q \in Requests : Settled(q)' => Settled(q)
  BY <1>1, <1>2 DEF Settled, IsSticky
<1>8. \A q \in Requests : Settled(q) /\ NoFailure(MapKey(q))' => entries'[MapKey(q)] = entries[MapKey(q)]
  <2>1. \A q \in Requests : MapKey(q)' = MapKey(q)
    BY <1>2 DEF MapKey
  <2> QED BY <1>4, <1>5, <2>1, SettledKey
<1>9. \A p \in Requests : rpc'[p] \in {"lookup", "select", "bind"} => rpc'[p] = rpc[p] /\ ctx[p] # None
  BY <1>1 DEF RequestsInv, RequestsTypeOK
<1>10. \A p \in Requests : rpc[p] = "done" => rpc'[p] = "done"
  BY <1>1
<1>11. GoesOn
  BY <1>2, <1>4, <1>5, <1>7, <1>8, <1>9, <1>10, StoreTypes DEF GoesOn
<1> QED BY <1>2, <1>6, <1>11, GoesOnInv

\* A request that arrives is alone in its session, and has seen the latest
\* configuration: here the client's discipline is used.
LEMMA FilterSessions ==
  ASSUME RequestsInv, RequestsInv', SessionInv, SerialSessions,
         NEW r \in Requests, RequestFilter(r)
  PROVE  SessionInv'
<1>1. PICK in \in RequestInputs :
         /\ Arrives(r, in)
         /\ \E app, transport :
              ctx' = [ctx EXCEPT ![r] =
                [app |-> app, transport |-> transport, pool |-> config[app][transport],
                 version |-> updates,
                 affinity_key |-> IF sticky THEN AffinityKey(r, in) ELSE None]]
  BY DEF RequestFilter
<1>2. /\ rpc[r] = "new" /\ rpc'[r] = "peer" /\ ctx[r] = None /\ failures[r] = 0 /\ answer[r] # 200
      /\ \A q \in Requests \ {r} : rpc'[q] = rpc[q] /\ ctx'[q] = ctx[q]
      /\ UNCHANGED <<clock, entries, op, config, updates, peer, failures, answer>>
  <2>1. rpc[r] = "new"
    BY <1>1 DEF Arrives
  <2>2. ctx[r] = None
    BY <2>1 DEF SessionInv, OperationInv, OperationOK
  <2>3. failures[r] = 0 /\ answer[r] # 200
    BY <2>1, RouterAssumption DEF RequestsInv, FlowInv, FlowOK, Answers
  <2> QED BY <1>1, <2>1, <2>2, <2>3 DEF RequestFilter, RequestsInv, RequestsTypeOK, stickyVars,
             routerVars
<1>3. /\ ctx'[r] # None /\ ctx'[r].version = updates
      /\ ctx'[r].pool = config[ctx'[r].app][ctx'[r].transport]
      /\ ctx'[r].affinity_key # None => ctx'[r].affinity_key = AffinityKey(r, in)
  <2>1. ctx'[r] # None
    BY <1>2 DEF RequestsInv, RequestsTypeOK
  <2> QED BY <1>1, <2>1 DEF RequestsInv, RequestsTypeOK
<1>4. updates \in Nat /\ \A p \in Requests : ctx[p] # None => ctx[p].version \in Nat /\ ctx[p].version <= updates
  BY RouterAssumption DEF RequestsInv, RequestsTypeOK, RouterCtx, SessionInv, VersionInv
<1>5. OperationInv'
  <2> SUFFICES ASSUME NEW p \in Requests PROVE OperationOK(p)'
    BY DEF OperationInv
  <2>1. OperationOK(p)
    BY DEF SessionInv, OperationInv
  <2>2. CASE p = r
    BY <1>2, <2>1, <2>2 DEF OperationOK
  <2>3. CASE p # r
    BY <1>2, <2>1, <2>3, OperationFrame, StoreTypes
  <2> QED BY <2>2, <2>3
<1>6. GoesOn
  <2>1. \A k \in AffinityKeys : NoFailure(k)' => NoFailure(k)
    <3>1. \A p \in Requests \ {r} : MapKey(p)' = MapKey(p)
      BY <1>2 DEF MapKey
    <3> QED BY <1>2, <3>1 DEF NoFailure
  <2>2. \A q \in Requests : Settled(q)' => Settled(q)
    BY <1>2 DEF Settled, IsSticky
  <2>3. \A p \in Requests : rpc'[p] \in {"lookup", "select", "bind"} => rpc'[p] = rpc[p] /\ ctx[p] # None
    BY <1>2 DEF RequestsInv, RequestsTypeOK
  <2>4. \A p \in Requests : rpc[p] = "done" => rpc'[p] = "done"
    BY <1>2
  <2> QED BY <1>2, <2>1, <2>2, <2>3, <2>4, StoreTypes DEF GoesOn
<1>7. VersionInv'
  <2> SUFFICES ASSUME NEW p \in Requests, ctx'[p] # None
               PROVE  /\ ctx'[p].version <= updates
                      /\ ctx'[p].version = updates =>
                           ctx'[p].pool = config[ctx'[p].app][ctx'[p].transport]
                      /\ \A q \in Requests :
                           /\ ctx'[q] # None /\ ctx'[p].app = ctx'[q].app
                           /\ ctx'[p].transport = ctx'[q].transport
                           /\ ctx'[p].version = ctx'[q].version
                           => ctx'[p].pool = ctx'[q].pool
    BY <1>2 DEF VersionInv
  <2>1. \A q \in Requests : ctx'[q] # None =>
          /\ ctx'[q].version <= updates
          /\ ctx'[q].version = updates => ctx'[q].pool = config[ctx'[q].app][ctx'[q].transport]
    BY <1>2, <1>3, <1>4 DEF SessionInv, VersionInv
  <2>2. ASSUME NEW q \in Requests, ctx'[q] # None, ctx'[p].app = ctx'[q].app,
               ctx'[p].transport = ctx'[q].transport, ctx'[p].version = ctx'[q].version
        PROVE  ctx'[p].pool = ctx'[q].pool
    <3>1. CASE p = r \/ q = r
      BY <1>3, <2>1, <2>2, <3>1
    <3>2. CASE p # r /\ q # r
      BY <1>2, <2>2, <3>2 DEF SessionInv, VersionInv
    <3> QED BY <3>1, <3>2
  <2> QED BY <2>1, <2>2
<1>8. SerialInv'
  <2> SUFFICES ASSUME NEW p \in Requests, NEW q \in Requests,
                      p # q, SameSession(p, q)', rpc'[p] # "done"
               PROVE  /\ rpc'[q] = "done"
                      /\ ctx'[q].version <= ctx'[p].version
                      /\ rpc'[p] = "lookup" => op'[q].now <= op'[p].now
    BY DEF SerialInv
  <2>1. ctx'[p] # None /\ ctx'[q] # None /\ ctx'[p].affinity_key = ctx'[q].affinity_key
        /\ ctx'[p].affinity_key # None
    BY DEF SameSession, IsSticky
  <2>2. \A n \in Requests :
          n # r /\ ctx[n] # None /\ ctx[n].affinity_key = AffinityKey(r, in) => rpc[n] = "done"
    BY <1>1 DEF Arrives
  <2>3. CASE p = r
    BY <1>2, <1>3, <1>4, <2>1, <2>2, <2>3
  <2>4. CASE q = r
    BY <1>2, <1>3, <2>1, <2>2, <2>4
  <2>5. CASE p # r /\ q # r
    <3>1. SameSession(p, q)
      BY <1>2, <2>1, <2>5 DEF SameSession, IsSticky
    <3> QED BY <1>2, <2>5, <3>1 DEF SessionInv, SerialInv
  <2> QED BY <2>3, <2>4, <2>5
<1> QED BY <1>5, <1>6, <1>7, <1>8, RememberedKept, AgreeKept, MissKept DEF SessionInv

\* A lookup that finds no backend drops its entry only when the entry has
\* expired or the session's configuration is not the one it was made in.
LEMMA MissedSessions ==
  ASSUME RequestsInv, RequestsInv', SessionInv, NEW r \in Requests, PeerMapped(r),
         Mapped(r, ctx[r].pool) = None
  PROVE  SessionInv'
<1> DEFINE k == MapKey(r)
<1>1. /\ rpc[r] = "lookup" /\ rpc'[r] = "select" /\ op[r].key = k
      /\ \A q \in Requests \ {r} : rpc'[q] = rpc[q]
      /\ \A q \in Requests : op'[q].now = op[q].now /\ op'[q].key = op[q].key
      /\ peer' = peer
      /\ UNCHANGED <<clock, config, updates, ctx, failures, answer>>
  <2>1. rpc[r] = "lookup" /\ op[r].key = k
    BY DEF PeerMapped, SessionInv, OperationInv, OperationOK
  <2> QED BY <2>1 DEF PeerMapped, LookupEnds, Proceed, RequestsInv, RequestsTypeOK, StickyInv,
             StickyTypeOK, routerVars
<1>2. ctx[r] # None /\ IsSticky(r) /\ answer[r] # 200
  BY <1>1, RouterAssumption DEF RequestsInv, RequestsTypeOK, FlowInv, FlowOK, Answers
<1>3. k \in AffinityKeys
  BY <1>2, MapKeyType DEF RequestsInv
<1>4. entries'[k] = None /\ \A j \in AffinityKeys \ {k} : entries'[j] = entries[j]
  BY <1>1, <1>3 DEF PeerMapped, LookupEnds, RequestsInv, StickyInv, StickyTypeOK
<1>5. entries[k] = None \/ entries[k].expires_at <= op[r].now \/ entries[k].backend \notin ctx[r].pool
  <2>1. entries[k] # None => entries[k].backend # None
    BY <1>3, StickyAssumption DEF RequestsInv, StickyInv, StickyTypeOK, AffinityEntry
  <2> QED BY <1>1, <1>3, <2>1, StoreTypes DEF Mapped
<1>6. OperationInv'
  <2> SUFFICES ASSUME NEW p \in Requests PROVE OperationOK(p)'
    BY DEF OperationInv
  <2>1. OperationOK(p)
    BY DEF SessionInv, OperationInv
  <2>2. CASE p = r
    BY <1>1, <1>2, <2>1, <2>2 DEF OperationOK
  <2>3. CASE p # r
    BY <1>1, <2>1, <2>3, OperationFrame, StoreTypes
  <2> QED BY <2>2, <2>3
<1>7. ASSUME NEW q \in Requests, Settled(q), Stored(q)
      PROVE  \/ entries'[MapKey(q)] = entries[MapKey(q)]
             \/ entries[MapKey(q)].expires_at <= clock
             \/ MovedOn(q)
  <2>1. MapKey(q) \in AffinityKeys
    BY <1>7, SettledKey
  <2>2. CASE MapKey(q) # k
    BY <1>4, <2>1, <2>2
  <2>3. CASE MapKey(q) = k /\ entries[k].expires_at <= op[r].now
    <3>1. op[r].now <= clock /\ entries[k] # None
      BY <1>7, <2>3 DEF SessionInv, OperationInv, OperationOK, Stored
    <3> QED BY <1>3, <2>3, <3>1, StoreTypes
  <2>4. CASE MapKey(q) = k /\ entries[k].backend \notin ctx[r].pool
    <3>1. peer[q] \notin ctx[r].pool
      BY <1>7, <2>4 DEF Stored
    <3>2. peer[q] \in ctx[q].pool /\ ctx[q] # None
      BY <1>7 DEF Settled, SessionInv, OperationInv, OperationOK, RequestsInv, FlowInv, FlowOK
    <3>3. /\ ctx[q].app = ctx[r].app /\ ctx[q].transport = ctx[r].transport
          /\ ctx[q].affinity_key = ctx[r].affinity_key
      BY <2>4 DEF MapKey
    <3>4. q # r
      BY <1>1, <1>7, NotSettledYet
    <3>5. ctx[q].version <= ctx[r].version
      BY <1>1, <1>2, <3>2, <3>3, <3>4 DEF SessionInv, SerialInv, SameSession
    <3>6. ctx[q].version # ctx[r].version
      BY <1>2, <3>1, <3>2, <3>3 DEF SessionInv, VersionInv
    <3>7. ctx[q].version \in Nat /\ ctx[r].version \in Nat
      BY <1>2, <3>2 DEF RequestsInv, RequestsTypeOK, RouterCtx
    <3>8. ctx[r].version > ctx[q].version
      BY <3>5, <3>6, <3>7
    <3> QED BY <1>2, <2>4, <3>8 DEF MovedOn
  <2> QED BY <1>5, <1>7, <2>2, <2>3, <2>4 DEF Stored
<1>8. GoesOn
  <2>1. \A j \in AffinityKeys : NoFailure(j)' => NoFailure(j)
    BY <1>1, NoNewFailure
  <2>2. \A q \in Requests : Settled(q)' => Settled(q)
    BY <1>1, <1>2 DEF Settled, IsSticky
  <2>3. \A p \in Requests : rpc'[p] \in {"lookup", "bind"} => rpc'[p] = rpc[p] /\ ctx[p] # None
    BY <1>1 DEF RequestsInv, RequestsTypeOK
  <2>4. \A p \in Requests : rpc'[p] \in {"select", "bind"} =>
          ctx[p] # None /\ (rpc[p] \in {"select", "bind"} \/ entries'[MapKey(p)] = None)
    BY <1>1, <1>2, <1>4 DEF RequestsInv, RequestsTypeOK
  <2>5. \A j \in AffinityKeys : entries'[j] = entries[j] \/ entries'[j] = None
    BY <1>4
  <2>6. \A p \in Requests : rpc[p] = "done" => rpc'[p] = "done"
    BY <1>1
  <2> HIDE DEF k
  <2> QED BY <1>1, <1>7, <2>1, <2>2, <2>3, <2>4, <2>5, <2>6, StoreTypes DEF GoesOn
<1> QED BY <1>1, <1>6, <1>8, GoesOnInv

\* A request settles: the store holds its backend, with the time it read,
\* and that is the backend of every earlier request it must agree with.
LEMMA SettlesInv ==
  ASSUME RequestsInv, RequestsInv', SessionInv, NEW r \in Requests,
         rpc[r] \in {"lookup", "bind"}, rpc'[r] = "connect",
         entries' = [entries EXCEPT ![MapKey(r)] =
                       [backend |-> peer'[r], expires_at |-> op[r].now + Ttl]],
         \A q \in Requests \ {r} : rpc'[q] = rpc[q] /\ peer'[q] = peer[q],
         \A q \in Requests : op'[q].now = op[q].now /\ op'[q].key = op[q].key,
         UNCHANGED <<clock, config, updates, ctx, failures, answer>>,
         \A q \in Requests : Settled(q) /\ MapKey(q) = MapKey(r) /\ Stored(q) =>
           peer[q] = peer'[r] /\ op[q].now <= op[r].now,
         \A q \in Requests : Settled(q) /\ MapKey(q) = MapKey(r) /\ TimedOut(q) =>
           op[r].now >= op[q].now + Ttl
  PROVE  SessionInv'
<1> DEFINE k == MapKey(r)
           entry == [backend |-> peer'[r], expires_at |-> op[r].now + Ttl]
<1>1. ctx[r] # None /\ IsSticky(r) /\ answer[r] # 200 /\ ~Settled(r)
  BY RouterAssumption, NotSettledYet DEF RequestsInv, RequestsTypeOK, FlowInv, FlowOK, Answers
<1>2. k \in AffinityKeys
  BY <1>1, MapKeyType DEF RequestsInv
<1>3. entries'[k] = entry /\ \A j \in AffinityKeys \ {k} : entries'[j] = entries[j]
  BY <1>2 DEF RequestsInv, StickyInv, StickyTypeOK
<1>4. entry # None
  <2>1. entry \in AffinityEntry
    <3>1. peer'[r] \in ctx'[r].pool /\ ctx'[r] \in RouterCtx
      BY DEF RequestsInv, RequestsTypeOK, FlowInv, FlowOK
    <3>2. peer'[r] \in Backends
      BY <3>1 DEF RouterCtx
    <3>3. op[r].now + Ttl \in Nat
      BY StoreTypes
    <3> QED BY <3>2, <3>3 DEF AffinityEntry
  <2> QED BY <2>1, StickyAssumption DEF AffinityEntry
<1>5. \A p \in Requests : MapKey(p)' = MapKey(p)
  BY DEF MapKey
<1>6. \A j : NoFailure(j)' <=> NoFailure(j)
  BY <1>5 DEF NoFailure
<1>7. \A q \in Requests \ {r} : Settled(q)' <=> Settled(q)
  BY DEF Settled, IsSticky
<1>8. \A q \in Requests \ {r} : ctx[q] # None /\ MapKey(q) = k =>
        rpc[q] = "done" /\ ctx[q].version <= ctx[r].version
  <2>1. \A q \in Requests : ctx[q] # None /\ MapKey(q) = k => SameSession(r, q)
    BY <1>1 DEF MapKey, SameSession
  <2> QED BY <2>1 DEF SessionInv, SerialInv
<1>9. OperationInv'
  <2> SUFFICES ASSUME NEW p \in Requests PROVE OperationOK(p)'
    BY DEF OperationInv
  <2>1. OperationOK(p)
    BY DEF SessionInv, OperationInv
  <2>2. CASE p = r
    BY <1>1, <2>1, <2>2 DEF OperationOK
  <2>3. CASE p # r
    BY <2>1, <2>3, OperationFrame, StoreTypes
  <2> QED BY <2>2, <2>3
<1>10. SerialInv'
  BY DEF SessionInv, SerialInv, SameSession, IsSticky
<1>11. VersionInv'
  BY DEF SessionInv, VersionInv
<1>12. MissInv'
  <2> SUFFICES ASSUME NEW p \in Requests, rpc'[p] \in {"select", "bind"}
               PROVE  entries'[MapKey(p)] = None
    BY <1>5 DEF MissInv
  <2>1. p # r /\ rpc[p] \in {"select", "bind"} /\ ctx[p] # None
    BY DEF RequestsInv, RequestsTypeOK
  <2>2. MapKey(p) # k /\ MapKey(p) \in AffinityKeys
    BY <1>8, <2>1, MapKeyType DEF RequestsInv, FlowInv, FlowOK
  <2> QED BY <1>3, <2>1, <2>2 DEF SessionInv, MissInv
\* Why an earlier request of the session keeps its place: it is the same
\* backend, or too long ago, or of an older configuration.
<1>13. ASSUME NEW q \in Requests \ {r}, Settled(q), MapKey(q) = k, NoFailure(k)
       PROVE  \/ peer[q] = peer'[r] /\ op[q].now <= op[r].now
              \/ op[r].now >= op[q].now + Ttl
              \/ ctx[r].version > ctx[q].version
  <2>1. CASE MovedOn(q)
    <3>1. PICK p \in Requests : ctx[p] # None /\ MapKey(p) = k /\ ctx[p].version > ctx[q].version
      BY <1>13, <2>1 DEF MovedOn
    <3>2. ctx[p].version <= ctx[r].version \/ p = r
      BY <1>8, <3>1
    <3>3. ctx[p].version \in Nat /\ ctx[q].version \in Nat /\ ctx[r].version \in Nat
      BY <1>1, <1>13, <3>1 DEF RequestsInv, RequestsTypeOK, RouterCtx, Settled
    <3> QED BY <3>1, <3>2, <3>3
  <2>2. Stored(q) \/ TimedOut(q) \/ MovedOn(q)
    BY <1>13 DEF SessionInv, RememberedInv
  <2> QED BY <1>13, <2>1, <2>2
<1>14. RememberedInv'
  <2> SUFFICES ASSUME NEW q \in Requests, Settled(q)', NoFailure(MapKey(q))'
               PROVE  (Stored(q) \/ TimedOut(q) \/ MovedOn(q))'
    BY DEF RememberedInv
  <2>1. CASE q = r
    <3>1. Stored(r)'
      BY <1>3, <1>4, <1>5, StoreTypes DEF Stored
    <3> QED BY <2>1, <3>1
  <2>2. CASE q # r /\ MapKey(q) # k
    <3>1. Settled(q) /\ NoFailure(MapKey(q)) /\ MapKey(q) \in AffinityKeys
      BY <1>5, <1>6, <1>7, <2>2, SettledKey
    <3>2. entries'[MapKey(q)] = entries[MapKey(q)]
      BY <1>3, <2>2, <3>1
    <3>3. Stored(q) => Stored(q)'
      BY <1>5, <2>2, <3>2 DEF Stored
    <3>4. TimedOut(q) => TimedOut(q)'
      BY <1>5, <2>2, <3>2 DEF TimedOut
    <3>5. MovedOn(q) => MovedOn(q)'
      BY <1>5 DEF MovedOn
    <3> QED BY <3>1, <3>3, <3>4, <3>5 DEF SessionInv, RememberedInv
  <2>3. CASE q # r /\ MapKey(q) = k
    <3>1. Settled(q) /\ NoFailure(k)
      BY <1>5, <1>6, <1>7, <2>3
    <3>2. CASE peer[q] = peer'[r] /\ op[q].now <= op[r].now
      <4>1. entry.backend = peer[q] /\ entry.expires_at >= op[q].now + Ttl
        BY <3>2, StoreTypes
      <4>2. Stored(q)'
        BY <1>3, <1>4, <1>5, <2>3, <4>1 DEF Stored
      <4> QED BY <4>2
    <3>3. CASE op[r].now >= op[q].now + Ttl
      <4>1. op[r].now <= clock
        BY DEF SessionInv, OperationInv, OperationOK
      <4>2. clock >= op[q].now + Ttl
        BY <3>3, <4>1, StoreTypes
      <4>3. \A p \in Requests : ctx[p] # None /\ MapKey(p) = k => rpc'[p] \notin {"lookup", "bind"}
        BY <1>8
      <4>4. TimedOut(q)'
        BY <1>5, <2>3, <4>2, <4>3 DEF TimedOut
      <4> QED BY <4>4
    <3>4. CASE ctx[r].version > ctx[q].version
      <4>1. MovedOn(q)'
        BY <1>1, <1>5, <2>3, <3>4 DEF MovedOn
      <4> QED BY <4>1
    <3> QED BY <1>13, <2>3, <3>1, <3>2, <3>3, <3>4
  <2> QED BY <2>1, <2>2, <2>3
<1>15. AgreeInv'
  <2>1. ASSUME NEW q \in Requests \ {r}, Settled(q)
        PROVE  Agree(q, r)' /\ Agree(r, q)'
    <3> SUFFICES ASSUME MapKey(q) = k, NoFailure(k), ctx[q].version = ctx[r].version,
                        op[q].now < op[r].now + Ttl, op[r].now < op[q].now + Ttl
                 PROVE  peer[q] = peer'[r]
      <4>1. op[q].now <= op[r].now => op[q].now < op[r].now + Ttl
        BY StoreTypes
      <4>2. op[r].now <= op[q].now => op[r].now < op[q].now + Ttl
        BY StoreTypes
      <4> QED BY <1>5, <1>6, <4>1, <4>2 DEF Agree
    <3>1. ~(op[r].now >= op[q].now + Ttl)
      BY StoreTypes
    <3>2. ctx[q].version \in Nat
      BY <2>1 DEF RequestsInv, RequestsTypeOK, RouterCtx, Settled
    <3>3. ~(ctx[r].version > ctx[q].version)
      BY <3>2
    <3> QED BY <1>13, <2>1, <3>1, <3>3
  <2>2. ASSUME NEW p \in Requests \ {r}, NEW q \in Requests \ {r} PROVE Agree(p, q)'
    <3>1. Agree(p, q)
      BY DEF SessionInv, AgreeInv
    <3> QED BY <1>5, <1>6, <1>7, <3>1 DEF Agree
  <2>3. Agree(r, r)'
    BY DEF Agree
  <2> SUFFICES ASSUME NEW p \in Requests, NEW q \in Requests PROVE Agree(p, q)'
    BY DEF AgreeInv
  <2>4. ~Settled(p)' \/ ~Settled(q)' => Agree(p, q)'
    BY DEF Agree
  <2> QED BY <1>7, <2>1, <2>2, <2>3, <2>4
<1> QED BY <1>9, <1>10, <1>11, <1>12, <1>14, <1>15 DEF SessionInv

\* A lookup that finds a backend settles its request with it.
LEMMA MappedSessions ==
  ASSUME RequestsInv, RequestsInv', SessionInv, NEW r \in Requests, PeerMapped(r),
         Mapped(r, ctx[r].pool) # None
  PROVE  SessionInv'
<1> DEFINE k == MapKey(r)
           mapped == Mapped(r, ctx[r].pool)
<1>1. rpc[r] = "lookup" /\ op[r].key = k
  BY DEF PeerMapped, SessionInv, OperationInv, OperationOK
<1>2. /\ rpc'[r] = "connect" /\ peer'[r] = mapped
      /\ entries' = [entries EXCEPT ![k] = [backend |-> mapped, expires_at |-> op[r].now + Ttl]]
      /\ \A q \in Requests \ {r} : rpc'[q] = rpc[q] /\ peer'[q] = peer[q]
      /\ \A q \in Requests : op'[q].now = op[q].now /\ op'[q].key = op[q].key
      /\ UNCHANGED <<clock, config, updates, ctx, failures, answer>>
  <2> HIDE DEF mapped
  <2>1. /\ rpc' = [rpc EXCEPT ![r] = "connect"] /\ peer' = [peer EXCEPT ![r] = mapped]
        /\ entries' = [entries EXCEPT ![k] = [backend |-> mapped, expires_at |-> op[r].now + Ttl]]
    BY <1>1 DEF PeerMapped, LookupEnds, mapped
  <2>2. \A q \in Requests : op'[q].now = op[q].now /\ op'[q].key = op[q].key
    BY DEF PeerMapped, LookupEnds, Proceed, RequestsInv, StickyInv, StickyTypeOK
  <2>3. UNCHANGED <<clock, config, updates, ctx, failures, answer>>
    BY DEF PeerMapped, LookupEnds, routerVars
  <2> QED BY <2>1, <2>2, <2>3 DEF RequestsInv, RequestsTypeOK
<1>3. entries[k] # None /\ mapped = entries[k].backend
  BY <1>1 DEF Mapped
<1>4. ctx[r] # None /\ IsSticky(r)
  BY <1>1 DEF RequestsInv, RequestsTypeOK, FlowInv, FlowOK
<1>5. \A q \in Requests : Settled(q) /\ MapKey(q) = k /\ Stored(q) =>
        peer[q] = mapped /\ op[q].now <= op[r].now
  <2> SUFFICES ASSUME NEW q \in Requests, Settled(q), MapKey(q) = k, Stored(q)
               PROVE  peer[q] = mapped /\ op[q].now <= op[r].now
    OBVIOUS
  <2>1. q # r
    BY <1>1, NotSettledYet
  <2>2. SameSession(r, q)
    BY <1>4 DEF MapKey, SameSession, Settled
  <2>3. op[q].now <= op[r].now
    BY <1>1, <2>1, <2>2 DEF SessionInv, SerialInv
  <2> QED BY <1>3, <2>3 DEF Stored
<1>6. \A q \in Requests : Settled(q) /\ MapKey(q) = k /\ TimedOut(q) =>
        op[r].now >= op[q].now + Ttl
  BY <1>1, <1>3, <1>4 DEF TimedOut
<1> HIDE DEF mapped
<1> QED BY <1>1, <1>2, <1>5, <1>6, SettlesInv

\* A bind settles its request with the backend the balancer selected: there
\* was no entry, so earlier requests timed out or were of an older
\* configuration.
LEMMA BindsSessions ==
  ASSUME RequestsInv, RequestsInv', SessionInv, NEW r \in Requests, PeerBinds(r)
  PROVE  SessionInv'
<1> DEFINE k == MapKey(r)
<1>1. rpc[r] = "bind" /\ op[r].key = k
  BY DEF PeerBinds, SessionInv, OperationInv, OperationOK
<1>2. /\ rpc'[r] = "connect" /\ peer' = peer
      /\ entries' = [entries EXCEPT ![k] = [backend |-> peer[r], expires_at |-> op[r].now + Ttl]]
      /\ \A q \in Requests \ {r} : rpc'[q] = rpc[q]
      /\ \A q \in Requests : op'[q].now = op[q].now /\ op'[q].key = op[q].key
      /\ UNCHANGED <<clock, config, updates, ctx, failures, answer>>
  <2>1. \A q \in Requests : op'[q].now = op[q].now /\ op'[q].key = op[q].key
    BY DEF PeerBinds, BindEnds, Proceed, RequestsInv, StickyInv, StickyTypeOK
  <2>2. rpc' = [rpc EXCEPT ![r] = "connect"] /\ peer' = peer
    BY DEF PeerBinds
  <2>3. entries' = [entries EXCEPT ![k] = [backend |-> peer[r], expires_at |-> op[r].now + Ttl]]
    BY <1>1 DEF PeerBinds, BindEnds
  <2>4. UNCHANGED <<clock, config, updates, ctx, failures, answer>>
    BY DEF PeerBinds, BindEnds, routerVars
  <2> QED BY <2>1, <2>2, <2>3, <2>4 DEF RequestsInv, RequestsTypeOK
<1>3. entries[k] = None /\ ctx[r] # None
  BY <1>1 DEF SessionInv, MissInv, RequestsInv, RequestsTypeOK
<1>4. \A q \in Requests : MapKey(q) = k => ~Stored(q)
  BY <1>3 DEF Stored
<1>5. \A q \in Requests : Settled(q) /\ MapKey(q) = k /\ TimedOut(q) =>
        op[r].now >= op[q].now + Ttl
  BY <1>1, <1>3 DEF TimedOut
<1> QED BY <1>1, <1>2, <1>4, <1>5, SettlesInv

\* Every step of the router keeps the sessions' invariant, when clients are
\* serial and the store is large enough for its keys.
LEMMA SessionStep ==
  ASSUME SerialSessions, IsFiniteSet(AffinityKeys), Cardinality(AffinityKeys) <= max_entries,
         RequestsInv, RequestsInv', SessionInv, [RequestsNext]_allVars
  PROVE  SessionInv'
<1>1. ASSUME NEW r \in Requests, RequestAborts(r) \/ RequestRefused(r) \/ RequestFilter(r)
      PROVE  SessionInv'
  BY <1>1, AbortsSessions, RefusedSessions, FilterSessions
<1>2. ASSUME NEW r \in Requests, RequestStep(r) PROVE SessionInv'
  BY <1>2, PlainSessions, LooksUpSessions, MissedSessions, MappedSessions, SelectsSessions,
     BindsSessions, NoHealthyPeerSessions, ServedSessions, FailToConnectSessions,
     ExchangeFailsSessions, SweepSessions DEF RequestStep
<1>3. CASE \E app \in Applications, pools \in PoolChoices : update(app, pools)
  BY <1>3, UpdateSessions
<1>4. CASE TimePasses
  <2>1. clock' >= clock /\ UNCHANGED <<entries, op, routerVars, requestVars>>
    BY <1>4, StoreTypes DEF TimePasses, Tick
  <2> QED BY <2>1, TimeSessions
<1>5. CASE UNCHANGED allVars
  <2>1. clock' >= clock /\ UNCHANGED <<entries, op, routerVars, requestVars>>
    BY <1>5, StoreTypes DEF allVars, stickyVars
  <2> QED BY <2>1, TimeSessions
<1> QED BY <1>1, <1>2, <1>3, <1>4, <1>5 DEF RequestsNext, AllAnswered

\* A new router has no sessions.
LEMMA SessionInitInv == RequestsInit => SessionInv
<1> SUFFICES ASSUME RequestsInit PROVE SessionInv
  OBVIOUS
<1>1. \A p \in Requests : rpc[p] = "new" /\ ctx[p] = None /\ answer[p] # 200
  BY RouterAssumption DEF RequestsInit, Answers
<1>2. \A p \in Requests : OperationOK(p)
  <2>1. \A p \in Requests : op[p].now <= clock
    BY DEF RequestsInit, StickyInit
  <2> QED BY <1>1, <2>1 DEF OperationOK
<1> QED BY <1>1, <1>2 DEF SessionInv, OperationInv, SerialInv, VersionInv, MissInv, RememberedInv,
           AgreeInv, Agree, Settled, SameSession

\* Sessions stick, for any number of requests, sessions, backends, updates
\* and shards: clients that make the requests of a session one after the
\* other reach one backend as long as no connection of the session failed,
\* the configuration is the same and less than the time-to-live passed.
THEOREM SessionsDoStick ==
  ASSUME SerialSessions, IsFiniteSet(AffinityKeys)
  PROVE  RequestsSpec => []SessionsStick
<1>1. CASE Cardinality(AffinityKeys) <= max_entries
  <2>1. RequestsInit => SessionInv
    BY SessionInitInv
  <2>2. RequestsInv /\ RequestsInv' /\ SessionInv /\ [RequestsNext]_allVars => SessionInv'
    BY <1>1, SessionStep
  <2>3. RequestsInv /\ SessionInv => SessionsStick
    <3> SUFFICES ASSUME RequestsInv, SessionInv, NEW r \in Requests, NEW q \in Requests,
                        answer[r] = 200, answer[q] = 200, IsSticky(r), IsSticky(q),
                        MapKey(r) = MapKey(q), ctx[r].version = ctx[q].version,
                        op[r].now <= op[q].now, op[q].now < op[r].now + Ttl,
                        \A p \in Requests : failures[p] > 0 => MapKey(p) # MapKey(r)
                 PROVE  peer[r] = peer[q]
      BY DEF SessionsStick
    <3>1. Settled(r) /\ Settled(q)
      BY DEF Settled, SessionInv, OperationInv, OperationOK
    <3>2. NoFailure(MapKey(r))
      BY DEF NoFailure
    <3> QED BY <3>1, <3>2 DEF SessionInv, AgreeInv, Agree
  <2> QED BY <2>1, <2>2, <2>3, RequestsInvariant, PTL DEF RequestsSpec
<1>2. CASE ~(Cardinality(AffinityKeys) <= max_entries)
  <2>1. SessionsStick
    BY <1>2 DEF SessionsStick
  <2> QED BY <2>1, PTL
<1> QED BY <1>1, <1>2

-----------------------------------------------------------------------------
(* Retries                                                                 *)

\* A request on its retry, as FailedBackendForgotten has it.
Retrying(p) == retried[p] /\ broken[p] = 0 /\ rpc[p] \in {"peer", "lookup", "select", "bind"}

\* A request in the store works on its own key; one that has not arrived has
\* no context.
OwnKey(p) ==
  /\ rpc[p] \in {"lookup", "bind"} => op[p].key = MapKey(p)
  /\ rpc[p] = "new" => ctx[p] = None

\* A session has one unanswered request at a time.
OneActive == \A p, q \in Requests : p # q /\ SameSession(p, q) /\ rpc[p] # "done" => rpc[q] = "done"

\* The inductive invariant behind FailedBackendForgotten.
ForgetInv == (\A p \in Requests : OwnKey(p)) /\ OneActive /\ FailedBackendForgotten

\* A request on its retry has a key of the store.
LEMMA RetryingKey ==
  ASSUME RequestsInv, NEW p \in Requests, Retrying(p)
  PROVE  ctx[p] # None /\ IsSticky(p) /\ MapKey(p) \in AffinityKeys
<1>1. ctx[p] # None
  BY DEF Retrying, RequestsInv, RequestsTypeOK
<1>2. IsSticky(p)
  BY DEF Retrying, RequestsInv, FlowInv, FlowOK
<1> QED BY <1>1, <1>2, MapKeyType DEF RequestsInv

\* A step that lets no request arrive keeps the invariant, when a request on
\* its retry either was so before, with the same entry, or has none now.
LEMMA ForgetKept ==
  ASSUME ForgetInv, UNCHANGED ctx,
         \A p \in Requests : rpc[p] = "done" => rpc'[p] = "done",
         \A p \in Requests : rpc'[p] = "new" => rpc[p] = "new",
         \A p \in Requests : rpc'[p] \in {"lookup", "bind"} => op'[p].key = MapKey(p),
         \A p \in Requests : Retrying(p)' =>
           \/ entries'[MapKey(p)] = None
           \/ Retrying(p) /\ entries'[MapKey(p)] = entries[MapKey(p)]
  PROVE  ForgetInv'
<1>1. \A p \in Requests : MapKey(p)' = MapKey(p)
  BY DEF MapKey
<1>2. \A p \in Requests : OwnKey(p)'
  BY <1>1 DEF ForgetInv, OwnKey
<1>3. OneActive'
  BY DEF ForgetInv, OneActive, SameSession, IsSticky
<1>4. FailedBackendForgotten'
  BY <1>1 DEF ForgetInv, FailedBackendForgotten, Retrying
<1> QED BY <1>2, <1>3, <1>4 DEF ForgetInv

\* Steps of one request that write no entry and start no retry.
LEMMA NoRetryForget ==
  ASSUME RequestsInv, ForgetInv, NEW r \in Requests, UNCHANGED <<ctx, retried>>,
         rpc[r] # "done", rpc'[r] # "new",
         rpc'[r] \in {"lookup", "bind"} => op'[r].key = MapKey(r),
         Retrying(r)' => Retrying(r) \/ entries'[MapKey(r)] = None,
         \A q \in Requests \ {r} : rpc'[q] = rpc[q] /\ op'[q].key = op[q].key /\ broken'[q] = broken[q],
         \A k \in AffinityKeys : entries'[k] = entries[k] \/ entries'[k] = None
  PROVE  ForgetInv'
<1>1. \A p \in Requests : rpc'[p] \in {"lookup", "bind"} => op'[p].key = MapKey(p)
  BY DEF ForgetInv, OwnKey
<1>2. ASSUME NEW p \in Requests, Retrying(p)'
      PROVE  \/ entries'[MapKey(p)] = None
             \/ Retrying(p) /\ entries'[MapKey(p)] = entries[MapKey(p)]
  <2>1. Retrying(p) \/ entries'[MapKey(p)] = None
    BY <1>2 DEF Retrying
  <2> QED BY <2>1, RetryingKey
<1> QED BY <1>1, <1>2, ForgetKept

\* The request that gets its backend writes its session's entry; no other
\* request of the session is on its retry.
LEMMA WriteForget ==
  ASSUME RequestsInv, ForgetInv, NEW r \in Requests, UNCHANGED <<ctx, retried, broken>>,
         rpc[r] \in {"lookup", "bind"}, rpc'[r] = "connect",
         \A q \in Requests \ {r} : rpc'[q] = rpc[q] /\ op'[q].key = op[q].key,
         \A k \in AffinityKeys \ {MapKey(r)} : entries'[k] = entries[k]
  PROVE  ForgetInv'
<1>1. \A p \in Requests : rpc'[p] \in {"lookup", "bind"} => op'[p].key = MapKey(p)
  BY DEF ForgetInv, OwnKey
<1>2. ASSUME NEW p \in Requests, Retrying(p)'
      PROVE  Retrying(p) /\ entries'[MapKey(p)] = entries[MapKey(p)]
  <2>1. p # r /\ Retrying(p)
    BY <1>2 DEF Retrying
  <2>2. ctx[p] # None /\ IsSticky(p) /\ MapKey(p) \in AffinityKeys
    BY <2>1, RetryingKey
  <2>3. ctx[r] # None
    BY DEF RequestsInv, RequestsTypeOK
  <2>4. MapKey(p) # MapKey(r)
    <3> SUFFICES ASSUME MapKey(p) = MapKey(r) PROVE FALSE
      OBVIOUS
    <3>1. ctx[p].affinity_key = ctx[r].affinity_key
      BY DEF MapKey
    <3>2. SameSession(p, r) /\ rpc[p] # "done" /\ rpc[r] # "done"
      BY <2>1, <2>2, <2>3, <3>1 DEF SameSession, Retrying
    <3> QED BY <2>1, <3>2 DEF ForgetInv, OneActive
  <2> QED BY <2>1, <2>2, <2>4
<1> QED BY <1>1, <1>2, ForgetKept

\* A request that ends, or breaks, is not on its retry.
LEMMA EndsForget ==
  ASSUME RequestsInv, ForgetInv, NEW r \in Requests,
         RequestAborts(r) \/ RequestRefused(r) \/ NoHealthyPeer(r) \/ Served(r) \/ ExchangeFails(r)
  PROVE  ForgetInv'
<1>1. /\ rpc[r] # "done"
      /\ rpc'[r] = "done" \/ (rpc'[r] = "peer" /\ broken'[r] # 0)
      /\ \A q \in Requests \ {r} : rpc'[q] = rpc[q] /\ broken'[q] = broken[q]
  BY DEF RequestAborts, RequestRefused, Arrives, NoHealthyPeer, Served, ExchangeFails, Answer,
     RequestsInv, RequestsTypeOK
<1>2. UNCHANGED <<ctx, retried, entries, op>>
  BY DEF RequestAborts, RequestRefused, NoHealthyPeer, Served, ExchangeFails, stickyVars
<1> QED BY <1>1, <1>2, NoRetryForget DEF Retrying

\* Looking for a backend writes no entry.
LEMMA LooksForget ==
  ASSUME RequestsInv, ForgetInv, NEW r \in Requests,
         PeerPlain(r) \/ PeerLooksUp(r) \/ PeerSelects(r)
  PROVE  ForgetInv'
<1>1. /\ rpc[r] \in {"peer", "select"} /\ rpc'[r] \in {"lookup", "bind", "connect"}
      /\ rpc'[r] \in {"lookup", "bind"} => op'[r].key = MapKey(r)
      /\ \A q \in Requests \ {r} : rpc'[q] = rpc[q] /\ op'[q] = op[q]
      /\ UNCHANGED <<ctx, retried, broken, entries>>
  BY DEF PeerPlain, PeerLooksUp, PeerSelects, LookupBegins, BindBegins, stickyVars,
     RequestsInv, RequestsTypeOK, StickyInv, StickyTypeOK
<1> QED BY <1>1, NoRetryForget DEF Retrying

\* A lookup writes the session's entry, or drops it.
LEMMA MappedForget ==
  ASSUME RequestsInv, ForgetInv, NEW r \in Requests, PeerMapped(r)
  PROVE  ForgetInv'
<1>1. /\ rpc[r] = "lookup" /\ UNCHANGED <<ctx, retried, broken>>
      /\ \A q \in Requests \ {r} : rpc'[q] = rpc[q] /\ op'[q] = op[q]
  BY DEF PeerMapped, LookupEnds, Proceed, RequestsInv, RequestsTypeOK, StickyInv, StickyTypeOK
<1>2. op[r].key = MapKey(r)
  BY <1>1 DEF ForgetInv, OwnKey
<1>3. \A k \in AffinityKeys \ {MapKey(r)} : entries'[k] = entries[k]
  BY <1>2 DEF PeerMapped, LookupEnds, RequestsInv, StickyInv, StickyTypeOK
<1>4. CASE Mapped(r, ctx[r].pool) # None
  <2>1. rpc'[r] = "connect"
    BY <1>4 DEF PeerMapped, RequestsInv, RequestsTypeOK
  <2> QED BY <1>1, <1>3, <2>1, WriteForget
<1>5. CASE Mapped(r, ctx[r].pool) = None
  <2>1. rpc'[r] = "select"
    BY <1>5 DEF PeerMapped, RequestsInv, RequestsTypeOK
  <2>2. \A k \in AffinityKeys : entries'[k] = entries[k] \/ entries'[k] = None
    BY <1>5 DEF PeerMapped, LookupEnds, RequestsInv, StickyInv, StickyTypeOK
  <2> QED BY <1>1, <2>1, <2>2, NoRetryForget DEF Retrying
<1> QED BY <1>4, <1>5

\* A bind writes it.
LEMMA BindsForget ==
  ASSUME RequestsInv, ForgetInv, NEW r \in Requests, PeerBinds(r)
  PROVE  ForgetInv'
<1>1. /\ rpc[r] = "bind" /\ rpc'[r] = "connect" /\ UNCHANGED <<ctx, retried, broken>>
      /\ \A q \in Requests \ {r} : rpc'[q] = rpc[q] /\ op'[q] = op[q]
  BY DEF PeerBinds, BindEnds, Proceed, RequestsInv, RequestsTypeOK, StickyInv, StickyTypeOK
<1>2. op[r].key = MapKey(r)
  BY <1>1 DEF ForgetInv, OwnKey
<1>3. \A k \in AffinityKeys \ {MapKey(r)} : entries'[k] = entries[k]
  BY <1>2 DEF PeerBinds, BindEnds, RequestsInv, StickyInv, StickyTypeOK
<1> QED BY <1>1, <1>3, WriteForget

\* A failed connection starts the retry without an entry.
LEMMA FailToConnectForget ==
  ASSUME RequestsInv, ForgetInv, NEW r \in Requests, FailToConnect(r)
  PROVE  ForgetInv'
<1>1. /\ rpc[r] = "connect" /\ rpc'[r] \in {"peer", "done"} /\ UNCHANGED <<ctx, broken, op>>
      /\ \A q \in Requests \ {r} : rpc'[q] = rpc[q] /\ retried'[q] = retried[q]
  BY DEF FailToConnect, Answer, remove, stickyVars, RequestsInv, RequestsTypeOK
<1>2. \A k \in AffinityKeys : entries'[k] = entries[k] \/ entries'[k] = None
  BY DEF FailToConnect, remove, stickyVars, RequestsInv, StickyInv, StickyTypeOK
<1>3. ASSUME rpc'[r] = "peer" PROVE entries'[MapKey(r)] = None
  <2>1. IsSticky(r) /\ remove(r, MapKey(r))
    BY <1>1, <1>3 DEF FailToConnect, Answer, RequestsInv, RequestsTypeOK
  <2>2. MapKey(r) \in AffinityKeys
    BY <1>1, <2>1, MapKeyType DEF RequestsInv, RequestsTypeOK
  <2> QED BY <2>1, <2>2 DEF remove, RequestsInv, StickyInv, StickyTypeOK
<1>4. \A p \in Requests : rpc'[p] \in {"lookup", "bind"} => op'[p].key = MapKey(p)
  BY <1>1 DEF ForgetInv, OwnKey
<1>5. ASSUME NEW p \in Requests, Retrying(p)'
      PROVE  \/ entries'[MapKey(p)] = None
             \/ Retrying(p) /\ entries'[MapKey(p)] = entries[MapKey(p)]
  <2>1. CASE p = r
    BY <1>1, <1>3, <1>5, <2>1 DEF Retrying
  <2>2. CASE p # r
    <3>1. Retrying(p)
      BY <1>1, <1>5, <2>2 DEF Retrying
    <3> QED BY <1>2, <3>1, RetryingKey
  <2> QED BY <2>1, <2>2
<1> QED BY <1>1, <1>4, <1>5, ForgetKept

\* A request that arrives has made no connection, and is alone in its
\* session: here the client's discipline is used.
LEMMA FilterForget ==
  ASSUME RequestsInv, RequestsInv', ForgetInv, SerialSessions, NEW r \in Requests, RequestFilter(r)
  PROVE  ForgetInv'
<1>1. PICK in \in RequestInputs :
         /\ Arrives(r, in)
         /\ \E app, transport :
              ctx' = [ctx EXCEPT ![r] =
                [app |-> app, transport |-> transport, pool |-> config[app][transport],
                 version |-> updates,
                 affinity_key |-> IF sticky THEN AffinityKey(r, in) ELSE None]]
  BY DEF RequestFilter
<1>2. /\ rpc[r] = "new" /\ rpc'[r] = "peer" /\ ~retried[r] /\ ctx[r] = None
      /\ \A q \in Requests \ {r} : rpc'[q] = rpc[q] /\ ctx'[q] = ctx[q]
      /\ UNCHANGED <<entries, op, retried, broken>>
  <2>1. rpc[r] = "new"
    BY <1>1 DEF Arrives
  <2>2. ~retried[r] /\ ctx[r] = None
    BY <2>1 DEF RequestsInv, FlowInv, FlowOK, ForgetInv, OwnKey
  <2> QED BY <1>1, <2>1, <2>2 DEF RequestFilter, RequestsInv, RequestsTypeOK, stickyVars
<1>3. ctx'[r].affinity_key # None => ctx'[r].affinity_key = AffinityKey(r, in)
  BY <1>1 DEF RequestsInv, RequestsTypeOK
<1>4. \A p \in Requests : OwnKey(p)'
  BY <1>2 DEF ForgetInv, OwnKey, MapKey
<1>5. OneActive'
  <2> SUFFICES ASSUME NEW p \in Requests, NEW q \in Requests,
                      p # q, SameSession(p, q)', rpc'[p] # "done"
               PROVE  rpc'[q] = "done"
    BY DEF OneActive
  <2>1. ctx'[p] # None /\ ctx'[q] # None /\ ctx'[p].affinity_key = ctx'[q].affinity_key
        /\ ctx'[p].affinity_key # None
    BY DEF SameSession, IsSticky
  <2>2. \A n \in Requests :
          n # r /\ ctx[n] # None /\ ctx[n].affinity_key = AffinityKey(r, in) => rpc[n] = "done"
    BY <1>1 DEF Arrives
  <2>3. CASE p = r \/ q = r
    BY <1>2, <1>3, <2>1, <2>2, <2>3
  <2>4. CASE p # r /\ q # r
    <3>1. SameSession(p, q)
      BY <1>2, <2>1, <2>4 DEF SameSession, IsSticky
    <3> QED BY <1>2, <2>4, <3>1 DEF ForgetInv, OneActive
  <2> QED BY <2>3, <2>4
<1>6. FailedBackendForgotten'
  BY <1>2 DEF ForgetInv, FailedBackendForgotten, MapKey
<1> QED BY <1>4, <1>5, <1>6 DEF ForgetInv

\* Sweeps only drop entries.
LEMMA SweepForget ==
  ASSUME RequestsInv, ForgetInv, NEW r \in Requests, SweepStep(r)
  PROVE  ForgetInv'
<1>1. /\ \A q \in Requests : op'[q].key = op[q].key
      /\ UNCHANGED <<ctx, retried, broken, rpc>>
  BY DEF SweepStep, SweepLocks, Sweep, Proceed, requestVars, RequestsInv, StickyInv, StickyTypeOK
<1>2. \A k \in AffinityKeys : entries'[k] = entries[k] \/ entries'[k] = None
  BY DEF SweepStep, SweepLocks, Sweep
<1>3. \A p \in Requests : Retrying(p)' => Retrying(p)
  BY <1>1 DEF Retrying
<1>4. \A p \in Requests : rpc'[p] \in {"lookup", "bind"} => op'[p].key = MapKey(p)
  BY <1>1 DEF ForgetInv, OwnKey
<1>5. \A p \in Requests : Retrying(p)' =>
        \/ entries'[MapKey(p)] = None
        \/ Retrying(p) /\ entries'[MapKey(p)] = entries[MapKey(p)]
  BY <1>2, <1>3, RetryingKey
<1> QED BY <1>1, <1>4, <1>5, ForgetKept

\* Updates and time touch neither requests nor entries.
LEMMA QuietForget ==
  ASSUME ForgetInv, UNCHANGED <<ctx, retried, broken, rpc, op, entries>>
  PROVE  ForgetInv'
BY DEF ForgetInv, OwnKey, OneActive, FailedBackendForgotten, SameSession, IsSticky, MapKey

\* The retry of a failed connection never meets the failed backend in the
\* store, for any number of requests, sessions and sweeps: for clients that
\* make the requests of a session one after the other.
THEOREM FailedBackendIsForgotten ==
  ASSUME SerialSessions
  PROVE  RequestsSpec => []FailedBackendForgotten
<1>1. RequestsInit => ForgetInv
  BY DEF RequestsInit, ForgetInv, OwnKey, OneActive, FailedBackendForgotten, SameSession
<1>2. ASSUME RequestsInv, RequestsInv', ForgetInv, [RequestsNext]_allVars PROVE ForgetInv'
  <2>1. ASSUME NEW r \in Requests, RequestAborts(r) \/ RequestRefused(r) \/ RequestFilter(r)
        PROVE  ForgetInv'
    BY <1>2, <2>1, EndsForget, FilterForget
  <2>2. ASSUME NEW r \in Requests, RequestStep(r) PROVE ForgetInv'
    BY <1>2, <2>2, LooksForget, MappedForget, BindsForget, EndsForget, FailToConnectForget,
       SweepForget DEF RequestStep
  <2>3. CASE \E app \in Applications, pools \in PoolChoices : update(app, pools)
    BY <1>2, <2>3, QuietForget DEF update, stickyVars, requestVars
  <2>4. CASE TimePasses \/ UNCHANGED allVars
    BY <1>2, <2>4, QuietForget DEF TimePasses, Tick, allVars, stickyVars, requestVars
  <2> QED BY <1>2, <2>1, <2>2, <2>3, <2>4 DEF RequestsNext, AllAnswered
<1>3. ForgetInv => FailedBackendForgotten
  BY DEF ForgetInv
<1> QED BY <1>1, <1>2, <1>3, RequestsInvariant, PTL DEF RequestsSpec
=============================================================================
