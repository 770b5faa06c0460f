-------------------------- MODULE Routing_proofs --------------------------
(***************************************************************************)
(* What the options and the request processing guarantee, for every list   *)
(* of applications, every request and every upstream.  The state machine   *)
(* is a pipeline: its invariant says that each stage holds what the        *)
(* operators of the stages before it compute, and the theorems are facts   *)
(* about those operators.                                                  *)
(***************************************************************************)
EXTENDS Routing, FiniteSetTheorems, SequenceTheorems, WellFoundedInduction, TLAPS

\* What became of request r: a rejection, a panic, a 404, or a request that
\* was let through, whose answer response_filter may have failed.
Filtered(r) ==
  LET status == request_limit_rejection_status(r.size, proxy.limits)
      route == Route(r.host, r.target)
  IN  \/ status # None /\ answer = status /\ ctx = None
      \/ status = None /\ r.host = None /\ answer = Aborted /\ ctx = None
      \/ status = None /\ r.host # None /\ route.app_name = None /\ answer = 404 /\ ctx = None
      \/ /\ status = None /\ r.host # None /\ route.app_name # None /\ answer \in {None, 500}
         /\ ctx = [app_name |-> route.app_name,
                   path_rewrite_segment |-> route.path_rewrite_segment,
                   affinity_key |-> IF proxy.sticky.enabled THEN AffinityKey(r) ELSE None]

\* The inductive invariant: every stage holds what the code computed from
\* the stages before it.
RoutingInv ==
  /\ options \in OptionInputs
  /\ created = None => request = None /\ upstream = None
  /\ created # None =>
       /\ created = IF ErrorCode(options) = None THEN "created" ELSE ErrorCode(options)
       /\ proxy = IF ErrorCode(options) = None THEN parse_proxy_options(options) ELSE None
  /\ request = None => answer = None /\ ctx = None
  /\ request # None => created = "created" /\ request \in RequestInputs /\ Filtered(request)
  /\ ctx = None => forwarded = None
  /\ forwarded # None => forwarded = Rewritten(request.target, ctx.path_rewrite_segment)
  /\ forwarded = None => set_cookie = None
  /\ set_cookie # None =>
       /\ ctx.affinity_key # None
       /\ set_cookie = proxy.sticky.cookie_name \o <<"=">> \o ctx.affinity_key
  /\ upstream # None =>
       \E raw \in UpstreamInputs :
         upstream = [raw |-> raw, error |-> UpstreamErrorCode(raw),
                     parsed |-> IF UpstreamErrorCode(raw) = None THEN parse_port_upstream(raw) ELSE None]

\* The error codes are not the value the constructor ends with when it succeeds.
LEMMA ErrorCodes ==
  ASSUME NEW o
  PROVE  /\ ErrorCode(o) \in {None, "InvalidApplicationOptions", "InvalidProxyOptions"}
         /\ None \notin {"created", "InvalidApplicationOptions", "InvalidProxyOptions",
                         "UnsupportedUpstreamType"}
<1>2. ErrorCode(o) \in {None, "InvalidApplicationOptions", "InvalidProxyOptions"}
  <2> DEFINE A == \/ \E app \in ToSet(o.applications) : ~ApplicationAccepted(app)
                  \/ ~validate_applications(o.applications)
             B == StickyAccepted(o.sticky) /\ LimitsAccepted(o.limits) /\ TimeoutsAccepted(o.timeouts)
  <2>1. ErrorCode(o) = CASE A -> "InvalidApplicationOptions"
                         [] OTHER -> IF B THEN None ELSE "InvalidProxyOptions"
    BY DEF ErrorCode
  <2> HIDE DEF A, B
  <2> QED BY <2>1
<1> QED BY <1>2, MissingAssumption, LiteralsAssumption

\* The pipeline starts empty.
LEMMA RoutingInitInv == RoutingInit => RoutingInv
BY DEF RoutingInit, RoutingInv

\* Every step fills one stage from the ones before it.
LEMMA RoutingNextInv == RoutingInv /\ [RoutingNext]_routingVars => RoutingInv'
<1> SUFFICES ASSUME RoutingInv, [RoutingNext]_routingVars PROVE RoutingInv'
  OBVIOUS
<1>0. /\ ErrorCode(options) \in {None, "InvalidApplicationOptions", "InvalidProxyOptions"}
      /\ None # "created"
  BY ErrorCodes
<1>1. CASE New
  <2>1. created' # None
    BY <1>1, <1>0, MissingAssumption DEF New
  <2>2. request = None /\ upstream = None
    BY <1>1 DEF New, RoutingInv
  <2>3. UNCHANGED <<options, request, answer, ctx, forwarded, set_cookie, upstream>>
    BY <1>1 DEF New
  <2>4. ctx = None /\ forwarded = None /\ set_cookie = None
    BY <2>2 DEF RoutingInv
  <2> QED BY <1>1, <2>1, <2>2, <2>3, <2>4 DEF New, RoutingInv
<1>2. CASE UpstreamParsed
  <2>1. PICK raw \in UpstreamInputs :
          upstream' = [raw |-> raw, error |-> UpstreamErrorCode(raw),
                       parsed |-> IF UpstreamErrorCode(raw) = None THEN parse_port_upstream(raw) ELSE None]
    BY <1>2 DEF UpstreamParsed
  <2>2. UNCHANGED <<options, created, proxy, request, answer, ctx, forwarded, set_cookie>>
    BY <1>2 DEF UpstreamParsed
  <2>3. created # None /\ request = None
    BY <1>2, <1>0 DEF UpstreamParsed
  <2>4. ctx = None /\ forwarded = None /\ set_cookie = None
    BY <2>3 DEF RoutingInv
  <2> QED BY <2>1, <2>2, <2>3, <2>4 DEF RoutingInv
<1>3. CASE RequestFilter \/ RequestAborts
  <2>1. /\ created = "created" /\ request = None /\ upstream = None
        /\ UNCHANGED <<options, created, proxy, forwarded, set_cookie, upstream>>
    BY <1>3 DEF RequestFilter, RequestAborts, Arrives
  <2>2. PICK r \in RequestInputs :
          LET status == request_limit_rejection_status(r.size, proxy.limits)
              route == Route(r.host, r.target)
          IN
          /\ request' = r
          /\ \/ status # None /\ answer' = status /\ UNCHANGED ctx
             \/ status = None /\ r.host = None /\ answer' = Aborted /\ UNCHANGED ctx
             \/ /\ status = None /\ r.host # None /\ route.app_name = None
                /\ answer' = 404 /\ UNCHANGED ctx
             \/ /\ status = None /\ r.host # None /\ route.app_name # None
                /\ ctx' = [app_name |-> route.app_name,
                           path_rewrite_segment |-> route.path_rewrite_segment,
                           affinity_key |-> IF proxy.sticky.enabled THEN AffinityKey(r) ELSE None]
                /\ UNCHANGED answer
    BY <1>3, Zenon DEF RequestFilter, RequestAborts, Arrives
  <2>3. answer = None /\ ctx = None /\ forwarded = None /\ set_cookie = None
    BY <2>1 DEF RoutingInv
  <2>4. request' = r /\ request' # None
    BY <2>2, RequestAssumption
  <2>5. Filtered(request)'
    <3>1. UNCHANGED proxy
      BY <2>1
    <3>2. /\ proxy.limits' = proxy.limits /\ proxy.sticky' = proxy.sticky
          /\ Route(r.host, r.target)' = Route(r.host, r.target)
          /\ AffinityKey(r)' = AffinityKey(r)
      BY <3>1 DEF Route, AffinityKey
    <3> DEFINE status == request_limit_rejection_status(r.size, proxy.limits)
               route == Route(r.host, r.target)
               new_ctx == [app_name |-> route.app_name,
                           path_rewrite_segment |-> route.path_rewrite_segment,
                           affinity_key |-> IF proxy.sticky.enabled THEN AffinityKey(r) ELSE None]
    <3>3. \/ status # None /\ answer' = status /\ ctx' = None
          \/ status = None /\ r.host = None /\ answer' = Aborted /\ ctx' = None
          \/ status = None /\ r.host # None /\ route.app_name = None /\ answer' = 404 /\ ctx' = None
          \/ /\ status = None /\ r.host # None /\ route.app_name # None /\ answer' \in {None, 500}
             /\ ctx' = new_ctx
      <4>1. UNCHANGED ctx => ctx' = None
        BY <2>3
      <4>2. UNCHANGED answer => answer' \in {None, 500}
        BY <2>3
      <4> HIDE DEF status, route
      <4> QED BY <2>2, <4>1, <4>2 DEF status, route
    <3>4. Filtered(r)'
      BY <3>1, <3>2, <3>3 DEF Filtered
    <3> QED BY <2>4, <3>4, Zenon
  <2>6. created # None /\ request' # None /\ request' \in RequestInputs
    BY <2>1, <2>2, <2>4, <1>0
  <2>7. /\ options' \in OptionInputs
        /\ created' = IF ErrorCode(options') = None THEN "created" ELSE ErrorCode(options')
        /\ proxy' = IF ErrorCode(options') = None THEN parse_proxy_options(options') ELSE None
    BY <2>1, <2>6 DEF RoutingInv
  <2> QED BY <2>1, <2>3, <2>5, <2>6, <2>7 DEF RoutingInv
<1>4. CASE UpstreamRequestFilter
  <2>1. /\ ctx # None /\ forwarded = None
        /\ forwarded' = Rewritten(request.target, ctx.path_rewrite_segment)
        /\ UNCHANGED <<options, created, proxy, request, answer, ctx, set_cookie, upstream>>
    BY <1>4 DEF UpstreamRequestFilter
  <2>2. request # None /\ set_cookie = None
    BY <2>1 DEF RoutingInv
  <2>3. Filtered(request)'
    BY <2>1, <2>2 DEF RoutingInv, Filtered, Route, AffinityKey
  <2> QED BY <2>1, <2>2, <2>3 DEF RoutingInv
<1>5. CASE ResponseFilter
  <2>1. /\ forwarded # None /\ ctx.affinity_key # None /\ set_cookie = None
        /\ \/ /\ set_cookie' = proxy.sticky.cookie_name \o <<"=">> \o ctx.affinity_key
              /\ UNCHANGED answer
           \/ answer' = 500 /\ UNCHANGED set_cookie
        /\ UNCHANGED <<options, created, proxy, request, ctx, forwarded, upstream>>
    BY <1>5 DEF ResponseFilter
  <2>2. request # None /\ ctx # None
    BY <2>1 DEF RoutingInv
  <2>3. Filtered(request)'
    <3>1. Filtered(request)
      BY <2>2 DEF RoutingInv
    <3>2. UNCHANGED <<proxy, request, ctx>> /\ answer' \in {answer, 500}
      BY <2>1
    <3> QED BY <2>2, <3>1, <3>2 DEF Filtered, Route, AffinityKey
  <2> QED BY <2>1, <2>2, <2>3 DEF RoutingInv
<1>6. CASE UNCHANGED routingVars
  BY <1>6 DEF RoutingInv, routingVars, Filtered, Route, AffinityKey
<1> QED BY <1>1, <1>2, <1>3, <1>4, <1>5, <1>6 DEF RoutingNext

\* The pipeline invariant holds throughout.
LEMMA RoutingInductive == RoutingSpec => []RoutingInv
BY RoutingInitInv, RoutingNextInv, PTL DEF RoutingSpec

-----------------------------------------------------------------------------
(* addUpstream                                                             *)

\* A number below the modulus is its own remainder.
LEMMA RemainderBelow == ASSUME NEW p \in Int, p >= 0, p < 65536 PROVE p % 65536 = p
OBVIOUS

\* PortKept: a port that addUpstream accepts is between 1 and 65535, so the
\* `port as u16` of parse_port_upstream keeps it.
THEOREM PortIsKept == RoutingSpec => []PortKept
<1>1. RoutingInv => PortKept
  <2> SUFFICES ASSUME RoutingInv, upstream # None, upstream.error = None
               PROVE  upstream.parsed.port = upstream.raw.port
    BY DEF PortKept
  <2>1. PICK raw \in UpstreamInputs :
          upstream = [raw |-> raw, error |-> UpstreamErrorCode(raw),
                      parsed |-> IF UpstreamErrorCode(raw) = None THEN parse_port_upstream(raw) ELSE None]
    BY DEF RoutingInv
  <2>2. UpstreamErrorCode(raw) = None
    BY <2>1
  <2>3. raw.port <= 65535
    BY <2>2, ErrorCodes DEF UpstreamErrorCode
  <2>4. raw.port \in Int /\ raw.port >= 0 /\ raw.port < 65536
    BY <2>3, UpstreamAssumption
  <2>5. raw.port % 65536 = raw.port
    BY <2>4, RemainderBelow
  <2>6. parse_port_upstream(raw).port = raw.port
    BY <2>5 DEF parse_port_upstream
  <2> QED BY <2>1, <2>2, <2>6
<1> QED BY <1>1, RoutingInductive, PTL

-----------------------------------------------------------------------------
(* Least and greatest positions                                            *)

\* A set of naturals has a least element.
LEMMA LeastOf ==
  ASSUME NEW S, S \subseteq Nat, S # {}
  PROVE  /\ Min(S) \in S /\ Min(S) \in Nat
         /\ \A y \in S : Min(S) <= y
<1>1. PICK x \in S : \A y \in S : <<y, x>> \notin OpToRel(<, Nat)
  BY WFMin, NatLessThanWellFounded
<1>2. \A y \in S : ~(y < x)
  <2> SUFFICES ASSUME NEW y \in S, y < x PROVE FALSE
    OBVIOUS
  <2>1. <<y, x>> \in Nat \X Nat
    OBVIOUS
  <2>2. <<y, x>> \in OpToRel(<, Nat)
    BY <2>1 DEF OpToRel
  <2> QED BY <2>2, <1>1
<1>3. \A y \in S : x =< y
  BY <1>2
<1> QED BY <1>3 DEF Min

\* A set of naturals with an upper bound has a greatest element.
LEMMA GreatestOf ==
  ASSUME NEW n \in Nat, NEW S, S \subseteq 0 .. n, S # {}
  PROVE  /\ Max(S) \in S /\ Max(S) \in Nat
         /\ \A y \in S : y <= Max(S)
<1> DEFINE T == {n - i : i \in S}
<1>0. \A i \in S : n - i \in Nat /\ i \in Nat
  OBVIOUS
<1>1. T \subseteq Nat /\ T # {} /\ \A i \in S : n - i \in T
  BY <1>0, Zenon
<1>a. \A t \in T : \E i \in S : t = n - i
  BY Zenon
<1> HIDE DEF T
<1>2. Min(T) \in T /\ Min(T) \in Nat /\ \A y \in T : Min(T) <= y
  BY <1>1, LeastOf
<1>3. PICK x \in S : Min(T) = n - x
  BY <1>2, <1>a
<1>4. \A y \in S : n - x <= n - y
  BY <1>1, <1>2, <1>3
<1>5. \A y \in S : x >= y
  BY <1>0, <1>4
<1>6. Max(S) \in S /\ \A y \in S : Max(S) >= y
  BY <1>5 DEF Max
<1> QED BY <1>0, <1>6

-----------------------------------------------------------------------------
(* The limits                                                              *)

\* The fields of the limits, in the order they are checked.
LEMMA LimitOrder ==
  /\ DOMAIN LimitFields = 1 .. 5
  /\ LimitFields[1] = "UriBytes" /\ LimitFields[2] = "RequestHeaders"
  /\ LimitFields[3] = "SingleHeaderBytes" /\ LimitFields[4] = "RequestHeaderBytes"
  /\ LimitFields[5] = "RequestBodyBytes"
  /\ ToSet(LimitFields) =
       {"UriBytes", "RequestHeaders", "SingleHeaderBytes", "RequestHeaderBytes", "RequestBodyBytes"}
<1>1. DOMAIN LimitFields = 1 .. 5
  BY DEF LimitFields
<1>2. /\ LimitFields[1] = "UriBytes" /\ LimitFields[2] = "RequestHeaders"
      /\ LimitFields[3] = "SingleHeaderBytes" /\ LimitFields[4] = "RequestHeaderBytes"
      /\ LimitFields[5] = "RequestBodyBytes"
  BY DEF LimitFields
<1>3. 1 .. 5 = {1, 2, 3, 4, 5}
  OBVIOUS
<1>4. ToSet(LimitFields) = {LimitFields[1], LimitFields[2], LimitFields[3], LimitFields[4], LimitFields[5]}
  BY <1>1, <1>3, Zenon DEF ToSet
<1> QED BY <1>1, <1>2, <1>4

\* request_limit_rejection_status is the status of the first failing check.
LEMMA FirstFailingCheck ==
  ASSUME NEW size, NEW limits
  PROVE  LET E(f) == Exceeds(size, limits, f) IN
         request_limit_rejection_status(size, limits) =
           IF E("UriBytes") THEN 414
           ELSE IF E("RequestHeaders") \/ E("SingleHeaderBytes") \/ E("RequestHeaderBytes") THEN 431
           ELSE IF E("RequestBodyBytes") THEN 413
           ELSE None
<1> DEFINE E(f) == Exceeds(size, limits, f)
           failing == {i \in DOMAIN LimitFields : E(LimitFields[i])}
<1>1. request_limit_rejection_status(size, limits) =
        IF failing = {} THEN None ELSE LimitStatus[LimitFields[Min(failing)]]
  BY DEF request_limit_rejection_status
<1>2. /\ 1 \in failing <=> E("UriBytes")
      /\ 2 \in failing <=> E("RequestHeaders")
      /\ 3 \in failing <=> E("SingleHeaderBytes")
      /\ 4 \in failing <=> E("RequestHeaderBytes")
      /\ 5 \in failing <=> E("RequestBodyBytes")
      /\ failing \subseteq 1 .. 5
  BY LimitOrder
<1>3. /\ LimitStatus[LimitFields[1]] = 414 /\ LimitStatus[LimitFields[2]] = 431
      /\ LimitStatus[LimitFields[3]] = 431 /\ LimitStatus[LimitFields[4]] = 431
      /\ LimitStatus[LimitFields[5]] = 413
  BY LimitOrder DEF LimitStatus
<1>a. failing \subseteq Nat /\ failing \subseteq {1, 2, 3, 4, 5}
  BY <1>2
<1> HIDE DEF failing, E
<1>4. CASE failing = {}
  BY <1>1, <1>2, <1>4 DEF E
<1>5. CASE failing # {}
  <2>1. Min(failing) \in failing /\ \A y \in failing : Min(failing) <= y
    BY <1>a, <1>5, LeastOf
  <2>2. Min(failing) \in {1, 2, 3, 4, 5}
    BY <2>1, <1>a
  <2>3. request_limit_rejection_status(size, limits) = LimitStatus[LimitFields[Min(failing)]]
    BY <1>1, <1>5
  <2>4. /\ Min(failing) = 1 <=> 1 \in failing
        /\ Min(failing) \in {2, 3, 4} <=> 1 \notin failing /\ (2 \in failing \/ 3 \in failing \/ 4 \in failing)
        /\ Min(failing) = 5 <=> 1 \notin failing /\ 2 \notin failing /\ 3 \notin failing /\ 4 \notin failing /\ 5 \in failing
    BY <2>1, <2>2
  <2> QED BY <2>2, <2>3, <2>4, <1>2, <1>3 DEF E
<1> QED BY <1>4, <1>5

\* The sections of the parsed options.
LEMMA ParsedSections ==
  ASSUME NEW o
  PROVE  /\ parse_proxy_options(o).limits = parse_limits_options(o.limits)
         /\ parse_proxy_options(o).sticky = parse_sticky_session_options(o.sticky)
         /\ parse_proxy_options(o).timeouts = parse_timeout_options(o.timeouts)
         /\ parse_proxy_options(o).applications =
              [i \in DOMAIN o.applications |-> parse_application_options(o.applications[i])]
         /\ parse_proxy_options(o).routes = build_router_config(parse_proxy_options(o).applications)
BY DEF parse_proxy_options

\* Options that made an object were accepted, and the object is their parse.
LEMMA CreatedIsAccepted ==
  ASSUME RoutingInv, created = "created"
  PROVE  options \in OptionInputs /\ ErrorCode(options) = None /\ proxy = parse_proxy_options(options)
BY ErrorCodes DEF RoutingInv

\* A check of the list fails exactly when the request is over a limit that
\* is in force.
LEMMA ExceedsIsOver ==
  ASSUME NEW o \in OptionInputs, NEW size, NEW f \in ToSet(LimitFields)
  PROVE  Exceeds(size, parse_limits_options(o.limits), f) <=>
           /\ o.limits # Null /\ (o.limits # None => o.limits[f] # Null)
           /\ size[f] # None
           /\ size[f] > IF o.limits = None THEN DefaultLimit[f] ELSE OrDefault(o.limits[f], DefaultLimit[f])
<1>1. parse_limits_options(o.limits)[f] = Limit(o.limits, f)
  BY DEF parse_limits_options
<1>2. DefaultLimit[f] # Null /\ None # Null
  BY DefaultsAssumption, MissingAssumption
<1> QED BY <1>1, <1>2 DEF Exceeds, Limit, OrDefault

\* No status is the missing value or stands for a panic.
LEMMA NoneIsNoStatus ==
  /\ None \notin {404, 413, 414, 431, 500}
  /\ Aborted \notin {None, 404, 413, 414, 431, 500}
BY MissingAssumption, AbortedAssumption

\* LimitsEnforced: request_filter refuses a request exactly when it is over a
\* limit in force, and the first check that fails chooses the status.
THEOREM LimitsAreEnforced == RoutingSpec => []LimitsEnforced
<1>1. RoutingInv => LimitsEnforced
  <2> SUFFICES ASSUME RoutingInv, request # None PROVE LimitsEnforced
    BY DEF LimitsEnforced
  <2> DEFINE Over(f) ==
        LET l == options.limits IN
          /\ l # Null /\ (l # None => l[f] # Null)
          /\ request.size[f] # None
          /\ request.size[f] > IF l = None THEN DefaultLimit[f] ELSE OrDefault(l[f], DefaultLimit[f])
  <2> DEFINE headers == \E f \in {"RequestHeaders", "SingleHeaderBytes", "RequestHeaderBytes"} : Over(f)
  <2> DEFINE E(f) == Exceeds(request.size, proxy.limits, f)
  <2>1. options \in OptionInputs /\ proxy.limits = parse_limits_options(options.limits)
    BY CreatedIsAccepted, ParsedSections DEF RoutingInv
  <2>2. \A f \in ToSet(LimitFields) : E(f) <=> Over(f)
    BY <2>1, ExceedsIsOver
  <2>3. Filtered(request)
    BY DEF RoutingInv
  <2>4. LET status == request_limit_rejection_status(request.size, proxy.limits) IN
          answer = status \/ (status = None /\ answer \in {None, Aborted, 404, 500})
    BY <2>3 DEF Filtered
  <2>5. request_limit_rejection_status(request.size, proxy.limits) =
           IF E("UriBytes") THEN 414
           ELSE IF E("RequestHeaders") \/ E("SingleHeaderBytes") \/ E("RequestHeaderBytes") THEN 431
           ELSE IF E("RequestBodyBytes") THEN 413
           ELSE None
    BY FirstFailingCheck
  <2>6. /\ E("UriBytes") <=> Over("UriBytes")
        /\ E("RequestHeaders") \/ E("SingleHeaderBytes") \/ E("RequestHeaderBytes") <=> headers
        /\ E("RequestBodyBytes") <=> Over("RequestBodyBytes")
    BY <2>2, LimitOrder
  <2>7. \A s \in {413, 414, 431} : s \notin {None, Aborted, 404, 500}
    BY NoneIsNoStatus
  <2> HIDE DEF E, Over, headers
  <2>8. /\ answer = 414 <=> Over("UriBytes")
        /\ answer = 431 <=> headers /\ ~Over("UriBytes")
        /\ answer = 413 <=> Over("RequestBodyBytes") /\ ~headers /\ ~Over("UriBytes")
    BY <2>4, <2>5, <2>6, <2>7
  <2> QED BY <2>8 DEF LimitsEnforced, Over, headers
<1> QED BY <1>1, RoutingInductive, PTL

-----------------------------------------------------------------------------
(* What the constructor accepts                                            *)

\* The parsed options of an accepted object are usable.
LEMMA AcceptedIsUsable ==
  ASSUME NEW o \in OptionInputs, ErrorCode(o) = None
  PROVE  LET p == parse_proxy_options(o) IN
    /\ p.sticky.ttl_ms > 0 /\ p.sticky.max_entries > 0
    /\ \A f \in ToSet(LimitFields) : p.limits[f] # Null => p.limits[f] > 0
    /\ \A f \in TimeoutFields : p.timeouts[f] > 0
    /\ \A app \in ToSet(p.applications) :
         app.routing # "Subdomain" /\ verify_hostname(app) # None => is_hostname_like(verify_hostname(app))
<1>1. /\ \A app \in ToSet(o.applications) : ApplicationAccepted(app)
      /\ validate_applications(o.applications)
      /\ StickyAccepted(o.sticky) /\ LimitsAccepted(o.limits) /\ TimeoutsAccepted(o.timeouts)
  BY ErrorCodes DEF ErrorCode
<1>2. parse_sticky_session_options(o.sticky).ttl_ms > 0 /\ parse_sticky_session_options(o.sticky).max_entries > 0
  <2> DEFINE p == parse_sticky_session_options(o.sticky)
  <2>1. p.ttl_ms # 0 /\ p.max_entries # 0
    BY <1>1 DEF StickyAccepted
  <2>2. p.ttl_ms \in Nat /\ p.max_entries \in Nat
    <3>1. CASE o.sticky = None
      BY <3>1, DefaultsAssumption DEF parse_sticky_session_options
    <3>2. CASE o.sticky # None
      <4>1. o.sticky \in RawSticky
        BY <3>2, OptionsAssumption DEF Optional
      <4>2. /\ p.ttl_ms = OrDefault(o.sticky.ttl_ms, DefaultSticky.ttl_ms)
            /\ p.max_entries = OrDefault(o.sticky.max_entries, DefaultSticky.max_entries)
        BY <3>2 DEF parse_sticky_session_options
      <4> QED BY <4>1, <4>2, DefaultsAssumption DEF RawSticky, Optional, OrDefault
    <3> QED BY <3>1, <3>2
  <2> HIDE DEF p
  <2>3. p.ttl_ms > 0 /\ p.max_entries > 0
    BY <2>1, <2>2
  <2> QED BY <2>3 DEF p
<1>3. \A f \in ToSet(LimitFields) : parse_limits_options(o.limits)[f] # Null => parse_limits_options(o.limits)[f] > 0
  <2> SUFFICES ASSUME NEW f \in ToSet(LimitFields), Limit(o.limits, f) # Null
               PROVE  Limit(o.limits, f) > 0
    BY DEF parse_limits_options
  <2>1. DefaultLimit[f] \in Nat /\ DefaultLimit[f] > 0
    BY DefaultsAssumption
  <2>2. CASE o.limits \in {None, Null}
    BY <2>1, <2>2, MissingAssumption DEF Limit
  <2>3. CASE o.limits \notin {None, Null}
    <3>1. o.limits[f] \in {None, Null} \cup Nat /\ o.limits[f] # 0
      BY <2>3, <1>1, OptionsAssumption DEF LimitsAccepted
    <3> QED BY <3>1, <2>1, <2>3 DEF Limit, OrDefault
  <2> QED BY <2>2, <2>3
<1>4. \A f \in TimeoutFields : parse_timeout_options(o.timeouts)[f] > 0
  <2> SUFFICES ASSUME NEW f \in TimeoutFields
               PROVE  (IF o.timeouts = None THEN DefaultTimeout[f] ELSE OrDefault(o.timeouts[f], DefaultTimeout[f])) > 0
    BY DEF parse_timeout_options
  <2>1. DefaultTimeout[f] \in Nat /\ DefaultTimeout[f] > 0
    BY DefaultsAssumption
  <2>2. CASE o.timeouts = None
    BY <2>1, <2>2
  <2>3. CASE o.timeouts # None
    <3>1. o.timeouts[f] \in {None} \cup Nat /\ o.timeouts[f] # 0
      BY <2>3, <1>1, OptionsAssumption DEF TimeoutsAccepted, Optional
    <3> QED BY <3>1, <2>1, <2>3 DEF OrDefault
  <2> QED BY <2>2, <2>3
<1>5. ASSUME NEW i \in DOMAIN o.applications,
             parse_application_options(o.applications[i]).routing # "Subdomain",
             verify_hostname(parse_application_options(o.applications[i])) # None
      PROVE  is_hostname_like(verify_hostname(parse_application_options(o.applications[i])))
  <2> DEFINE app == o.applications[i]
  <2>1. app \in RawApplication
    BY OptionsAssumption, ElementOfSeq, LenProperties
  <2>2. parse_application_options(app).sni = parse_application_sni(app.sni)
    BY <2>1 DEF parse_application_options, RawApplication
  <2>3. verify_hostname(parse_application_options(app)) = parse_application_sni(app.sni)
    BY <1>5, <2>2 DEF verify_hostname
  <2>4. SniAccepted(app.sni)
    BY <1>1 DEF ApplicationAccepted, ToSet
  <2> QED BY <1>5, <2>3, <2>4 DEF parse_application_sni, SniAccepted
<1> DEFINE apps == [i \in DOMAIN o.applications |-> parse_application_options(o.applications[i])]
<1>6. \A app \in ToSet(apps) :
        app.routing # "Subdomain" /\ verify_hostname(app) # None => is_hostname_like(verify_hostname(app))
  BY <1>5, Zenon DEF ToSet
<1> HIDE DEF apps
<1> QED BY <1>2, <1>3, <1>4, <1>6, ParsedSections DEF apps

\* AcceptedMeansUsable: what the constructor accepts is what the rest of the
\* proxy relies on.
THEOREM AcceptedOptionsAreUsable == RoutingSpec => []AcceptedMeansUsable
<1>1. RoutingInv => AcceptedMeansUsable
  BY CreatedIsAccepted, AcceptedIsUsable DEF AcceptedMeansUsable
<1> QED BY <1>1, RoutingInductive, PTL

-----------------------------------------------------------------------------
(* The route tables                                                        *)

\* Parsing an application changes its host name for SNI and nothing else.
LEMMA ParsedApplication ==
  ASSUME NEW o \in OptionInputs
  PROVE  LET parsed == parse_proxy_options(o).applications IN
         /\ DOMAIN parsed = DOMAIN o.applications /\ DOMAIN o.applications = 1 .. Len(o.applications)
         /\ Len(o.applications) \in Nat
         /\ \A i \in DOMAIN o.applications :
              /\ o.applications[i] \in RawApplication
              /\ parsed[i].name = o.applications[i].name
              /\ parsed[i].routing = o.applications[i].routing
              /\ parsed[i].route_name = o.applications[i].route_name
<1>1. /\ DOMAIN o.applications = 1 .. Len(o.applications) /\ Len(o.applications) \in Nat
      /\ \A i \in DOMAIN o.applications : o.applications[i] \in RawApplication
  BY OptionsAssumption, ElementOfSeq, LenProperties
<1>2. ASSUME NEW app \in RawApplication
      PROVE  LET p == parse_application_options(app) IN
             p.name = app.name /\ p.routing = app.routing /\ p.route_name = app.route_name
  BY DEF parse_application_options, RawApplication
<1> DEFINE parsed == parse_proxy_options(o).applications
<1>3. parsed = [i \in DOMAIN o.applications |-> parse_application_options(o.applications[i])]
  BY ParsedSections
<1> HIDE DEF parsed
<1>4. DOMAIN parsed = DOMAIN o.applications
  BY <1>3
<1>5. \A i \in DOMAIN o.applications : parsed[i] = parse_application_options(o.applications[i])
  BY <1>3
<1> QED BY <1>1, <1>2, <1>4, <1>5 DEF parsed

\* The route tables of an accepted list of applications: every key is that of
\* an application, which the table names.
LEMMA TablesNameApplications ==
  ASSUME NEW o \in OptionInputs
  PROVE  LET routes == parse_proxy_options(o).routes
             Routed(i, routing) == i \in DOMAIN o.applications /\ o.applications[i].routing = routing
         IN
         /\ \A k \in DOMAIN routes.subdomain_routes :
              \E i : /\ Routed(i, "Subdomain") /\ SubdomainKey(o.applications[i]) = k
                    /\ routes.subdomain_routes[k] = o.applications[i].name
         /\ \A i : Routed(i, "Subdomain") => SubdomainKey(o.applications[i]) \in DOMAIN routes.subdomain_routes
         /\ \A k \in DOMAIN routes.path_routes :
              \E i : /\ Routed(i, "Path") /\ o.applications[i].route_name = k
                    /\ routes.path_routes[k] = o.applications[i].name
         /\ \A i : Routed(i, "Path") => o.applications[i].route_name \in DOMAIN routes.path_routes
         /\ \/ routes.default_app = None /\ \A i : ~Routed(i, "Default")
            \/ \E i : Routed(i, "Default") /\ routes.default_app = o.applications[i].name
<1> DEFINE parsed == parse_proxy_options(o).applications
           routes == parse_proxy_options(o).routes
           n == Len(o.applications)
           Of(routing) == {i \in DOMAIN parsed : parsed[i].routing = routing}
<1>0. /\ DOMAIN parsed = DOMAIN o.applications /\ DOMAIN parsed = 1 .. n /\ n \in Nat
      /\ \A i \in DOMAIN parsed :
           /\ parsed[i].name = o.applications[i].name
           /\ parsed[i].routing = o.applications[i].routing
           /\ parsed[i].route_name = o.applications[i].route_name
  BY ParsedApplication
<1>1. /\ routes.subdomain_routes = RouteTable(parsed, "Subdomain", SubdomainKey)
      /\ routes.path_routes = RouteTable(parsed, "Path", LAMBDA app : app.route_name)
      /\ routes.default_app = IF Of("Default") = {} THEN None ELSE parsed[Max(Of("Default"))].name
  <2>1. routes = build_router_config(parsed)
    BY ParsedSections
  <2> HIDE DEF parsed, routes
  <2> QED BY <2>1, Zenon DEF build_router_config
<1> HIDE DEF parsed, routes, n
<1>2. ASSUME NEW S, S \subseteq DOMAIN parsed, S # {}
      PROVE  Max(S) \in S
  <2>1. S \subseteq 0 .. n
    BY <1>0, <1>2
  <2> QED BY <1>0, <1>2, <2>1, GreatestOf
<1>3. \A i \in DOMAIN parsed : SubdomainKey(parsed[i]) = SubdomainKey(o.applications[i])
  BY <1>0 DEF SubdomainKey
<1>4. /\ \A k \in DOMAIN routes.subdomain_routes :
           \E i \in DOMAIN parsed : /\ parsed[i].routing = "Subdomain" /\ SubdomainKey(parsed[i]) = k
                                   /\ routes.subdomain_routes[k] = parsed[i].name
      /\ \A i \in Of("Subdomain") : SubdomainKey(parsed[i]) \in DOMAIN routes.subdomain_routes
  <2> DEFINE With(k) == {i \in Of("Subdomain") : SubdomainKey(parsed[i]) = k}
             keys == {SubdomainKey(parsed[i]) : i \in Of("Subdomain")}
  <2>1. routes.subdomain_routes = [k \in keys |-> parsed[Max(With(k))].name]
    BY <1>1, Zenon DEF RouteTable
  <2>2. \A k \in keys : With(k) # {} /\ With(k) \subseteq DOMAIN parsed
    BY Zenon
  <2>3. \A k \in keys : Max(With(k)) \in With(k)
    BY <2>2, <1>2, Zenon
  <2>4. \A i \in Of("Subdomain") : SubdomainKey(parsed[i]) \in keys
    BY Zenon
  <2> HIDE DEF keys
  <2> QED BY <2>1, <2>3, <2>4
<1>5. /\ \A k \in DOMAIN routes.path_routes :
           \E i \in DOMAIN parsed : /\ parsed[i].routing = "Path" /\ parsed[i].route_name = k
                                   /\ routes.path_routes[k] = parsed[i].name
      /\ \A i \in Of("Path") : parsed[i].route_name \in DOMAIN routes.path_routes
  <2> DEFINE With(k) == {i \in Of("Path") : parsed[i].route_name = k}
             keys == {parsed[i].route_name : i \in Of("Path")}
  <2>1. routes.path_routes = [k \in keys |-> parsed[Max(With(k))].name]
    BY <1>1, Zenon DEF RouteTable
  <2>2. \A k \in keys : With(k) # {} /\ With(k) \subseteq DOMAIN parsed
    BY Zenon
  <2>3. \A k \in keys : Max(With(k)) \in With(k)
    BY <2>2, <1>2, Zenon
  <2>4. \A i \in Of("Path") : parsed[i].route_name \in keys
    BY Zenon
  <2> HIDE DEF keys
  <2> QED BY <2>1, <2>3, <2>4
<1>6. \/ routes.default_app = None /\ Of("Default") = {}
      \/ \E i \in DOMAIN parsed : parsed[i].routing = "Default" /\ routes.default_app = parsed[i].name
  <2>1. Of("Default") # {} => Max(Of("Default")) \in Of("Default")
    BY <1>2
  <2> QED BY <1>1, <2>1
<1> DEFINE Routed(i, routing) == i \in DOMAIN o.applications /\ o.applications[i].routing = routing
<1>9. /\ \A k \in DOMAIN routes.subdomain_routes :
           \E i : /\ Routed(i, "Subdomain") /\ SubdomainKey(o.applications[i]) = k
                 /\ routes.subdomain_routes[k] = o.applications[i].name
      /\ \A i : Routed(i, "Subdomain") => SubdomainKey(o.applications[i]) \in DOMAIN routes.subdomain_routes
  BY <1>0, <1>3, <1>4
<1>10. /\ \A k \in DOMAIN routes.path_routes :
            \E i : /\ Routed(i, "Path") /\ o.applications[i].route_name = k
                  /\ routes.path_routes[k] = o.applications[i].name
       /\ \A i : Routed(i, "Path") => o.applications[i].route_name \in DOMAIN routes.path_routes
  BY <1>0, <1>5
<1>11. \/ routes.default_app = None /\ \A i : ~Routed(i, "Default")
       \/ \E i : Routed(i, "Default") /\ routes.default_app = o.applications[i].name
  BY <1>0, <1>6
<1> QED BY <1>9, <1>10, <1>11, Zenon DEF routes

\* The i-th application's route is the subdomain h, the path segment seg, or
\* the default route.
OwnsSubdomain(apps, h, i) ==
  i \in DOMAIN apps /\ apps[i].routing = "Subdomain" /\ SubdomainKey(apps[i]) = h
OwnsPath(apps, seg, i) ==
  i \in DOMAIN apps /\ apps[i].routing = "Path" /\ apps[i].route_name = seg
OwnsDefault(apps, i) == i \in DOMAIN apps /\ apps[i].routing = "Default"

\* The route of a request in terms of the applications: a subdomain's owner,
\* else a path's owner, else a default application, else nobody.
RouteChoice(apps, h, seg, route) ==
  \/ /\ \E i : OwnsSubdomain(apps, h, i) /\ route.app_name = apps[i].name
     /\ route.path_rewrite_segment = None
  \/ /\ \A i : ~OwnsSubdomain(apps, h, i)
     /\ \E i : OwnsPath(apps, seg, i) /\ route.app_name = apps[i].name
     /\ route.path_rewrite_segment = seg
  \/ /\ \A i : ~OwnsSubdomain(apps, h, i) /\ ~OwnsPath(apps, seg, i)
     /\ \E i : OwnsDefault(apps, i) /\ route.app_name = apps[i].name
     /\ route.path_rewrite_segment = None
  \/ /\ \A i : ~OwnsSubdomain(apps, h, i) /\ ~OwnsPath(apps, seg, i) /\ ~OwnsDefault(apps, i)
     /\ route.app_name = None

\* resolve_route makes that choice.
LEMMA ResolvedRoute ==
  ASSUME NEW o \in OptionInputs, NEW h, NEW seg
  PROVE  RouteChoice(o.applications, h, seg, resolve_route(parse_proxy_options(o).routes, h, seg))
<1> DEFINE routes == parse_proxy_options(o).routes
           route == resolve_route(routes, h, seg)
           apps == o.applications
<1>1. /\ h \in DOMAIN routes.subdomain_routes =>
           \E i : OwnsSubdomain(apps, h, i) /\ routes.subdomain_routes[h] = apps[i].name
      /\ \A i : OwnsSubdomain(apps, h, i) => h \in DOMAIN routes.subdomain_routes
  BY TablesNameApplications DEF OwnsSubdomain
<1>2. /\ seg \in DOMAIN routes.path_routes =>
           \E i : OwnsPath(apps, seg, i) /\ routes.path_routes[seg] = apps[i].name
      /\ \A i : OwnsPath(apps, seg, i) => seg \in DOMAIN routes.path_routes
  BY TablesNameApplications DEF OwnsPath
<1>3. \/ routes.default_app = None /\ \A i : ~OwnsDefault(apps, i)
      \/ \E i : OwnsDefault(apps, i) /\ routes.default_app = apps[i].name
  BY TablesNameApplications DEF OwnsDefault
<1> SUFFICES RouteChoice(apps, h, seg, route)
  OBVIOUS
<1> HIDE DEF routes, apps
<1>4. CASE h \in DOMAIN routes.subdomain_routes
  <2>1. route.app_name = routes.subdomain_routes[h] /\ route.path_rewrite_segment = None
    BY <1>4 DEF resolve_route
  <2> HIDE DEF route
  <2> QED BY <1>1, <1>4, <2>1 DEF RouteChoice
<1>5. CASE h \notin DOMAIN routes.subdomain_routes /\ seg \in DOMAIN routes.path_routes
  <2>1. route.app_name = routes.path_routes[seg] /\ route.path_rewrite_segment = seg
    BY <1>5 DEF resolve_route
  <2> HIDE DEF route
  <2> QED BY <1>1, <1>2, <1>5, <2>1 DEF RouteChoice
<1>6. CASE h \notin DOMAIN routes.subdomain_routes /\ seg \notin DOMAIN routes.path_routes
  <2>1. route.app_name = routes.default_app /\ route.path_rewrite_segment = None
    BY <1>6 DEF resolve_route
  <2> HIDE DEF route
  <2> QED BY <1>1, <1>2, <1>3, <1>6, <2>1 DEF RouteChoice
<1> QED BY <1>4, <1>5, <1>6

\* A request that request_filter looked at has the route of its host and its
\* path.
LEMMA FilteredRoute ==
  ASSUME RoutingInv, request # None
  PROVE  /\ options \in OptionInputs /\ ErrorCode(options) = None
         /\ request \in RequestInputs /\ Filtered(request)
         /\ RouteChoice(options.applications, extract_host(request.host),
                        extract_first_path_segment(PathOf(request.target)),
                        Route(request.host, request.target))
<1>1. /\ options \in OptionInputs /\ ErrorCode(options) = None
      /\ proxy = parse_proxy_options(options)
      /\ request \in RequestInputs /\ Filtered(request)
  BY CreatedIsAccepted DEF RoutingInv
<1> DEFINE h == extract_host(request.host)
           seg == extract_first_path_segment(PathOf(request.target))
<1>2. Route(request.host, request.target) = resolve_route(parse_proxy_options(options).routes, h, seg)
  BY <1>1 DEF Route
<1> HIDE DEF h, seg
<1>3. RouteChoice(options.applications, h, seg, resolve_route(parse_proxy_options(options).routes, h, seg))
  BY <1>1, ResolvedRoute, Zenon
<1> QED BY <1>1, <1>2, <1>3, Zenon DEF h, seg

\* RoutingTypeOK: the constructor ends with one of its codes, a request is
\* answered with one of five statuses or aborted, and one that is let through is
\* routed to an application of the options.
THEOREM RoutingTypeCorrect == RoutingSpec => []RoutingTypeOK
<1>1. RoutingInv => RoutingTypeOK
  <2> SUFFICES ASSUME RoutingInv PROVE RoutingTypeOK
    OBVIOUS
  <2>1. /\ options \in OptionInputs
        /\ created \in {None, "created", "InvalidApplicationOptions", "InvalidProxyOptions"}
        /\ request \in RequestInputs \cup {None}
    BY ErrorCodes DEF RoutingInv
  <2>2. answer \in {None, Aborted, 404, 413, 414, 431, 500}
    <3>1. CASE request = None
      BY <3>1 DEF RoutingInv
    <3>2. CASE request # None
      <4>1. Filtered(request)
        BY <3>2 DEF RoutingInv
      <4>2. answer \in {request_limit_rejection_status(request.size, proxy.limits),
                        None, Aborted, 404, 500}
        BY <4>1 DEF Filtered
      <4> QED BY <4>2, FirstFailingCheck
    <3> QED BY <3>1, <3>2
  <2>3. ctx # None => \E app \in ToSet(options.applications) : ctx.app_name = app.name
    <3> SUFFICES ASSUME ctx # None PROVE \E app \in ToSet(options.applications) : ctx.app_name = app.name
      OBVIOUS
    <3>1. request # None
      BY DEF RoutingInv
    <3> DEFINE route == Route(request.host, request.target)
    <3>2. ctx.app_name = route.app_name /\ route.app_name # None
      BY <3>1, FilteredRoute DEF Filtered
    <3>3. \E i \in DOMAIN options.applications : route.app_name = options.applications[i].name
      BY <3>1, <3>2, FilteredRoute DEF RouteChoice, OwnsSubdomain, OwnsPath, OwnsDefault
    <3> QED BY <3>2, <3>3 DEF ToSet
  <2>4. upstream # None => upstream.error \in {None, "InvalidProxyOptions", "UnsupportedUpstreamType"}
    <3>1. \A raw : UpstreamErrorCode(raw) \in {None, "InvalidProxyOptions", "UnsupportedUpstreamType"}
      BY DEF UpstreamErrorCode
    <3> QED BY <3>1 DEF RoutingInv
  <2> QED BY <2>1, <2>2, <2>3, <2>4 DEF RoutingTypeOK
<1> QED BY <1>1, RoutingInductive, PTL

-----------------------------------------------------------------------------
(* Cutting strings                                                         *)

\* e is where the piece of s that comes after position i ends: at the next
\* c, or behind the last character.
PieceEnd(s, c, i, e) ==
  /\ e \in i + 1 .. Len(s) + 1
  /\ e = Len(s) + 1 \/ s[e] = c
  /\ \A j \in i + 1 .. e - 1 : s[j] # c

\* A part of a string is a string, with the characters it is cut from.
LEMMA PartOf ==
  ASSUME NEW s \in Text, NEW m \in Nat, NEW e \in Nat, 1 <= m, m <= e, e <= Len(s) + 1
  PROVE  /\ SubSeq(s, m, e - 1) \in Text
         /\ Len(SubSeq(s, m, e - 1)) = e - m
         /\ \A i \in 1 .. e - m : SubSeq(s, m, e - 1)[i] = s[m + i - 1]
<1>1. Len(s) \in Nat /\ \A i \in 1 .. Len(s) : s[i] \in STRING
  BY ElementOfSeq, LenProperties DEF Text
<1>2. m \in Int /\ e - 1 \in Int /\ \A i \in m .. e - 1 : s[i] \in STRING
  BY <1>1
<1>3. /\ SubSeq(s, m, e - 1) \in Seq(STRING)
      /\ Len(SubSeq(s, m, e - 1)) = IF m <= e - 1 THEN (e - 1) - m + 1 ELSE 0
      /\ \A i \in 1 .. (e - 1) - m + 1 : SubSeq(s, m, e - 1)[i] = s[m + i - 1]
  BY <1>2, SubSeqProperties
<1> QED BY <1>1, <1>3 DEF Text

\* The same, by the last position.
LEMMA PartUpTo ==
  ASSUME NEW s \in Text, NEW m \in Nat, NEW n \in Nat, 1 <= m, m <= n + 1, n <= Len(s)
  PROVE  /\ SubSeq(s, m, n) \in Text
         /\ Len(SubSeq(s, m, n)) = n + 1 - m
         /\ \A i \in 1 .. n + 1 - m : SubSeq(s, m, n)[i] = s[m + i - 1]
<1> DEFINE e == n + 1
<1>1. e \in Nat /\ e - 1 = n /\ m <= e /\ e <= Len(s) + 1
  BY LenProperties DEF Text
<1> HIDE DEF e
<1>2. /\ SubSeq(s, m, e - 1) \in Text
      /\ Len(SubSeq(s, m, e - 1)) = e - m
      /\ \A i \in 1 .. e - m : SubSeq(s, m, e - 1)[i] = s[m + i - 1]
  BY <1>1, PartOf
<1> QED BY <1>1, <1>2 DEF e

\* A string has as many characters as its domain says.
LEMMA TextFacts ==
  ASSUME NEW s \in Text
  PROVE  /\ Len(s) \in Nat /\ DOMAIN s = 1 .. Len(s)
         /\ \A i \in 1 .. Len(s) : s[i] \in STRING
         /\ s = <<>> <=> Len(s) = 0
<1>1. /\ Len(s) \in Nat /\ DOMAIN s = 1 .. Len(s)
      /\ \A i \in 1 .. Len(s) : s[i] \in STRING
  BY ElementOfSeq, LenProperties DEF Text
<1>2. s # <<>> => Len(s) # 0
  BY EmptySeq DEF Text
<1>3. s = <<>> => Len(s) = 0
  OBVIOUS
<1> QED BY <1>1, <1>2, <1>3

\* Strings with the same characters are the same.
LEMMA TextEqual ==
  ASSUME NEW s \in Text, NEW t \in Text,
         Len(s) = Len(t), \A i \in 1 .. Len(s) : s[i] = t[i]
  PROVE  s = t
BY SeqEqual DEF Text

\* The pieces of split, by their ends.
LEMMA SplitPieces ==
  ASSUME NEW s \in Text, NEW c
  PROVE  /\ DOMAIN split(s, c) = {0} \cup {i \in 1 .. Len(s) : s[i] = c}
         /\ \A i \in DOMAIN split(s, c) : \A e : PieceEnd(s, c, i, e) => split(s, c)[i] = SubSeq(s, i + 1, e - 1)
         /\ \A i \in DOMAIN split(s, c) : \E e : PieceEnd(s, c, i, e)
<1> DEFINE cuts == {i \in DOMAIN s : s[i] = c}
           Ends(i) == {j \in cuts : j > i} \cup {Len(s) + 1}
<1>1. Len(s) \in Nat /\ DOMAIN s = 1 .. Len(s)
  BY TextFacts
<1>2. split(s, c) = [i \in {0} \cup cuts |-> SubSeq(s, i + 1, Min(Ends(i)) - 1)]
  BY DEF split
<1>3. DOMAIN split(s, c) = {0} \cup {i \in 1 .. Len(s) : s[i] = c}
  BY <1>1, <1>2
<1>4. ASSUME NEW i \in DOMAIN split(s, c)
      PROVE  /\ split(s, c)[i] = SubSeq(s, i + 1, Min(Ends(i)) - 1)
             /\ PieceEnd(s, c, i, Min(Ends(i)))
  <2>1. i \in Nat /\ i <= Len(s) /\ i \in {0} \cup cuts
    BY <1>1, <1>3, <1>4
  <2>2. Ends(i) \subseteq Nat /\ Ends(i) # {} /\ \A j \in Ends(i) : i + 1 <= j /\ j <= Len(s) + 1
    BY <1>1, <2>1
  <2>3. Min(Ends(i)) \in Ends(i) /\ \A j \in Ends(i) : Min(Ends(i)) <= j
    BY <2>2, LeastOf
  <2>4. \A j \in i + 1 .. Len(s) : s[j] = c => j \in Ends(i)
    BY <1>1, <2>1
  <2>5. \A j \in Ends(i) : j = Len(s) + 1 \/ s[j] = c
    BY <1>1
  <2>6. split(s, c)[i] = SubSeq(s, i + 1, Min(Ends(i)) - 1)
    BY <1>2, <2>1
  <2> HIDE DEF Ends, cuts
  <2>7. Min(Ends(i)) \in i + 1 .. Len(s) + 1
    BY <1>1, <2>1, <2>2, <2>3
  <2>8. \A j \in i + 1 .. Min(Ends(i)) - 1 : s[j] # c
    BY <1>1, <2>1, <2>3, <2>4, <2>7
  <2> QED BY <2>3, <2>5, <2>6, <2>7, <2>8 DEF PieceEnd
<1>5. ASSUME NEW i \in DOMAIN split(s, c), NEW e, NEW d, PieceEnd(s, c, i, e), PieceEnd(s, c, i, d)
      PROVE  e = d
  <2>1. i \in Nat
    BY <1>1, <1>3, <1>5
  <2>2. e \in Nat /\ d \in Nat /\ i + 1 <= e /\ i + 1 <= d /\ e <= Len(s) + 1 /\ d <= Len(s) + 1
    BY <1>1, <2>1, <1>5 DEF PieceEnd
  <2>3. ~(e < d) /\ ~(d < e)
    BY <1>1, <2>1, <2>2, <1>5 DEF PieceEnd
  <2> QED BY <2>2, <2>3
<1> QED BY <1>3, <1>4, <1>5

\* The piece after a position, by its end.
LEMMA PieceIs ==
  ASSUME NEW s \in Text, NEW c, NEW i \in DOMAIN split(s, c), NEW e, PieceEnd(s, c, i, e)
  PROVE  split(s, c)[i] = SubSeq(s, i + 1, e - 1)
<1>1. \A k \in DOMAIN split(s, c) : \A d : PieceEnd(s, c, k, d) => split(s, c)[k] = SubSeq(s, k + 1, d - 1)
  BY SplitPieces, Zenon
<1> QED BY <1>1, Zenon

\* Target t is its path before position e and its query from e on.
CutAt(t, e) ==
  /\ e \in Nat /\ 1 <= e /\ e <= Len(t) + 1
  /\ PathOf(t) \in Text /\ Len(PathOf(t)) = e - 1
  /\ \A i \in 1 .. e - 1 : PathOf(t)[i] = t[i] /\ PathOf(t)[i] # "?"
  /\ QueryOf(t) \in Text /\ Len(QueryOf(t)) = Len(t) + 1 - e
  /\ \A i \in 1 .. Len(t) + 1 - e : QueryOf(t)[i] = t[e + i - 1]

\* The path of a target ends before its first question mark.
LEMMA PathEnds ==
  ASSUME NEW t \in Text, NEW e, PieceEnd(t, "?", 0, e)
  PROVE  CutAt(t, e)
<1>1. Len(t) \in Nat
  BY TextFacts
<1>2. e \in Nat /\ 1 <= e /\ e <= Len(t) + 1
  BY <1>1 DEF PieceEnd
<1>3. 0 \in DOMAIN split(t, "?")
  BY SplitPieces
<1>4. PathOf(t) = SubSeq(t, 1, e - 1)
  <2>1. split(t, "?")[0] = SubSeq(t, 0 + 1, e - 1)
    BY <1>3, PieceIs, Zenon
  <2> QED BY <2>1 DEF PathOf
<1>5. /\ PathOf(t) \in Text /\ Len(PathOf(t)) = e - 1
      /\ \A i \in 1 .. e - 1 : PathOf(t)[i] = t[i]
  <2>1. /\ SubSeq(t, 1, e - 1) \in Text /\ Len(SubSeq(t, 1, e - 1)) = e - 1
        /\ \A i \in 1 .. e - 1 : SubSeq(t, 1, e - 1)[i] = t[1 + i - 1]
    BY <1>1, <1>2, PartOf
  <2> QED BY <1>2, <1>4, <2>1
<1>6. \A i \in 1 .. e - 1 : t[i] # "?"
  BY <1>2 DEF PieceEnd
<1>7. QueryOf(t) = SubSeq(t, e, Len(t))
  BY <1>2, <1>5 DEF QueryOf
<1>8. /\ QueryOf(t) \in Text /\ Len(QueryOf(t)) = Len(t) + 1 - e
      /\ \A i \in 1 .. Len(t) + 1 - e : QueryOf(t)[i] = t[e + i - 1]
  BY <1>1, <1>2, <1>7, PartUpTo
<1> QED BY <1>2, <1>5, <1>6, <1>8 DEF CutAt

\* A target is its path and its query: what PathOf and QueryOf cut a string
\* into has no question mark in the path and starts the query with one.
LEMMA PathAndQuery ==
  ASSUME NEW t \in Text
  PROVE  /\ PathOf(t) \in Text /\ QueryOf(t) \in Text
         /\ \A i \in 1 .. Len(PathOf(t)) : PathOf(t)[i] # "?"
         /\ QueryOf(t) = <<>> \/ QueryOf(t)[1] = "?"
         /\ t # <<>> /\ t[1] # "?" => Len(PathOf(t)) >= 1 /\ PathOf(t)[1] = t[1]
<1>1. PICK e : PieceEnd(t, "?", 0, e)
  BY SplitPieces
<1>2. CutAt(t, e)
  BY <1>1, PathEnds
<1> USE DEF CutAt
<1>3. Len(t) \in Nat /\ (t = <<>> <=> Len(t) = 0)
  BY TextFacts
<1>4. QueryOf(t) = <<>> <=> Len(QueryOf(t)) = 0
  BY <1>2, TextFacts
<1>5. QueryOf(t) = <<>> \/ QueryOf(t)[1] = "?"
  BY <1>1, <1>2, <1>3, <1>4 DEF PieceEnd
<1>6. t # <<>> /\ t[1] # "?" => Len(PathOf(t)) >= 1 /\ PathOf(t)[1] = t[1]
  BY <1>1, <1>2, <1>3 DEF PieceEnd
<1> QED BY <1>2, <1>5, <1>6

\* A text that reads p and then q, p without a question mark and q empty or
\* starting with one, is cut into p and q.
LEMMA CutAtQuery ==
  ASSUME NEW p \in Text, NEW q \in Text, NEW t \in Text,
         \A i \in 1 .. Len(p) : p[i] # "?", q = <<>> \/ q[1] = "?",
         Len(t) = Len(p) + Len(q),
         \A i \in 1 .. Len(p) + Len(q) : t[i] = IF i <= Len(p) THEN p[i] ELSE q[i - Len(p)]
  PROVE  PathOf(t) = p /\ QueryOf(t) = q
<1>2. Len(p) \in Nat /\ Len(q) \in Nat /\ (q = <<>> <=> Len(q) = 0)
  BY TextFacts
<1>a. PICK e : PieceEnd(t, "?", 0, e)
  BY SplitPieces
<1>3. e = Len(p) + 1
  BY <1>2, <1>a DEF PieceEnd
<1>4. CutAt(t, e)
  BY <1>a, PathEnds
<1> USE DEF CutAt
<1>5. PathOf(t) = p
  <2>1. Len(PathOf(t)) = Len(p) /\ \A i \in 1 .. Len(PathOf(t)) : PathOf(t)[i] = p[i]
    BY <1>2, <1>3, <1>4
  <2> QED BY <1>4, <2>1, TextEqual
<1>6. QueryOf(t) = q
  <2>1. Len(QueryOf(t)) = Len(q)
    BY <1>2, <1>3, <1>4
  <2>2. ASSUME NEW i \in 1 .. Len(q) PROVE QueryOf(t)[i] = q[i]
    <3>1. QueryOf(t)[i] = t[e + i - 1]
      BY <1>4, <2>1
    <3>2. e + i - 1 \in 1 .. Len(p) + Len(q) /\ ~(e + i - 1 <= Len(p)) /\ (e + i - 1) - Len(p) = i
      BY <1>2, <1>3
    <3>3. t[e + i - 1] = q[(e + i - 1) - Len(p)]
      BY <3>2
    <3> QED BY <3>1, <3>2, <3>3
  <2> QED BY <1>4, <2>1, <2>2, TextEqual
<1> QED BY <1>5, <1>6

\* A path and a query put together are cut at the same place again.
LEMMA PathAndQueryOfConcat ==
  ASSUME NEW p \in Text, NEW q \in Text,
         \A i \in 1 .. Len(p) : p[i] # "?", q = <<>> \/ q[1] = "?"
  PROVE  PathOf(p \o q) = p /\ QueryOf(p \o q) = q
<1>1. /\ p \o q \in Text /\ Len(p \o q) = Len(p) + Len(q)
      /\ \A i \in 1 .. Len(p) + Len(q) : (p \o q)[i] = IF i <= Len(p) THEN p[i] ELSE q[i - Len(p)]
  BY ConcatProperties DEF Text
<1> QED BY <1>1, CutAtQuery, Zenon

-----------------------------------------------------------------------------
(* The first segment of a path                                             *)

\* A segment starts behind position i of a path.
SegmentAfter(path, i) ==
  /\ i \in 0 .. Len(path) - 1 /\ (i = 0 \/ path[i] = "/")
  /\ path[i + 1] # "/"

\* The first segment of a path lies between positions m and e.
FirstPiece(path, m, e) ==
  /\ m \in Nat /\ \A j \in 1 .. m : path[j] = "/"
  /\ e \in m + 2 .. Len(path) + 1
  /\ \A j \in m + 1 .. e - 1 : path[j] # "/"
  /\ e = Len(path) + 1 \/ path[e] = "/"

\* The non-empty pieces of a path are its segments.
LEMMA SegmentPositions ==
  ASSUME NEW path \in Text
  PROVE  \A i : i \in Segments(path) <=> SegmentAfter(path, i)
<1>1. Len(path) \in Nat
  BY TextFacts
<1>2. DOMAIN split(path, "/") = {0} \cup {i \in 1 .. Len(path) : path[i] = "/"}
  BY SplitPieces
<1>3. ASSUME NEW i \in DOMAIN split(path, "/")
      PROVE  split(path, "/")[i] # <<>> <=> SegmentAfter(path, i)
  <2>1. i \in Nat /\ i <= Len(path) /\ (i = 0 \/ path[i] = "/")
    BY <1>1, <1>2, <1>3
  <2>2. PICK e : PieceEnd(path, "/", i, e)
    BY <1>3, SplitPieces
  <2>3. e \in Nat /\ i + 1 <= e /\ e <= Len(path) + 1
    BY <1>1, <2>1, <2>2 DEF PieceEnd
  <2>4. split(path, "/")[i] = SubSeq(path, i + 1, e - 1)
    BY <1>3, <2>2, PieceIs, Zenon
  <2>5. SubSeq(path, i + 1, e - 1) \in Text /\ Len(SubSeq(path, i + 1, e - 1)) = e - (i + 1)
    BY <2>1, <2>3, PartOf
  <2>6. split(path, "/")[i] # <<>> <=> e # i + 1
    BY <2>1, <2>3, <2>4, <2>5, TextFacts
  <2>7. e # i + 1 <=> SegmentAfter(path, i)
    BY <1>1, <2>1, <2>2, <2>3 DEF PieceEnd, SegmentAfter
  <2> QED BY <2>6, <2>7
<1>4. \A i : SegmentAfter(path, i) => i \in DOMAIN split(path, "/")
  BY <1>1, <1>2 DEF SegmentAfter
<1> QED BY <1>3, <1>4 DEF Segments

\* A first piece is what extract_first_path_segment returns.
LEMMA FirstSegmentIs ==
  ASSUME NEW path \in Text, NEW m, NEW e, FirstPiece(path, m, e)
  PROVE  /\ extract_first_path_segment(path) = SubSeq(path, m + 1, e - 1)
         /\ SubSeq(path, m + 1, e - 1) \in Text
<1>1. Len(path) \in Nat
  BY TextFacts
<1>2. m \in Nat /\ e \in Nat /\ m + 2 <= e /\ e <= Len(path) + 1
  BY <1>1 DEF FirstPiece
<1>3. SegmentAfter(path, m)
  BY <1>1, <1>2 DEF FirstPiece, SegmentAfter
<1>4. \A i : SegmentAfter(path, i) => i \in Nat /\ m <= i
  BY <1>1, <1>2 DEF FirstPiece, SegmentAfter
<1>5. m \in Segments(path) /\ Segments(path) \subseteq Nat /\ \A i \in Segments(path) : m <= i
  BY <1>3, <1>4, SegmentPositions
<1>6. Min(Segments(path)) = m
  <2>1. Min(Segments(path)) \in Segments(path) /\ \A y \in Segments(path) : Min(Segments(path)) <= y
    BY <1>5, LeastOf
  <2>2. Min(Segments(path)) <= m /\ m <= Min(Segments(path)) /\ Min(Segments(path)) \in Nat
    BY <1>5, <2>1
  <2> QED BY <1>2, <2>2
<1>7. m \in DOMAIN split(path, "/")
  BY <1>5 DEF Segments
<1>8. PieceEnd(path, "/", m, e)
  BY <1>1, <1>2 DEF FirstPiece, PieceEnd
<1>9. split(path, "/")[m] = SubSeq(path, m + 1, e - 1)
  BY <1>7, <1>8, PieceIs, Zenon
<1>10. SubSeq(path, m + 1, e - 1) \in Text
  BY <1>1, <1>2, PartOf
<1> QED BY <1>5, <1>6, <1>9, <1>10 DEF extract_first_path_segment

\* Whatever extract_first_path_segment returns is a first piece.
LEMMA FirstSegmentFrom ==
  ASSUME NEW path \in Text, extract_first_path_segment(path) # None
  PROVE  \E m, e : FirstPiece(path, m, e)
<1>1. Len(path) \in Nat
  BY TextFacts
<1>2. Segments(path) # {} /\ Segments(path) \subseteq Nat
  BY SegmentPositions DEF extract_first_path_segment, SegmentAfter
<1> DEFINE m == Min(Segments(path))
<1>3. m \in Segments(path) /\ m \in Nat /\ \A y \in Segments(path) : m <= y
  BY <1>2, LeastOf
<1> HIDE DEF m
<1>4. SegmentAfter(path, m)
  BY <1>3, SegmentPositions
<1>5. m \in DOMAIN split(path, "/")
  BY <1>3 DEF Segments
<1>6. PICK e : PieceEnd(path, "/", m, e)
  BY <1>5, SplitPieces
<1>7. \A j \in 1 .. m : path[j] = "/"
  <2> DEFINE others == {j \in 1 .. m : path[j] # "/"}
  <2>1. SUFFICES others = {}
    BY Zenon
  <2>2. SUFFICES ASSUME others # {} PROVE FALSE
    OBVIOUS
  <2>3. others \subseteq Nat
    BY <1>3
  <2>4. Min(others) \in others /\ \A y \in others : Min(others) <= y
    BY <2>2, <2>3, LeastOf
  <2>5. PICK j \in 1 .. m : path[j] # "/" /\ \A i \in 1 .. m : path[i] # "/" => j <= i
    BY <2>4
  <2> HIDE DEF others
  <2>6. j - 1 \in Nat /\ j - 1 < m /\ (j - 1) + 1 = j /\ m <= Len(path)
    BY <1>1, <1>3, <1>4, <2>5 DEF SegmentAfter
  <2>7. j - 1 = 0 \/ path[j - 1] = "/"
    BY <1>3, <2>5, <2>6
  <2>8. SegmentAfter(path, j - 1)
    <3>1. path[(j - 1) + 1] # "/"
      BY <2>5, <2>6
    <3>2. j - 1 \in 0 .. Len(path) - 1
      BY <1>1, <1>3, <2>6
    <3> QED BY <2>7, <3>1, <3>2, Zenon DEF SegmentAfter
  <2>9. m <= j - 1
    BY <1>3, <2>8, SegmentPositions
  <2> QED BY <1>3, <2>6, <2>9
<1>8. FirstPiece(path, m, e)
  BY <1>1, <1>3, <1>4, <1>6, <1>7 DEF PieceEnd, SegmentAfter, FirstPiece
<1> QED BY <1>8

\* extract_first_path_segment finds a routing name exactly in the paths that
\* start with it.
LEMMA SegmentStartsPath ==
  ASSUME NEW path \in Text, NEW name \in Text, name # <<>>, "/" \notin ToSet(name)
  PROVE  extract_first_path_segment(path) = name <=> StartsWith(path, name)
<1>1. /\ Len(path) \in Nat /\ Len(name) \in Nat /\ Len(name) # 0
      /\ \A i \in 1 .. Len(name) : name[i] # "/"
  BY TextFacts DEF ToSet
<1>2. ASSUME extract_first_path_segment(path) = name
      PROVE  StartsWith(path, name)
  <2>1. PICK m, e : FirstPiece(path, m, e)
    BY <1>2, FirstSegmentFrom, MissingAssumption DEF Text
  <2>2. m \in Nat /\ e \in Nat /\ m + 2 <= e /\ e <= Len(path) + 1
    BY <1>1, <2>1 DEF FirstPiece
  <2>3. SubSeq(path, m + 1, e - 1) = name
    BY <1>2, <2>1, FirstSegmentIs
  <2>4. Len(SubSeq(path, m + 1, e - 1)) = e - (m + 1)
    BY <1>1, <2>2, PartOf
  <2>5. e - 1 = m + Len(name)
    BY <2>2, <2>3, <2>4
  <2>6. m \in 0 .. Len(path) - Len(name)
    BY <1>1, <2>2, <2>5
  <2>7. SubSeq(path, m + 1, m + Len(name)) = name
    BY <2>3, <2>5
  <2>8. m + Len(name) = Len(path) \/ path[m + Len(name) + 1] = "/"
    <3>1. e = m + Len(name) + 1
      BY <1>1, <2>2, <2>5
    <3> QED BY <1>1, <2>1, <2>2, <3>1 DEF FirstPiece
  <2>9. \A i \in 1 .. m : path[i] = "/"
    BY <2>1 DEF FirstPiece
  <2> QED BY <2>6, <2>7, <2>8, <2>9 DEF StartsWith
<1>3. ASSUME StartsWith(path, name)
      PROVE  extract_first_path_segment(path) = name
  <2>1. PICK m \in 0 .. Len(path) - Len(name) :
          /\ \A i \in 1 .. m : path[i] = "/"
          /\ SubSeq(path, m + 1, m + Len(name)) = name
          /\ m + Len(name) = Len(path) \/ path[m + Len(name) + 1] = "/"
    BY <1>3 DEF StartsWith
  <2>2. PICK e \in Nat : e = m + Len(name) + 1
    BY <1>1, <2>1
  <2>3. m \in Nat /\ e - 1 = m + Len(name) /\ m + 2 <= e /\ e <= Len(path) + 1
    BY <1>1, <2>1, <2>2
  <2>4. /\ SubSeq(path, m + 1, e - 1) = name
        /\ \A i \in 1 .. e - (m + 1) : SubSeq(path, m + 1, e - 1)[i] = path[(m + 1) + i - 1]
    BY <1>1, <2>1, <2>3, PartOf
  <2>5. \A j \in m + 1 .. e - 1 : path[j] # "/"
    <3> SUFFICES ASSUME NEW j \in m + 1 .. e - 1 PROVE path[j] # "/"
      OBVIOUS
    <3>1. j - m \in 1 .. e - (m + 1) /\ j - m \in 1 .. Len(name) /\ (m + 1) + (j - m) - 1 = j
      BY <1>1, <2>3
    <3>2. name[j - m] = path[j]
      BY <2>4, <3>1
    <3> QED BY <1>1, <3>1, <3>2
  <2>6. FirstPiece(path, m, e)
    <3>1. e \in m + 2 .. Len(path) + 1
      BY <1>1, <2>3
    <3>2. e = Len(path) + 1 \/ path[e] = "/"
      BY <1>1, <2>1, <2>2, <2>3
    <3> QED BY <2>1, <2>3, <2>5, <3>1, <3>2, Zenon DEF FirstPiece
  <2> QED BY <2>4, <2>6, FirstSegmentIs
<1> QED BY <1>2, <1>3

-----------------------------------------------------------------------------
(* Stripping the segment                                                   *)

\* The characters of the start of a text.
LEMMA PrefixPart ==
  ASSUME NEW t \in Text, NEW k \in Nat, k <= Len(t)
  PROVE  /\ SubSeq(t, 1, k) \in Text /\ Len(SubSeq(t, 1, k)) = k
         /\ \A i \in 1 .. k : SubSeq(t, 1, k)[i] = t[i]
<1>1. /\ SubSeq(t, 1, k) \in Text /\ Len(SubSeq(t, 1, k)) = k + 1 - 1
      /\ \A i \in 1 .. k + 1 - 1 : SubSeq(t, 1, k)[i] = t[1 + i - 1]
  <2>1. 1 \in Nat /\ 1 <= 1 /\ 1 <= k + 1
    OBVIOUS
  <2> QED BY <2>1, PartUpTo, Zenon
<1> QED BY <1>1

\* A prefix has the same characters.
LEMMA PrefixIs ==
  ASSUME NEW s \in Text, NEW t \in Text
  PROVE  IsPrefix(s, t) <=> Len(s) <= Len(t) /\ \A i \in 1 .. Len(s) : s[i] = t[i]
<1>1. Len(s) \in Nat /\ Len(t) \in Nat
  BY TextFacts
<1>2. SubSeq(s, 1, Len(s)) = s
  BY SubSeqFull DEF Text
<1> SUFFICES ASSUME Len(s) <= Len(t)
             PROVE  s = SubSeq(t, 1, Len(s)) <=> \A i \in 1 .. Len(s) : s[i] = t[i]
  BY <1>2 DEF IsPrefix
<1>4. /\ SubSeq(t, 1, Len(s)) \in Text /\ Len(SubSeq(t, 1, Len(s))) = Len(s)
      /\ \A i \in 1 .. Len(s) : SubSeq(t, 1, Len(s))[i] = t[i]
  BY <1>1, PrefixPart
<1>5. (\A i \in 1 .. Len(s) : s[i] = t[i]) => s = SubSeq(t, 1, Len(s))
  BY <1>4, TextEqual
<1> QED BY <1>4, <1>5

\* One string after another.
LEMMA ConcatText ==
  ASSUME NEW s \in Text, NEW t \in Text
  PROVE  /\ s \o t \in Text /\ Len(s \o t) = Len(s) + Len(t)
         /\ \A i \in 1 .. Len(s) : (s \o t)[i] = s[i]
         /\ \A i \in 1 .. Len(t) : (s \o t)[Len(s) + i] = t[i]
<1>1. Len(s) \in Nat /\ Len(t) \in Nat
  BY TextFacts
<1>2. /\ s \o t \in Text /\ Len(s \o t) = Len(s) + Len(t)
      /\ \A i \in 1 .. Len(s) + Len(t) : (s \o t)[i] = IF i <= Len(s) THEN s[i] ELSE t[i - Len(s)]
  BY ConcatProperties DEF Text
<1>3. ASSUME NEW i \in 1 .. Len(t) PROVE (s \o t)[Len(s) + i] = t[i]
  <2>1. Len(s) + i \in 1 .. Len(s) + Len(t) /\ ~(Len(s) + i <= Len(s)) /\ (Len(s) + i) - Len(s) = i
    BY <1>1
  <2> QED BY <1>2, <2>1
<1>4. \A i \in 1 .. Len(s) : (s \o t)[i] = s[i]
  BY <1>1, <1>2
<1> QED BY <1>2, <1>3, <1>4

\* A slash is a string of one character.
LEMMA SlashText == <<"/">> \in Text /\ Len(<<"/">>) = 1 /\ <<"/">>[1] = "/"
BY LiteralsAssumption DEF Text

\* "/segment" in front of a path.
LEMMA SegmentHead ==
  ASSUME NEW segment \in Text
  PROVE  /\ <<"/">> \o segment \in Text /\ Len(<<"/">> \o segment) = Len(segment) + 1
         /\ (<<"/">> \o segment)[1] = "/"
         /\ \A i \in 1 .. Len(segment) : (<<"/">> \o segment)[i + 1] = segment[i]
<1>1. Len(segment) \in Nat
  BY TextFacts
<1>2. /\ <<"/">> \o segment \in Text /\ Len(<<"/">> \o segment) = Len(<<"/">>) + Len(segment)
      /\ \A i \in 1 .. Len(<<"/">>) : (<<"/">> \o segment)[i] = <<"/">>[i]
      /\ \A i \in 1 .. Len(segment) : (<<"/">> \o segment)[Len(<<"/">>) + i] = segment[i]
  BY SlashText, ConcatText
<1>3. \A i \in 1 .. Len(segment) : 1 + i = i + 1
  OBVIOUS
<1> HIDE DEF Text
<1> QED BY <1>1, <1>2, <1>3, SlashText

\* What is left of a path behind "/segment".
Remainder(path, segment) == SubSeq(path, Len(segment) + 2, Len(path))

\* The characters of a remainder.
LEMMA RemainderText ==
  ASSUME NEW path \in Text, NEW segment \in Text, Len(segment) + 1 <= Len(path)
  PROVE  /\ Remainder(path, segment) \in Text
         /\ Len(Remainder(path, segment)) = Len(path) - (Len(segment) + 1)
         /\ \A i \in 1 .. Len(path) - (Len(segment) + 1) :
              Remainder(path, segment)[i] = path[(Len(segment) + 1) + i]
<1>1. Len(segment) \in Nat /\ Len(path) \in Nat
  BY TextFacts
<1>2. PICK m \in Nat : m = Len(segment) + 2
  BY <1>1
<1>3. /\ SubSeq(path, m, Len(path)) \in Text
      /\ Len(SubSeq(path, m, Len(path))) = Len(path) + 1 - m
      /\ \A i \in 1 .. Len(path) + 1 - m : SubSeq(path, m, Len(path))[i] = path[m + i - 1]
  <2>1. 1 <= m /\ m <= Len(path) + 1 /\ Len(path) <= Len(path)
    BY <1>1, <1>2
  <2> QED BY <1>1, <2>1, PartUpTo
<1> DEFINE rest == Remainder(path, segment)
<1>4. rest = SubSeq(path, m, Len(path))
  BY <1>2 DEF Remainder
<1> HIDE DEF rest
<1>5. /\ rest \in Text /\ Len(rest) = Len(path) + 1 - m
      /\ \A i \in 1 .. Len(path) + 1 - m : rest[i] = path[m + i - 1]
  BY <1>3, <1>4, Zenon
<1>6. Len(path) + 1 - m = Len(path) - (Len(segment) + 1) /\ \A i \in Nat : m + i - 1 = (Len(segment) + 1) + i
  BY <1>1, <1>2
<1>7. Len(rest) = Len(path) - (Len(segment) + 1)
  BY <1>5, <1>6, Zenon
<1>8. \A i \in 1 .. Len(path) - (Len(segment) + 1) : rest[i] = path[(Len(segment) + 1) + i]
  BY <1>1, <1>5, <1>6
<1> QED BY <1>5, <1>7, <1>8 DEF rest

\* rest is text of the path, and the path reads "/segment" and then rest.
ReadsSegmentThen(path, segment, rest) ==
  /\ rest \in Text /\ path = <<"/">> \o segment \o rest
  /\ \A i \in 1 .. Len(rest) : \E j \in 1 .. Len(path) : rest[i] = path[j]

\* The remainder of a path behind "/segment", and what is left of the path.
LEMMA StrippedPath ==
  ASSUME NEW path \in Text, NEW segment \in Text, NEW rest,
         IsPrefix(<<"/">> \o segment, path), rest = Remainder(path, segment)
  PROVE  ReadsSegmentThen(path, segment, rest)
<1>1. Len(segment) \in Nat /\ Len(path) \in Nat
  BY TextFacts
<1> DEFINE head == <<"/">> \o segment
<1>2. head \in Text /\ Len(head) = Len(segment) + 1
  BY SegmentHead
<1> HIDE DEF head
<1>3. Len(head) <= Len(path) /\ \A i \in 1 .. Len(head) : head[i] = path[i]
  BY <1>2, PrefixIs DEF head
<1>5. /\ rest \in Text /\ Len(rest) = Len(path) - Len(head)
      /\ \A i \in 1 .. Len(rest) : rest[i] = path[Len(head) + i]
  <2>1. Len(segment) + 1 <= Len(path)
    BY <1>2, <1>3
  <2>2. /\ rest \in Text /\ Len(rest) = Len(path) - (Len(segment) + 1)
        /\ \A i \in 1 .. Len(path) - (Len(segment) + 1) : rest[i] = path[(Len(segment) + 1) + i]
    BY <2>1, RemainderText, Zenon
  <2> QED BY <1>2, <2>2, Zenon
<1>6. /\ head \o rest \in Text /\ Len(head \o rest) = Len(head) + Len(rest)
      /\ \A i \in 1 .. Len(head) : (head \o rest)[i] = head[i]
      /\ \A i \in 1 .. Len(rest) : (head \o rest)[Len(head) + i] = rest[i]
  BY <1>2, <1>5, ConcatText
<1>7. ASSUME NEW i \in 1 .. Len(path) PROVE path[i] = (head \o rest)[i]
  <2>1. CASE i <= Len(head)
    BY <1>1, <1>2, <1>3, <1>6, <2>1
  <2>2. CASE ~(i <= Len(head))
    <3>1. i - Len(head) \in 1 .. Len(rest) /\ Len(head) + (i - Len(head)) = i
      BY <1>1, <1>2, <1>5, <2>2
    <3> QED BY <1>5, <1>6, <3>1
  <2> QED BY <2>1, <2>2
<1>8. path = head \o rest
  <2>0. Len(path) = Len(head) + Len(rest)
    BY <1>1, <1>2, <1>5
  <2>1. Len(path) = Len(head \o rest)
    BY <1>6, <2>0, Zenon
  <2> QED BY <1>6, <1>7, <2>1, TextEqual, Zenon
<1>9. \A i \in 1 .. Len(rest) : \E j \in 1 .. Len(path) : rest[i] = path[j]
  <2> SUFFICES ASSUME NEW i \in 1 .. Len(rest) PROVE \E j \in 1 .. Len(path) : rest[i] = path[j]
    OBVIOUS
  <2>1. Len(head) + i \in 1 .. Len(path)
    BY <1>1, <1>2, <1>5
  <2> QED BY <1>5, <2>1
<1> QED BY <1>5, <1>8, <1>9 DEF head, ReadsSegmentThen

\* f is a target that path and query were rewritten to when segment was
\* taken off.
StrippedTo(f, target, segment) ==
  /\ QueryOf(f) = QueryOf(target) /\ f[1] = "/"
  /\ \/ PathOf(target) = <<"/">> \o segment \o PathOf(f)
     \/ PathOf(target) = <<"/">> \o segment /\ PathOf(f) = <<"/">>
     \/ IsPrefix(<<"/", "/">>, PathOf(target)) /\ f = target

\* The path of a target in origin form starts with its slash.
LEMMA OriginForm ==
  ASSUME NEW target \in Text, target # <<>>, target[1] = "/"
  PROVE  /\ PathOf(target) \in Text /\ QueryOf(target) \in Text
         /\ Len(PathOf(target)) >= 1 /\ PathOf(target)[1] = "/"
         /\ \A i \in 1 .. Len(PathOf(target)) : PathOf(target)[i] # "?"
         /\ QueryOf(target) = <<>> \/ QueryOf(target)[1] = "?"
BY PathAndQuery

\* strip_first_path_segment, where "/segment" is in front of a boundary.
LEMMA StripAtBoundary ==
  ASSUME NEW target \in Text, target # <<>>, target[1] = "/", NEW segment \in Text, NEW rest,
         rest = Remainder(PathOf(target), segment),
         IsPrefix(<<"/">> \o segment, PathOf(target)), rest = <<>> \/ rest[1] = "/"
  PROVE  StrippedTo(Rewritten(target, segment), target, segment)
<1> DEFINE path == PathOf(target)
           query == QueryOf(target)
           body == IF rest = <<>> THEN <<"/">> ELSE rest
<1>1. /\ path \in Text /\ query \in Text
      /\ \A i \in 1 .. Len(path) : path[i] # "?"
      /\ query = <<>> \/ query[1] = "?"
  BY OriginForm
<1>2. strip_first_path_segment(target, segment) = body \o query
  BY DEF strip_first_path_segment, Remainder
<1> HIDE DEF query
<1>3. /\ rest \in Text /\ path = <<"/">> \o segment \o rest
      /\ \A i \in 1 .. Len(rest) : \E j \in 1 .. Len(path) : rest[i] = path[j]
  <2>1. ReadsSegmentThen(PathOf(target), segment, rest)
    BY <1>1, StrippedPath, Zenon
  <2> QED BY <2>1, Zenon DEF ReadsSegmentThen
<1> HIDE DEF path
<1>4. /\ body \in Text /\ body[1] = "/" /\ Len(body) \in Nat /\ Len(body) >= 1
      /\ \A i \in 1 .. Len(body) : body[i] # "?"
  <2>1. CASE rest = <<>>
    <3>1. body = <<"/">>
      BY <2>1
    <3>2. /\ <<"/">> \in Text /\ <<"/">>[1] = "/" /\ Len(<<"/">>) \in Nat /\ Len(<<"/">>) >= 1
          /\ \A i \in 1 .. Len(<<"/">>) : <<"/">>[i] # "?"
      BY SlashText
    <3> QED BY <3>1, <3>2, Zenon
  <2>2. CASE rest # <<>>
    <3>1. body = rest
      BY <2>2
    <3>2. Len(rest) \in Nat /\ Len(rest) # 0
      BY <1>3, <2>2, TextFacts
    <3>3. \A i \in 1 .. Len(rest) : rest[i] # "?"
      BY <1>1, <1>3, Zenon
    <3>4. Len(rest) >= 1
      BY <3>2
    <3>5. rest[1] = "/"
      BY <2>2
    <3> HIDE DEF body
    <3> QED BY <1>3, <3>1, <3>2, <3>3, <3>4, <3>5, Zenon
  <2> QED BY <2>1, <2>2
<1>5. path = <<"/">> \o segment \o body \/ (path = <<"/">> \o segment /\ body = <<"/">>)
  <2>1. CASE rest = <<>>
    <3>1. (<<"/">> \o segment) \o <<>> = <<"/">> \o segment
      BY SegmentHead, ConcatEmptySeq DEF Text
    <3> QED BY <1>3, <2>1, <3>1
  <2>2. CASE rest # <<>>
    BY <1>3, <2>2
  <2> QED BY <2>1, <2>2
<1> HIDE DEF body
<1>6. PathOf(body \o query) = body /\ QueryOf(body \o query) = query
  BY <1>1, <1>4, PathAndQueryOfConcat, Zenon
<1>7. body \o query \in Text /\ (body \o query)[1] = "/"
  BY <1>1, <1>4, ConcatText
<1>8. Rewritten(target, segment) = body \o query
  <2>1. segment # None /\ body \o query # None
    BY <1>7, MissingAssumption DEF Text
  <2> QED BY <1>2, <2>1, Zenon DEF Rewritten
<1> QED BY <1>5, <1>6, <1>7, <1>8, Zenon DEF StrippedTo, path, query

\* Where the path starts with a routing name and "/segment" is not in front
\* of a boundary, there is more than one slash before it.
LEMMA MoreSlashes ==
  ASSUME NEW path \in Text, Len(path) >= 1, path[1] = "/",
         NEW segment \in Text, segment # <<>>, "/" \notin ToSet(segment),
         StartsWith(path, segment), NEW rest, rest = Remainder(path, segment),
         ~(IsPrefix(<<"/">> \o segment, path) /\ (rest = <<>> \/ rest[1] = "/"))
  PROVE  IsPrefix(<<"/", "/">>, path)
<1>1. /\ Len(path) \in Nat /\ Len(segment) \in Nat /\ Len(segment) >= 1
      /\ \A i \in 1 .. Len(segment) : segment[i] # "/"
  BY TextFacts DEF ToSet
<1>2. PICK n \in 0 .. Len(path) - Len(segment) :
        /\ \A i \in 1 .. n : path[i] = "/"
        /\ SubSeq(path, n + 1, n + Len(segment)) = segment
        /\ n + Len(segment) = Len(path) \/ path[n + Len(segment) + 1] = "/"
  BY DEF StartsWith
<1>3. \A i \in 1 .. Len(segment) : segment[i] = path[n + i]
  <2>1. n + 1 \in Nat /\ n + Len(segment) \in Nat /\ 1 <= n + 1 /\ n + 1 <= n + Len(segment) + 1
        /\ n + Len(segment) <= Len(path)
    BY <1>1, <1>2
  <2> DEFINE part == SubSeq(path, n + 1, n + Len(segment))
  <2>2. \A i \in 1 .. (n + Len(segment)) + 1 - (n + 1) : part[i] = path[(n + 1) + i - 1]
    BY <2>1, PartUpTo, Zenon
  <2>3. part = segment
    BY <1>2
  <2> HIDE DEF part
  <2> QED BY <1>1, <1>2, <2>2, <2>3
<1>4. n # 0
  BY <1>1, <1>3
<1>5. n # 1
  <2> SUFFICES ASSUME n = 1 PROVE FALSE
    OBVIOUS
  <2> DEFINE head == <<"/">> \o segment
  <2>1. /\ head \in Text /\ Len(head) = Len(segment) + 1 /\ head[1] = "/"
        /\ \A i \in 1 .. Len(segment) : head[i + 1] = segment[i]
    BY SegmentHead
  <2> HIDE DEF head
  <2>2. ASSUME NEW i \in 1 .. Len(head) PROVE head[i] = path[i]
    <3>1. CASE i = 1
      BY <2>1, <3>1
    <3>2. CASE i # 1
      <4>1. i - 1 \in 1 .. Len(segment) /\ (i - 1) + 1 = i /\ n + (i - 1) = i
        BY <1>1, <2>1, <3>2
      <4> QED BY <1>3, <2>1, <4>1
    <3> QED BY <3>1, <3>2
  <2>3. IsPrefix(head, path)
    <3>1. Len(head) <= Len(path)
      BY <1>1, <1>2, <2>1
    <3> QED BY <2>1, <2>2, <3>1, PrefixIs
  <2>4. /\ rest \in Text /\ Len(rest) = Len(path) - (Len(segment) + 1)
        /\ \A i \in 1 .. Len(path) - (Len(segment) + 1) : rest[i] = path[(Len(segment) + 1) + i]
    <3>1. Len(segment) + 1 <= Len(path)
      BY <1>1, <1>2
    <3> QED BY <3>1, RemainderText, Zenon
  <2>5. CASE n + Len(segment) = Len(path)
    <3>1. Len(rest) = 0
      BY <1>1, <2>4, <2>5
    <3>2. rest = <<>>
      BY <2>4, <3>1, TextFacts
    <3> QED BY <2>3, <3>2 DEF head
  <2>6. CASE n + Len(segment) # Len(path)
    <3>1. 1 \in 1 .. Len(path) - (Len(segment) + 1)
      BY <1>1, <1>2, <2>6
    <3>2. rest[1] = path[(Len(segment) + 1) + 1]
      BY <2>4, <3>1
    <3>3. (Len(segment) + 1) + 1 = n + Len(segment) + 1
      BY <1>1
    <3>4. rest[1] = "/"
      BY <1>2, <2>6, <3>2, <3>3
    <3> QED BY <2>3, <3>4 DEF head
  <2> QED BY <2>5, <2>6
<1>6. Len(path) >= 2 /\ path[1] = "/" /\ path[2] = "/"
  BY <1>1, <1>2, <1>4, <1>5
<1>7. <<"/", "/">> \in Text /\ Len(<<"/", "/">>) = 2 /\ \A i \in 1 .. 2 : <<"/", "/">>[i] = "/"
  BY LiteralsAssumption DEF Text
<1>8. \A i \in 1 .. 2 : path[i] = "/"
  BY <1>6
<1>9. Len(<<"/", "/">>) <= Len(path) /\ \A i \in 1 .. Len(<<"/", "/">>) : <<"/", "/">>[i] = path[i]
  BY <1>6, <1>7, <1>8
<1> QED BY <1>7, <1>9, PrefixIs, Zenon

\* The routing names of accepted options: present, not empty, and without a
\* slash in a path route.
LEMMA AcceptedNames ==
  ASSUME NEW o \in OptionInputs, ErrorCode(o) = None, NEW i \in DOMAIN o.applications
  PROVE  /\ o.applications[i] \in RawApplication
         /\ o.applications[i].routing # "Default" =>
              o.applications[i].route_name \in Text /\ o.applications[i].route_name # <<>>
         /\ o.applications[i].routing = "Path" => "/" \notin ToSet(o.applications[i].route_name)
<1> DEFINE app == o.applications[i]
<1>1. app \in RawApplication
  BY ParsedApplication
<1>2. app \in ToSet(o.applications)
  BY DEF ToSet
<1>3. /\ \A a \in ToSet(o.applications) : ApplicationAccepted(a)
      /\ validate_applications(o.applications)
  BY ErrorCodes DEF ErrorCode
<1> HIDE DEF app
<1>4. app.routing # "Default" => app.route_name # None
  BY <1>2, <1>3 DEF ApplicationAccepted
<1>5. app.routing # "Default" => app.route_name \in Text
  BY <1>1, <1>4 DEF RawApplication, Optional
<1>6. /\ app.routing # "Default" => app.route_name # <<>>
      /\ app.routing = "Path" => "/" \notin ToSet(app.route_name)
  BY <1>2, <1>3 DEF validate_applications
<1> QED BY <1>1, <1>5, <1>6 DEF app

\* A request that has a segment to strip has the routing name of a path route.
LEMMA SegmentIsRoutingName ==
  ASSUME RoutingInv, ctx # None, ctx.path_rewrite_segment # None
  PROVE  /\ ctx.path_rewrite_segment = extract_first_path_segment(PathOf(request.target))
         /\ ctx.path_rewrite_segment \in Text /\ ctx.path_rewrite_segment # <<>>
         /\ "/" \notin ToSet(ctx.path_rewrite_segment)
<1>1. request # None
  BY DEF RoutingInv
<1> DEFINE route == Route(request.host, request.target)
           seg == extract_first_path_segment(PathOf(request.target))
           h == extract_host(request.host)
           apps == options.applications
<1>2. /\ options \in OptionInputs /\ ErrorCode(options) = None
      /\ RouteChoice(apps, h, seg, route)
  BY <1>1, FilteredRoute
<1>3. ctx.path_rewrite_segment = route.path_rewrite_segment /\ route.app_name # None
  BY <1>1, FilteredRoute DEF Filtered
<1> HIDE DEF route, seg, h, apps
<1>4. PICK i : OwnsPath(apps, seg, i) /\ route.path_rewrite_segment = seg
  BY <1>2, <1>3 DEF RouteChoice
<1>5. i \in DOMAIN apps /\ apps[i].routing = "Path" /\ apps[i].route_name = seg
  BY <1>4 DEF OwnsPath
<1>6. seg \in Text /\ seg # <<>> /\ "/" \notin ToSet(seg)
  BY <1>2, <1>5, AcceptedNames DEF apps
<1> QED BY <1>3, <1>4, <1>6 DEF seg

\* OnlySegmentStripped: upstream_request_filter takes "/segment" off the path
\* of a request that a path route took and changes nothing else.
THEOREM OnlyTheSegmentIsStripped == RoutingSpec => []OnlySegmentStripped
<1>1. RoutingInv => OnlySegmentStripped
  <2> SUFFICES ASSUME RoutingInv, forwarded # None PROVE OnlySegmentStripped
    BY DEF OnlySegmentStripped
  <2> DEFINE segment == ctx.path_rewrite_segment
             target == request.target
             path == PathOf(target)
  <2>1. ctx # None /\ request # None /\ request \in RequestInputs /\ forwarded = Rewritten(target, segment)
    BY DEF RoutingInv
  <2>2. target \in Text /\ target # <<>> /\ target[1] = "/"
    BY <2>1, RequestAssumption
  <2>3. CASE segment = None
    <3>1. forwarded = target
      BY <2>1, <2>3 DEF Rewritten
    <3> QED BY <2>2, <2>3, <3>1 DEF OnlySegmentStripped
  <2>4. CASE segment # None
    <3>1. /\ segment = extract_first_path_segment(path)
          /\ segment \in Text /\ segment # <<>> /\ "/" \notin ToSet(segment)
      BY <2>1, <2>4, SegmentIsRoutingName
    <3>2. StrippedTo(forwarded, target, segment)
      <4> HIDE DEF segment, target
      <4> DEFINE rest == Remainder(path, segment)
      <4>1. CASE IsPrefix(<<"/">> \o segment, path) /\ (rest = <<>> \/ rest[1] = "/")
        <5>1. StrippedTo(Rewritten(target, segment), target, segment)
          BY <2>2, <3>1, <4>1, StripAtBoundary, Zenon
        <5> QED BY <2>1, <5>1, Zenon
      <4>2. CASE ~(IsPrefix(<<"/">> \o segment, path) /\ (rest = <<>> \/ rest[1] = "/"))
        <5>1. path \in Text /\ Len(path) >= 1 /\ path[1] = "/"
          BY <2>2, OriginForm
        <5> HIDE DEF path
        <5>2. StartsWith(path, segment)
          BY <3>1, <5>1, SegmentStartsPath
        <5>3. IsPrefix(<<"/", "/">>, path)
          BY <3>1, <4>2, <5>1, <5>2, MoreSlashes, Zenon
        <5>4. strip_first_path_segment(target, segment) = None
          BY <4>2, Zenon DEF strip_first_path_segment, path, Remainder
        <5>5. forwarded = target
          BY <2>1, <5>4 DEF Rewritten
        <5> QED BY <2>2, <5>3, <5>5 DEF StrippedTo, path
      <4> QED BY <4>1, <4>2, Zenon
    <3> QED BY <2>4, <3>2 DEF OnlySegmentStripped, StrippedTo
  <2> QED BY <2>3, <2>4
<1> QED BY <1>1, RoutingInductive, PTL

-----------------------------------------------------------------------------
(* Host names                                                              *)

\* What to_ascii_lowercase does to a character.
Lower(c) == IF c \in DOMAIN Lowercase THEN Lowercase[c] ELSE c

\* Two texts agree up to letter case, on the first n characters.
AgreeUpTo(s, t, n) == \A i \in 1 .. n : Lower(s[i]) = Lower(t[i])

\* A port starts behind position k: a colon, and nothing but digits after it.
PortAfter(s, k) ==
  /\ k \in Nat /\ k + 1 <= Len(s) /\ s[k + 1] = ":"
  /\ \A j \in k + 2 .. Len(s) : s[j] \in Digits

\* The first closing bracket is at position k.
ClosesAt(s, k) ==
  k \in 1 .. Len(s) /\ s[k] = "]" /\ \A j \in 1 .. k - 1 : s[j] # "]"

\* strip_port_str keeps the first k characters.
KeepsUpTo(s, k) ==
  /\ k \in 0 .. Len(s)
  /\ IF s # <<>> /\ s[1] = "["
     THEN \/ ClosesAt(s, k)
          \/ k = Len(s) /\ \A j \in 1 .. Len(s) : s[j] # "]"
     ELSE \/ k >= 1 /\ PortAfter(s, k)
          \/ k = Len(s) /\ \A j \in 1 .. Len(s) : ~PortAfter(s, j)

\* Letter case leaves punctuation and digits alone.
LEMMA LowerChars ==
  ASSUME NEW c, NEW d, Lower(c) = Lower(d)
  PROVE  /\ c = ":" <=> d = ":"
         /\ c = "[" <=> d = "["
         /\ c = "]" <=> d = "]"
         /\ c \in Digits <=> d \in Digits
<1>1. ASSUME NEW a
      PROVE  /\ Lower(a) = ":" <=> a = ":"
             /\ Lower(a) = "[" <=> a = "["
             /\ Lower(a) = "]" <=> a = "]"
             /\ Lower(a) \in Digits <=> a \in Digits
  BY AlphabetAssumption DEF Lower
<1> QED BY <1>1

\* Letter case alone: a colon or a digit is its own lower case.
LEMMA LowerColon == Lower(":") = ":" /\ \A c : Lower(c) = ":" <=> c = ":"
BY AlphabetAssumption DEF Lower

\* A digit is its own lower case, and nothing else becomes one.
LEMMA LowerDigit == \A c : Lower(c) \in Digits <=> c \in Digits
BY AlphabetAssumption DEF Lower

\* A colon is not a digit.
LEMMA ColonNoDigit == ":" \notin Digits /\ "]" \notin Digits
BY AlphabetAssumption

\* to_ascii_lowercase, character by character.
LEMMA LowerText ==
  ASSUME NEW s \in Text
  PROVE  /\ to_ascii_lowercase(s) \in Text /\ Len(to_ascii_lowercase(s)) = Len(s)
         /\ DOMAIN to_ascii_lowercase(s) = 1 .. Len(s)
         /\ \A i \in 1 .. Len(s) : to_ascii_lowercase(s)[i] = Lower(s[i])
<1>1. Len(s) \in Nat /\ DOMAIN s = 1 .. Len(s) /\ \A i \in 1 .. Len(s) : s[i] \in STRING
  BY TextFacts
<1>2. \A c \in STRING : Lower(c) \in STRING
  BY AlphabetAssumption DEF Lower
<1> DEFINE l == to_ascii_lowercase(s)
<1>3. l = [i \in 1 .. Len(s) |-> Lower(s[i])]
  BY <1>1, Zenon DEF to_ascii_lowercase, Lower
<1> HIDE DEF l
<1>4. l \in [1 .. Len(s) -> STRING]
  BY <1>1, <1>2, <1>3
<1>5. l \in Seq(STRING)
  BY <1>1, <1>4
<1>6. Len(l) = Len(s)
  BY <1>1, <1>3, <1>5
<1>7. DOMAIN l = 1 .. Len(s) /\ \A i \in 1 .. Len(s) : l[i] = Lower(s[i])
  BY <1>3
<1> QED BY <1>5, <1>6, <1>7 DEF l, Text

\* Texts are equal up to letter case when they agree on all their characters.
LEMMA LowerEqual ==
  ASSUME NEW s \in Text, NEW t \in Text
  PROVE  to_ascii_lowercase(s) = to_ascii_lowercase(t) <=> Len(s) = Len(t) /\ AgreeUpTo(s, t, Len(t))
<1> DEFINE a == to_ascii_lowercase(s)
           b == to_ascii_lowercase(t)
<1>1. /\ a \in Text /\ Len(a) = Len(s) /\ \A i \in 1 .. Len(s) : a[i] = Lower(s[i])
      /\ b \in Text /\ Len(b) = Len(t) /\ \A i \in 1 .. Len(t) : b[i] = Lower(t[i])
  BY LowerText
<1> HIDE DEF a, b
<1>2. a = b => Len(s) = Len(t) /\ AgreeUpTo(s, t, Len(t))
  BY <1>1 DEF AgreeUpTo
<1>3. ASSUME Len(s) = Len(t), AgreeUpTo(s, t, Len(t)) PROVE a = b
  <2>1. Len(a) = Len(b) /\ \A i \in 1 .. Len(a) : a[i] = b[i]
    BY <1>1, <1>3 DEF AgreeUpTo
  <2> QED BY <1>1, <2>1, TextEqual
<1> QED BY <1>2, <1>3 DEF a, b

\* The characters of the end of a text.
LEMMA PartDigits ==
  ASSUME NEW s \in Text, NEW m \in Nat, m <= Len(s)
  PROVE  ToSet(SubSeq(s, m + 1, Len(s))) \subseteq Digits <=> \A j \in m + 1 .. Len(s) : s[j] \in Digits
<1>1. Len(s) \in Nat
  BY TextFacts
<1>2. PICK n \in Nat : n = m + 1
  OBVIOUS
<1> DEFINE part == SubSeq(s, n, Len(s))
<1>3. /\ part \in Text /\ Len(part) = Len(s) + 1 - n
      /\ \A i \in 1 .. Len(s) + 1 - n : part[i] = s[n + i - 1]
  <2>1. 1 <= n /\ n <= Len(s) + 1 /\ Len(s) <= Len(s)
    BY <1>1, <1>2
  <2> QED BY <1>1, <2>1, PartUpTo, Zenon
<1>4. SubSeq(s, m + 1, Len(s)) = part
  BY <1>2
<1> HIDE DEF part
<1>5. DOMAIN part = 1 .. Len(s) + 1 - n
  BY <1>3, TextFacts
<1>6. ToSet(part) \subseteq Digits <=> \A i \in 1 .. Len(s) + 1 - n : s[n + i - 1] \in Digits
  BY <1>3, <1>5, Zenon DEF ToSet
<1>7. ASSUME \A i \in 1 .. Len(s) + 1 - n : s[n + i - 1] \in Digits
      PROVE  \A j \in m + 1 .. Len(s) : s[j] \in Digits
  <2> SUFFICES ASSUME NEW j \in m + 1 .. Len(s) PROVE s[j] \in Digits
    OBVIOUS
  <2>1. j + 1 - n \in 1 .. Len(s) + 1 - n /\ n + (j + 1 - n) - 1 = j
    BY <1>1, <1>2
  <2> QED BY <1>7, <2>1
<1>8. ASSUME \A j \in m + 1 .. Len(s) : s[j] \in Digits
      PROVE  \A i \in 1 .. Len(s) + 1 - n : s[n + i - 1] \in Digits
  <2> SUFFICES ASSUME NEW i \in 1 .. Len(s) + 1 - n PROVE s[n + i - 1] \in Digits
    OBVIOUS
  <2>1. n + i - 1 \in m + 1 .. Len(s)
    BY <1>1, <1>2
  <2> QED BY <1>8, <2>1
<1> QED BY <1>4, <1>6, <1>7, <1>8

\* What strip_port_str keeps.
LEMMA StripPortKeeps ==
  ASSUME NEW s \in Text
  PROVE  \E k : KeepsUpTo(s, k) /\ strip_port_str(s) = SubSeq(s, 1, k)
<1>1. Len(s) \in Nat /\ DOMAIN s = 1 .. Len(s) /\ (s = <<>> <=> Len(s) = 0)
  BY TextFacts
<1>2. SubSeq(s, 1, Len(s)) = s
  BY SubSeqFull DEF Text
<1> DEFINE closing == {i \in DOMAIN s : s[i] = "]"}
           colons == {i \in DOMAIN s : s[i] = ":"}
<1>3. CASE s # <<>> /\ s[1] = "["
  <2>1. strip_port_str(s) = IF closing = {} THEN s ELSE SubSeq(s, 1, Min(closing))
    BY <1>3 DEF strip_port_str
  <2>2. CASE closing = {}
    <3>1. \A j \in 1 .. Len(s) : s[j] # "]"
      BY <1>1, <2>2
    <3>2. KeepsUpTo(s, Len(s))
      BY <1>1, <1>3, <3>1 DEF KeepsUpTo
    <3> QED BY <1>2, <2>1, <2>2, <3>2
  <2>3. CASE closing # {}
    <3>1. closing \subseteq Nat
      BY <1>1
    <3>2. PICK k \in Nat : k = Min(closing) /\ k \in closing /\ \A y \in closing : k <= y
      BY <2>3, <3>1, LeastOf
    <3>3. \A j : j \in closing <=> j \in 1 .. Len(s) /\ s[j] = "]"
      BY <1>1
    <3>4. ClosesAt(s, k)
      <4> HIDE DEF closing
      <4>1. k \in 1 .. Len(s) /\ s[k] = "]"
        BY <3>2, <3>3
      <4>2. \A j \in 1 .. k - 1 : j \in 1 .. Len(s) /\ ~(k <= j)
        BY <1>1, <4>1
      <4> QED BY <3>2, <3>3, <4>1, <4>2 DEF ClosesAt
    <3>5. KeepsUpTo(s, k)
      <4>1. k \in 0 .. Len(s)
        BY <1>1, <3>4 DEF ClosesAt
      <4> QED BY <1>3, <3>4, <4>1, Zenon DEF KeepsUpTo
    <3> QED BY <2>1, <2>3, <3>2, <3>5
  <2> QED BY <2>2, <2>3
<1>4. CASE ~(s # <<>> /\ s[1] = "[")
  <2> DEFINE ported == /\ colons # {} /\ Max(colons) > 1
                       /\ ToSet(SubSeq(s, Max(colons) + 1, Len(s))) \subseteq Digits
  <2>1. strip_port_str(s) = IF ported THEN SubSeq(s, 1, Max(colons) - 1) ELSE s
    BY <1>4, Zenon DEF strip_port_str
  <2>2. colons # {} => Max(colons) \in colons /\ Max(colons) \in Nat /\ \A y \in colons : y <= Max(colons)
    <3>1. colons \subseteq 0 .. Len(s)
      BY <1>1
    <3> QED BY <1>1, <3>1, GreatestOf
  <2>3. ASSUME colons # {}
        PROVE  ToSet(SubSeq(s, Max(colons) + 1, Len(s))) \subseteq Digits
                 <=> \A j \in Max(colons) + 1 .. Len(s) : s[j] \in Digits
    <3>1. Max(colons) \in Nat /\ Max(colons) <= Len(s) /\ 1 <= Max(colons)
      BY <1>1, <2>2, <2>3
    <3> HIDE DEF colons
    <3> QED BY <3>1, PartDigits, Zenon
  <2>a. \A j : j \in colons <=> j \in 1 .. Len(s) /\ s[j] = ":"
    BY <1>1
  <2> HIDE DEF colons
  <2>4. CASE ported
    <3>1. PICK c \in Nat : c = Max(colons)
      BY <2>2, <2>4
    <3>2. c > 1 /\ c \in 1 .. Len(s) /\ s[c] = ":" /\ \A j \in c + 1 .. Len(s) : s[j] \in Digits
      BY <2>2, <2>3, <2>4, <2>a, <3>1
    <3>3. PICK k \in Nat : k = c - 1
      BY <3>2
    <3>4. k >= 1 /\ k + 1 = c /\ k + 2 = c + 1 /\ k \in 0 .. Len(s) /\ k + 1 <= Len(s)
      BY <1>1, <3>2, <3>3
    <3>5. PortAfter(s, k)
      BY <3>2, <3>4 DEF PortAfter
    <3>6. KeepsUpTo(s, k)
      BY <1>4, <3>4, <3>5 DEF KeepsUpTo
    <3>7. strip_port_str(s) = SubSeq(s, 1, k)
      BY <2>1, <2>4, <3>1, <3>3
    <3> QED BY <3>6, <3>7
  <2>5. CASE ~ported
    <3>1. ASSUME NEW j \in 1 .. Len(s), PortAfter(s, j) PROVE FALSE
      <4>1. PICK c \in Nat : c = j + 1
        BY <1>1
      <4>2. c > 1 /\ c \in 1 .. Len(s) /\ s[c] = ":" /\ \A i \in c + 1 .. Len(s) : s[i] \in Digits
        <5>1. j + 2 = c + 1
          BY <1>1, <4>1
        <5> QED BY <1>1, <3>1, <4>1, <5>1 DEF PortAfter
      <4>3. \A y \in colons : y <= c
        <5> SUFFICES ASSUME NEW y \in colons, ~(y <= c) PROVE FALSE
          OBVIOUS
        <5>1. y \in c + 1 .. Len(s) /\ s[y] = ":"
          BY <1>1, <2>a, <4>2
        <5> QED BY <4>2, <5>1, ColonNoDigit
      <4>4. c \in colons
        BY <2>a, <4>2
      <4>5. Max(colons) = c
        <5>1. Max(colons) \in Nat /\ c <= Max(colons) /\ Max(colons) <= c
          BY <2>2, <4>3, <4>4
        <5> QED BY <5>1
      <4> QED BY <2>3, <2>5, <4>2, <4>4, <4>5
    <3>2. KeepsUpTo(s, Len(s))
      BY <1>1, <1>4, <3>1 DEF KeepsUpTo
    <3> QED BY <1>2, <2>1, <2>5, <3>2
  <2> QED BY <2>4, <2>5
<1> QED BY <1>3, <1>4

\* Names, character by character: the host is the name, or the name and a
\* port.
LEMMA NamesAre ==
  ASSUME NEW host \in Text, NEW name \in Text
  PROVE  Names(host, name) <=>
           /\ AgreeUpTo(host, name, Len(name))
           /\ Len(host) = Len(name) \/ PortAfter(host, Len(name))
<1> DEFINE h == to_ascii_lowercase(host)
           n == to_ascii_lowercase(name)
           colon == <<":">>
<1>1. Len(host) \in Nat /\ Len(name) \in Nat
  BY TextFacts
<1>2. /\ h \in Text /\ Len(h) = Len(host) /\ \A i \in 1 .. Len(host) : h[i] = Lower(host[i])
      /\ n \in Text /\ Len(n) = Len(name) /\ \A i \in 1 .. Len(name) : n[i] = Lower(name[i])
  BY LowerText
<1>3. colon \in Text /\ Len(colon) = 1 /\ colon[1] = ":"
  BY LiteralsAssumption DEF Text
<1>4. h = n <=> Len(host) = Len(name) /\ AgreeUpTo(host, name, Len(name))
  BY LowerEqual
<1>5. Names(host, name) <=>
        \/ h = n
        \/ IsPrefix(n \o colon, h) /\ ToSet(SubSeq(h, Len(n) + 2, Len(h))) \subseteq Digits
  BY DEF Names
<1> HIDE DEF h, n, colon
<1>6. /\ n \o colon \in Text /\ Len(n \o colon) = Len(n) + Len(colon)
      /\ \A i \in 1 .. Len(n) : (n \o colon)[i] = n[i]
      /\ \A i \in 1 .. Len(colon) : (n \o colon)[Len(n) + i] = colon[i]
  BY <1>2, <1>3, ConcatText
<1>7. IsPrefix(n \o colon, h) <=>
        Len(n \o colon) <= Len(h) /\ \A i \in 1 .. Len(n \o colon) : (n \o colon)[i] = h[i]
  BY <1>2, <1>6, PrefixIs
<1> DEFINE nc == n \o colon
           m == Len(name)
<1>8. /\ nc \in Text /\ Len(nc) = m + 1 /\ nc[m + 1] = ":"
      /\ \A i \in 1 .. m : nc[i] = Lower(name[i])
  <2>1. Len(nc) = m + 1
    BY <1>2, <1>3, <1>6, Zenon
  <2>2. 1 \in 1 .. 1
    OBVIOUS
  <2>3. nc[m + 1] = ":"
    BY <1>2, <1>3, <1>6, <2>2, Zenon
  <2> QED BY <1>2, <1>6, <2>1, <2>3, Zenon
<1> HIDE DEF nc
<1>9. IsPrefix(nc, h) <=>
        m + 1 <= Len(host) /\ host[m + 1] = ":" /\ AgreeUpTo(host, name, m)
  <2>1. IsPrefix(nc, h) <=> m + 1 <= Len(host) /\ \A i \in 1 .. m + 1 : nc[i] = h[i]
    BY <1>2, <1>7, <1>8 DEF nc
  <2>2. SUFFICES ASSUME m + 1 <= Len(host)
                 PROVE  (\A i \in 1 .. m + 1 : nc[i] = h[i]) <=> host[m + 1] = ":" /\ AgreeUpTo(host, name, m)
    BY <2>1
  <2>3. (\A i \in 1 .. m + 1 : nc[i] = h[i]) <=> nc[m + 1] = h[m + 1] /\ \A i \in 1 .. m : nc[i] = h[i]
    BY <1>1
  <2>4. nc[m + 1] = h[m + 1] <=> host[m + 1] = ":"
    <3>1. h[m + 1] = Lower(host[m + 1])
      BY <1>1, <1>2, <2>2
    <3> QED BY <1>8, <3>1, LowerColon
  <2>5. (\A i \in 1 .. m : nc[i] = h[i]) <=> AgreeUpTo(host, name, m)
    <3>1. \A i \in 1 .. m : h[i] = Lower(host[i])
      BY <1>1, <1>2, <2>2
    <3> QED BY <1>8, <3>1 DEF AgreeUpTo
  <2> QED BY <2>3, <2>4, <2>5
<1>10. ASSUME m + 1 <= Len(host)
       PROVE  ToSet(SubSeq(h, Len(n) + 2, Len(h))) \subseteq Digits <=> \A j \in m + 2 .. Len(host) : host[j] \in Digits
  <2>1. PICK k \in Nat : k = m + 1
    BY <1>1
  <2>2. k <= Len(h) /\ k + 1 = Len(n) + 2 /\ k + 1 = m + 2 /\ Len(h) = Len(host)
    BY <1>1, <1>2, <1>10, <2>1
  <2>3. ToSet(SubSeq(h, k + 1, Len(h))) \subseteq Digits <=> \A j \in k + 1 .. Len(h) : h[j] \in Digits
    BY <1>2, <2>2, PartDigits
  <2>4. \A j \in k + 1 .. Len(h) : h[j] \in Digits <=> host[j] \in Digits
    BY <1>1, <1>2, <2>1, LowerDigit
  <2>5. ToSet(SubSeq(h, k + 1, Len(h))) \subseteq Digits <=> \A j \in k + 1 .. Len(host) : host[j] \in Digits
    BY <2>2, <2>3, <2>4
  <2> QED BY <2>2, <2>5
<1>11. PortAfter(host, m) <=> m + 1 <= Len(host) /\ host[m + 1] = ":" /\ \A j \in m + 2 .. Len(host) : host[j] \in Digits
  BY <1>1 DEF PortAfter
<1> HIDE DEF m
<1> QED BY <1>4, <1>5, <1>9, <1>10, <1>11, Zenon DEF nc, m

\* A well-formed host in brackets ends with its bracket or with a port.
LEMMA BracketsClose ==
  ASSUME NEW host \in Text, WellFormed(host), host # <<>>, host[1] = "["
  PROVE  \E i : ClosesAt(host, i) /\ (i = Len(host) \/ PortAfter(host, i))
<1>1. Len(host) \in Nat /\ DOMAIN host = 1 .. Len(host)
  BY TextFacts
<1>2. PICK i \in DOMAIN host :
        /\ host[i] = "]" /\ \A j \in 1 .. i - 1 : host[j] # "]"
        /\ i = Len(host) \/ (host[i + 1] = ":" /\ ToSet(SubSeq(host, i + 2, Len(host))) \subseteq Digits)
  BY DEF WellFormed
<1>3. ClosesAt(host, i)
  BY <1>1, <1>2 DEF ClosesAt
<1>4. ASSUME i # Len(host) PROVE PortAfter(host, i)
  <2>1. i \in Nat /\ i + 1 \in Nat /\ i + 1 <= Len(host) /\ (i + 1) + 1 = i + 2
    BY <1>1, <1>4
  <2>2. ToSet(SubSeq(host, (i + 1) + 1, Len(host))) \subseteq Digits
          <=> \A j \in (i + 1) + 1 .. Len(host) : host[j] \in Digits
    BY <2>1, PartDigits, Zenon
  <2>3. ToSet(SubSeq(host, i + 2, Len(host))) \subseteq Digits
          <=> \A j \in i + 2 .. Len(host) : host[j] \in Digits
    BY <2>1, <2>2
  <2> QED BY <1>2, <1>4, <2>1, <2>3 DEF PortAfter
<1> QED BY <1>3, <1>4

\* A text has one port.
LEMMA OnePort ==
  ASSUME NEW s \in Text, NEW i, NEW j, PortAfter(s, i), PortAfter(s, j)
  PROVE  i = j
<1>1. Len(s) \in Nat /\ i \in Nat /\ j \in Nat
  BY TextFacts DEF PortAfter
<1>2. ~(i < j)
  BY <1>1, ColonNoDigit DEF PortAfter
<1>3. ~(j < i)
  BY <1>1, ColonNoDigit DEF PortAfter
<1> QED BY <1>1, <1>2, <1>3

\* How much strip_port_str keeps of a host that is a name without a port, up
\* to letter case and with or without a port: the name.
LEMMA KeepsTheName ==
  ASSUME NEW host \in Text, WellFormed(host), NEW name \in Text, name # <<>>,
         KeepsUpTo(name, Len(name)), AgreeUpTo(host, name, Len(name)),
         Len(host) = Len(name) \/ PortAfter(host, Len(name)),
         NEW k, KeepsUpTo(host, k)
  PROVE  k = Len(name)
<1>1. Len(host) \in Nat /\ Len(name) \in Nat /\ Len(name) >= 1 /\ (host = <<>> <=> Len(host) = 0)
  BY TextFacts
<1>2. Len(host) >= Len(name) /\ host # <<>>
  BY <1>1 DEF PortAfter
<1>3. \A i \in 1 .. Len(name) :
        /\ host[i] = ":" <=> name[i] = ":"
        /\ host[i] = "[" <=> name[i] = "["
        /\ host[i] = "]" <=> name[i] = "]"
        /\ host[i] \in Digits <=> name[i] \in Digits
  BY LowerChars DEF AgreeUpTo
<1>4. k \in 0 .. Len(host) /\ k \in Nat
  BY <1>1 DEF KeepsUpTo
<1>5. host[1] = "[" <=> name[1] = "["
  BY <1>1, <1>3
<1>6. CASE host[1] = "["
  <2>1. PICK i : ClosesAt(host, i) /\ (i = Len(host) \/ PortAfter(host, i))
    BY <1>2, <1>6, BracketsClose
  <2>2. ClosesAt(host, k)
    <3>1. i \in 1 .. Len(host) /\ host[i] = "]"
      BY <2>1 DEF ClosesAt
    <3> QED BY <1>2, <1>6, <3>1 DEF KeepsUpTo
  <2>3. k = i
    <3>1. i \in Nat /\ k \in Nat /\ ~(i < k) /\ ~(k < i)
      BY <1>1, <2>1, <2>2 DEF ClosesAt
    <3> QED BY <3>1
  <2>4. CASE Len(host) = Len(name)
    <3>1. \A j \in 1 .. Len(name) : name[j] = "]" => j = Len(name)
      <4> SUFFICES ASSUME NEW j \in 1 .. Len(name), name[j] = "]", j # Len(name) PROVE FALSE
        OBVIOUS
      <4>1. j \in 1 .. Len(name) - 1
        BY <1>1
      <4>2. ClosesAt(name, Len(name))
        BY <1>5, <1>6 DEF KeepsUpTo
      <4> QED BY <4>1, <4>2 DEF ClosesAt
    <3>2. k \in 1 .. Len(name) /\ host[k] = "]"
      BY <2>2, <2>4 DEF ClosesAt
    <3> QED BY <1>3, <3>1, <3>2
  <2>5. CASE PortAfter(host, Len(name))
    <3>1. i # Len(host)
      <4> SUFFICES ASSUME i = Len(host) PROVE FALSE
        OBVIOUS
      <4>1. host[Len(host)] = "]"
        BY <2>1 DEF ClosesAt
      <4>2. Len(host) = Len(name) + 1 \/ Len(host) \in Len(name) + 2 .. Len(host)
        BY <1>1, <2>5 DEF PortAfter
      <4> QED BY <2>5, <4>1, <4>2, ColonNoDigit DEF PortAfter
    <3> QED BY <2>1, <2>3, <2>5, <3>1, OnePort
  <2> QED BY <2>4, <2>5
<1>7. CASE host[1] # "["
  <2>1. \/ k >= 1 /\ PortAfter(host, k)
        \/ k = Len(host) /\ \A j \in 1 .. Len(host) : ~PortAfter(host, j)
    BY <1>2, <1>7 DEF KeepsUpTo
  <2>2. CASE Len(host) = Len(name)
    <3> SUFFICES ASSUME k # Len(name) PROVE FALSE
      OBVIOUS
    <3>1. k >= 1 /\ PortAfter(host, k)
      BY <2>1, <2>2
    <3>2. PortAfter(name, k) /\ k \in 1 .. Len(name)
      BY <1>1, <1>3, <1>4, <2>2, <3>1 DEF PortAfter
    <3>3. \/ Len(name) >= 1 /\ PortAfter(name, Len(name))
          \/ \A j \in 1 .. Len(name) : ~PortAfter(name, j)
      BY <1>5, <1>7 DEF KeepsUpTo
    <3>4. ~PortAfter(name, Len(name))
      BY <1>1 DEF PortAfter
    <3> QED BY <3>2, <3>3, <3>4
  <2>3. CASE PortAfter(host, Len(name))
    <3>1. Len(name) \in 1 .. Len(host)
      BY <1>1, <1>2
    <3>2. PortAfter(host, k)
      BY <2>1, <2>3, <3>1
    <3> QED BY <2>3, <3>2, OnePort
  <2> QED BY <2>2, <2>3
<1> QED BY <1>6, <1>7

\* What strip_port_str keeps of a well-formed host is followed by nothing or
\* by a port.
LEMMA CutsAPort ==
  ASSUME NEW host \in Text, WellFormed(host), NEW k, KeepsUpTo(host, k)
  PROVE  k = Len(host) \/ PortAfter(host, k)
<1>1. Len(host) \in Nat
  BY TextFacts
<1>2. CASE host # <<>> /\ host[1] = "["
  <2>1. PICK i : ClosesAt(host, i) /\ (i = Len(host) \/ PortAfter(host, i))
    BY <1>2, BracketsClose
  <2>2. i \in 1 .. Len(host) /\ host[i] = "]"
    BY <2>1 DEF ClosesAt
  <2>3. ClosesAt(host, k)
    BY <1>2, <2>2 DEF KeepsUpTo
  <2>4. i \in Nat /\ k \in Nat /\ ~(i < k) /\ ~(k < i)
    BY <1>1, <2>1, <2>3 DEF ClosesAt
  <2>5. k = i
    BY <2>4
  <2> QED BY <2>1, <2>5
<1>3. CASE ~(host # <<>> /\ host[1] = "[")
  BY <1>3 DEF KeepsUpTo
<1> QED BY <1>2, <1>3

\* extract_host finds a subdomain route exactly in the hosts that name it.
LEMMA HostNamesRoute ==
  ASSUME NEW host \in Text, WellFormed(host), NEW name \in Text, name # <<>>,
         strip_port_str(name) = name
  PROVE  to_ascii_lowercase(strip_port_str(host)) = to_ascii_lowercase(name) <=> Names(host, name)
<1>1. Len(host) \in Nat /\ Len(name) \in Nat
  BY TextFacts
<1>2. PICK k : KeepsUpTo(host, k) /\ strip_port_str(host) = SubSeq(host, 1, k)
  BY StripPortKeeps
<1>3. k \in Nat /\ k <= Len(host)
  BY <1>1, <1>2 DEF KeepsUpTo
<1> DEFINE kept == SubSeq(host, 1, k)
<1>4. kept \in Text /\ Len(kept) = k /\ \A i \in 1 .. k : kept[i] = host[i]
  BY <1>1, <1>3, PrefixPart
<1>5. KeepsUpTo(name, Len(name))
  <2>1. PICK n : KeepsUpTo(name, n) /\ strip_port_str(name) = SubSeq(name, 1, n)
    BY StripPortKeeps
  <2>2. n \in Nat /\ n <= Len(name)
    BY <1>1, <2>1 DEF KeepsUpTo
  <2>3. Len(SubSeq(name, 1, n)) = n
    BY <2>2, PrefixPart
  <2>4. n = Len(name)
    BY <2>1, <2>3
  <2> QED BY <2>1, <2>4
<1> HIDE DEF kept
<1>6. to_ascii_lowercase(kept) = to_ascii_lowercase(name) <=> k = Len(name) /\ AgreeUpTo(host, name, Len(name))
  <2>1. to_ascii_lowercase(kept) = to_ascii_lowercase(name) <=> Len(kept) = Len(name) /\ AgreeUpTo(kept, name, Len(name))
    BY <1>4, LowerEqual
  <2>2. k = Len(name) => (AgreeUpTo(kept, name, Len(name)) <=> AgreeUpTo(host, name, Len(name)))
    BY <1>4 DEF AgreeUpTo
  <2> QED BY <1>4, <2>1, <2>2
<1>7. Names(host, name) <=>
        /\ AgreeUpTo(host, name, Len(name))
        /\ Len(host) = Len(name) \/ PortAfter(host, Len(name))
  BY NamesAre
<1>8. ASSUME k = Len(name) PROVE Len(host) = Len(name) \/ PortAfter(host, Len(name))
  BY <1>2, <1>8, CutsAPort
<1>9. ASSUME AgreeUpTo(host, name, Len(name)), Len(host) = Len(name) \/ PortAfter(host, Len(name))
      PROVE  k = Len(name)
  BY <1>2, <1>5, <1>9, KeepsTheName
<1> QED BY <1>2, <1>6, <1>7, <1>8, <1>9 DEF kept

-----------------------------------------------------------------------------
(* Who gets a request                                                      *)

\* The requests and applications RoutedToItsOwner is about.
Regular(applications, r) ==
  /\ r.host # None /\ WellFormed(r.host)
  /\ \A app \in ToSet(applications) : app.routing = "Subdomain" => strip_port_str(app.route_name) = app.route_name

\* What RoutedToItsOwner says of a request.
OwnedBy(applications, r, name) ==
  \E app \in ToSet(applications) :
    /\ app.name = name /\ Covers(app, r)
    /\ \A other \in ToSet(applications) \ {app} : Covers(other, r) => Rank[other.routing] > Rank[app.routing]

\* The tables find the i-th application for this host and segment.
Owns(apps, h, seg, i) == OwnsSubdomain(apps, h, i) \/ OwnsPath(apps, seg, i) \/ OwnsDefault(apps, i)

\* An application's route covers a request exactly when the tables find the
\* application under the request's host or first segment, or as a default.
LEMMA CoversIsOwns ==
  ASSUME NEW o \in OptionInputs, ErrorCode(o) = None, NEW r \in RequestInputs,
         Regular(o.applications, r), NEW i \in DOMAIN o.applications
  PROVE  Covers(o.applications[i], r) <=>
           Owns(o.applications, extract_host(r.host), extract_first_path_segment(PathOf(r.target)), i)
<1> DEFINE app == o.applications[i]
           h == extract_host(r.host)
           seg == extract_first_path_segment(PathOf(r.target))
<1>1. /\ app \in RawApplication
      /\ app.routing # "Default" => app.route_name \in Text /\ app.route_name # <<>>
      /\ app.routing = "Path" => "/" \notin ToSet(app.route_name)
  BY AcceptedNames
<1>2. r.host \in Optional(Text) /\ PathOf(r.target) \in Text
  <2>1. {r.host, r.cookie, r.header} \subseteq Optional(Text) /\ r.target \in Text
    BY RequestAssumption
  <2> QED BY <2>1, PathAndQuery
<1>3. /\ OwnsSubdomain(o.applications, h, i) <=> app.routing = "Subdomain" /\ to_ascii_lowercase(app.route_name) = h
      /\ OwnsPath(o.applications, seg, i) <=> app.routing = "Path" /\ app.route_name = seg
      /\ OwnsDefault(o.applications, i) <=> app.routing = "Default"
  BY DEF OwnsSubdomain, OwnsPath, OwnsDefault, SubdomainKey
<1>a. /\ app.routing = "Subdomain" => strip_port_str(app.route_name) = app.route_name
      /\ r.host # None /\ WellFormed(r.host)
  BY DEF Regular, ToSet
<1> HIDE DEF app, h, seg
<1>4. app.routing \in {"Path", "Subdomain", "Default"}
  BY <1>1 DEF RawApplication, RoutingTypes
<1>5. ASSUME app.routing = "Subdomain"
      PROVE  r.host # None /\ Names(r.host, app.route_name) <=> to_ascii_lowercase(app.route_name) = h
  <2>1. h = to_ascii_lowercase(strip_port_str(r.host))
    BY DEF h, extract_host
  <2>2. r.host \in Text /\ WellFormed(r.host)
    BY <1>2, <1>a DEF Optional
  <2>3. to_ascii_lowercase(strip_port_str(r.host)) = to_ascii_lowercase(app.route_name) <=> Names(r.host, app.route_name)
    BY <1>1, <1>5, <1>a, <2>2, HostNamesRoute
  <2> QED BY <1>a, <2>1, <2>3
<1>6. ASSUME app.routing = "Path"
      PROVE  StartsWith(PathOf(r.target), app.route_name) <=> app.route_name = seg
  BY <1>1, <1>2, <1>6, SegmentStartsPath DEF seg
<1>7. Covers(app, r) <=>
        \/ app.routing = "Subdomain" /\ r.host # None /\ Names(r.host, app.route_name)
        \/ app.routing = "Path" /\ StartsWith(PathOf(r.target), app.route_name)
        \/ app.routing = "Default"
  BY <1>4 DEF Covers
<1> QED BY <1>3, <1>5, <1>6, <1>7 DEF app, h, seg, Owns

\* validate_applications leaves every subdomain, path and the default route
\* one owner.
LEMMA OneOwner ==
  ASSUME NEW o \in OptionInputs, ErrorCode(o) = None, NEW h, NEW seg, NEW i, NEW j,
         \/ OwnsSubdomain(o.applications, h, i) /\ OwnsSubdomain(o.applications, h, j)
         \/ OwnsPath(o.applications, seg, i) /\ OwnsPath(o.applications, seg, j)
         \/ OwnsDefault(o.applications, i) /\ OwnsDefault(o.applications, j)
  PROVE  i = j
<1>1. validate_applications(o.applications)
  BY ErrorCodes DEF ErrorCode
<1> DEFINE apps == o.applications
<1>2. i \in DOMAIN apps /\ j \in DOMAIN apps /\ SameRoute(apps[i], apps[j])
  BY DEF OwnsSubdomain, OwnsPath, OwnsDefault, SameRoute
<1> QED BY <1>1, <1>2 DEF validate_applications

\* The application a request was routed to covers it, and any other that does
\* comes later in the precedence.
LEMMA OwnerWins ==
  ASSUME NEW apps, NEW h, NEW seg, NEW r, NEW i \in DOMAIN apps,
         \A j \in DOMAIN apps : Covers(apps[j], r) <=> Owns(apps, h, seg, j),
         \/ OwnsSubdomain(apps, h, i) /\ \A j : OwnsSubdomain(apps, h, j) => j = i
         \/ /\ OwnsPath(apps, seg, i) /\ \A j : OwnsPath(apps, seg, j) => j = i
            /\ \A j : ~OwnsSubdomain(apps, h, j)
         \/ /\ OwnsDefault(apps, i) /\ \A j : OwnsDefault(apps, j) => j = i
            /\ \A j : ~OwnsSubdomain(apps, h, j) /\ ~OwnsPath(apps, seg, j)
  PROVE  OwnedBy(apps, r, apps[i].name)
<1>1. Covers(apps[i], r)
  BY DEF Owns
<1>2. ASSUME NEW j \in DOMAIN apps, Covers(apps[j], r), j # i
      PROVE  Rank[apps[j].routing] > Rank[apps[i].routing]
  <2>1. Rank["Subdomain"] = 1 /\ Rank["Path"] = 2 /\ Rank["Default"] = 3
    BY DEF Rank
  <2>2. OwnsSubdomain(apps, h, j) \/ OwnsPath(apps, seg, j) \/ OwnsDefault(apps, j)
    BY <1>2 DEF Owns
  <2>3. /\ \A k : OwnsSubdomain(apps, h, k) => apps[k].routing = "Subdomain"
        /\ \A k : OwnsPath(apps, seg, k) => apps[k].routing = "Path"
        /\ \A k : OwnsDefault(apps, k) => apps[k].routing = "Default"
    BY DEF OwnsSubdomain, OwnsPath, OwnsDefault
  <2>4. CASE OwnsSubdomain(apps, h, i) /\ \A k : OwnsSubdomain(apps, h, k) => k = i
    <3>1. apps[i].routing = "Subdomain" /\ apps[j].routing \in {"Path", "Default"}
      BY <1>2, <2>2, <2>3, <2>4
    <3> QED BY <2>1, <3>1
  <2>5. CASE /\ OwnsPath(apps, seg, i) /\ \A k : OwnsPath(apps, seg, k) => k = i
             /\ \A k : ~OwnsSubdomain(apps, h, k)
    <3>1. apps[i].routing = "Path" /\ apps[j].routing = "Default"
      BY <1>2, <2>2, <2>3, <2>5
    <3> QED BY <2>1, <3>1
  <2>6. CASE /\ OwnsDefault(apps, i) /\ \A k : OwnsDefault(apps, k) => k = i
             /\ \A k : ~OwnsSubdomain(apps, h, k) /\ ~OwnsPath(apps, seg, k)
    BY <1>2, <2>2, <2>6
  <2> QED BY <2>4, <2>5, <2>6
<1>3. \A other \in ToSet(apps) \ {apps[i]} : Covers(other, r) => Rank[other.routing] > Rank[apps[i].routing]
  BY <1>2, Zenon DEF ToSet
<1>4. apps[i] \in ToSet(apps)
  BY DEF ToSet
<1> QED BY <1>1, <1>3, <1>4, Zenon DEF OwnedBy

\* RoutedToItsOwner: validate_applications, the route tables, strip_port_str
\* and extract_first_path_segment together send every request that has a well
\* formed host to the one application whose route covers it with the highest
\* precedence, and answer it with 404 only when none does.
THEOREM RoutedToOwner == RoutingSpec => []RoutedToItsOwner
<1>1. RoutingInv => RoutedToItsOwner
  <2> SUFFICES ASSUME RoutingInv, request # None, answer \in {None, 404, 500},
                      Regular(options.applications, request)
               PROVE  IF answer = 404 THEN \A app \in ToSet(options.applications) : ~Covers(app, request)
                      ELSE OwnedBy(options.applications, request, ctx.app_name)
    BY Zenon DEF RoutedToItsOwner, Regular, OwnedBy
  <2> DEFINE apps == options.applications
             h == extract_host(request.host)
             seg == extract_first_path_segment(PathOf(request.target))
             route == Route(request.host, request.target)
  <2>1. /\ options \in OptionInputs /\ ErrorCode(options) = None /\ request \in RequestInputs
        /\ Filtered(request) /\ RouteChoice(apps, h, seg, route)
    BY FilteredRoute
  <2>2. \A i \in DOMAIN apps : Covers(apps[i], request) <=> Owns(apps, h, seg, i)
    BY <2>1, CoversIsOwns
  <2>3. \A i \in DOMAIN apps : apps[i].name # None
    <3>1. \A i \in DOMAIN apps : apps[i] \in RawApplication
      BY <2>1, AcceptedNames
    <3> QED BY <3>1, MissingAssumption DEF RawApplication
  <2>4. /\ answer = 404 => route.app_name = None
        /\ answer \in {None, 500} => route.app_name # None /\ ctx.app_name = route.app_name
    <3>1. request_limit_rejection_status(request.size, proxy.limits) \in {None, 413, 414, 431}
      BY FirstFailingCheck
    <3> QED BY <2>1, <3>1, NoneIsNoStatus DEF Filtered
  <2>5. /\ \A i, j : OwnsSubdomain(apps, h, i) /\ OwnsSubdomain(apps, h, j) => i = j
        /\ \A i, j : OwnsPath(apps, seg, i) /\ OwnsPath(apps, seg, j) => i = j
        /\ \A i, j : OwnsDefault(apps, i) /\ OwnsDefault(apps, j) => i = j
    BY <2>1, OneOwner
  <2>6. /\ \A i : OwnsSubdomain(apps, h, i) => i \in DOMAIN apps
        /\ \A i : OwnsPath(apps, seg, i) => i \in DOMAIN apps
        /\ \A i : OwnsDefault(apps, i) => i \in DOMAIN apps
    BY DEF OwnsSubdomain, OwnsPath, OwnsDefault
  <2> HIDE DEF apps, h, seg, route
  <2>7. CASE answer = 404
    <3>1. \A i : ~Owns(apps, h, seg, i)
      BY <2>1, <2>3, <2>4, <2>6, <2>7 DEF RouteChoice, Owns
    <3>2. \A i \in DOMAIN apps : ~Covers(apps[i], request)
      BY <2>2, <3>1
    <3>3. \A app \in ToSet(apps) : ~Covers(app, request)
      <4> SUFFICES ASSUME NEW app \in ToSet(apps) PROVE ~Covers(app, request)
        OBVIOUS
      <4>1. PICK i \in DOMAIN apps : app = apps[i]
        BY DEF ToSet
      <4> QED BY <3>2, <4>1
    <3> QED BY <2>7, <3>3 DEF apps
  <2>8. CASE answer # 404
    <3>0. answer \in {None, 500}
      BY <2>8
    <3>1. PICK i \in DOMAIN apps :
            /\ ctx.app_name = apps[i].name
            /\ \/ OwnsSubdomain(apps, h, i)
               \/ OwnsPath(apps, seg, i) /\ \A j : ~OwnsSubdomain(apps, h, j)
               \/ OwnsDefault(apps, i) /\ \A j : ~OwnsSubdomain(apps, h, j) /\ ~OwnsPath(apps, seg, j)
      BY <2>1, <2>4, <2>6, <3>0 DEF RouteChoice
    <3>2. \/ OwnsSubdomain(apps, h, i) /\ \A j : OwnsSubdomain(apps, h, j) => j = i
          \/ /\ OwnsPath(apps, seg, i) /\ \A j : OwnsPath(apps, seg, j) => j = i
             /\ \A j : ~OwnsSubdomain(apps, h, j)
          \/ /\ OwnsDefault(apps, i) /\ \A j : OwnsDefault(apps, j) => j = i
             /\ \A j : ~OwnsSubdomain(apps, h, j) /\ ~OwnsPath(apps, seg, j)
      BY <2>5, <3>1
    <3>3. OwnedBy(apps, request, apps[i].name)
      BY <2>2, <3>1, <3>2, OwnerWins
    <3> QED BY <2>8, <3>1, <3>3 DEF apps
  <2> QED BY <2>7, <2>8
<1> QED BY <1>1, RoutingInductive, PTL

-----------------------------------------------------------------------------
(* The affinity cookie                                                     *)

\* The name and the value of a pair, and whether they are the cookie sought.
CookieName(p) == split(p, "=")[0]
CookieValue(p) == trim(SubSeq(p, Len(CookieName(p)) + 2, Len(p)))
Fits(p, name) ==
  "=" \in ToSet(p) /\ CookieName(p) = name /\ is_cookie_safe_affinity_key(CookieValue(p))
Found(raw, name) == {i \in DOMAIN split(raw, Semicolon) : Fits(trim(split(raw, Semicolon)[i]), name)}

\* extract_cookie_value in these terms.
LEMMA CookieIs ==
  ASSUME NEW raw, NEW name
  PROVE  extract_cookie_value(raw, name) =
           IF raw = None \/ Found(raw, name) = {} THEN None
           ELSE CookieValue(trim(split(raw, Semicolon)[Min(Found(raw, name))]))
BY Zenon DEF extract_cookie_value, Found, Fits, CookieValue, CookieName

\* Trimming leaves a text.
LEMMA TrimText ==
  ASSUME NEW s \in Text
  PROVE  trim(s) \in Text
<1> DEFINE ink == {i \in DOMAIN s : s[i] # Blank}
<1>1. Len(s) \in Nat /\ DOMAIN s = 1 .. Len(s)
  BY TextFacts
<1>2. trim(s) = IF ink = {} THEN <<>> ELSE SubSeq(s, Min(ink), Max(ink))
  BY DEF trim
<1>3. CASE ink = {}
  BY <1>2, <1>3, EmptySeq DEF Text
<1>4. CASE ink # {}
  <2>1. ink \subseteq Nat /\ ink \subseteq 1 .. Len(s) /\ ink \subseteq 0 .. Len(s)
    BY <1>1
  <2> HIDE DEF ink
  <2>2. Min(ink) \in ink /\ Min(ink) \in Nat
    BY <1>4, <2>1, LeastOf
  <2>3. Max(ink) \in ink /\ Max(ink) \in Nat /\ \A y \in ink : y <= Max(ink)
    BY <1>1, <1>4, <2>1, GreatestOf
  <2>4. 1 <= Min(ink) /\ Min(ink) <= Max(ink) + 1 /\ Max(ink) <= Len(s)
    BY <1>1, <2>1, <2>2, <2>3
  <2>5. SubSeq(s, Min(ink), Max(ink)) \in Text
    BY <2>2, <2>3, <2>4, PartUpTo, Zenon
  <2> QED BY <1>2, <1>4, <2>5
<1> QED BY <1>3, <1>4

\* Trimming a text whose blanks are all in front.
LEMMA TrimFront ==
  ASSUME NEW s \in Text, NEW m \in 1 .. Len(s),
         \A j \in 1 .. m - 1 : s[j] = Blank, \A j \in m .. Len(s) : s[j] # Blank
  PROVE  trim(s) = SubSeq(s, m, Len(s))
<1> DEFINE ink == {i \in DOMAIN s : s[i] # Blank}
<1>1. Len(s) \in Nat /\ DOMAIN s = 1 .. Len(s)
  BY TextFacts
<1>2. trim(s) = IF ink = {} THEN <<>> ELSE SubSeq(s, Min(ink), Max(ink))
  BY DEF trim
<1>3. \A j : j \in ink <=> j \in m .. Len(s)
  BY <1>1
<1> HIDE DEF ink
<1>4. ink # {} /\ ink \subseteq Nat /\ ink \subseteq 0 .. Len(s) /\ m \in ink /\ Len(s) \in ink
  BY <1>1, <1>3
<1>5. Min(ink) \in Nat /\ Min(ink) \in ink /\ \A y \in ink : Min(ink) <= y
  BY <1>4, LeastOf
<1>6. Max(ink) \in Nat /\ Max(ink) \in ink /\ \A y \in ink : y <= Max(ink)
  BY <1>1, <1>4, GreatestOf
<1>7. Min(ink) <= m /\ m <= Min(ink) /\ Max(ink) <= Len(s) /\ Len(s) <= Max(ink)
  BY <1>1, <1>3, <1>4, <1>5, <1>6
<1>8. Min(ink) = m /\ Max(ink) = Len(s)
  BY <1>1, <1>5, <1>6, <1>7
<1> QED BY <1>2, <1>4, <1>8

\* A text without blanks is left alone.
LEMMA TrimNothing ==
  ASSUME NEW s \in Text, s # <<>>, \A j \in 1 .. Len(s) : s[j] # Blank
  PROVE  trim(s) = s
<1>1. 1 \in 1 .. Len(s)
  BY TextFacts
<1>2. trim(s) = SubSeq(s, 1, Len(s))
  BY <1>1, TrimFront
<1> QED BY <1>2, SubSeqFull DEF Text

\* Where the pieces of a text are.
LEMMA PiecePlaces ==
  ASSUME NEW s \in Text, NEW c
  PROVE  DOMAIN split(s, c) \subseteq 0 .. Len(s) /\ DOMAIN split(s, c) \subseteq Nat
<1>1. DOMAIN split(s, c) = {0} \cup {i \in 1 .. Len(s) : s[i] = c}
  BY SplitPieces, Zenon
<1>2. Len(s) \in Nat
  BY TextFacts
<1> QED BY <1>1, <1>2

\* The pieces of a text are texts.
LEMMA PieceText ==
  ASSUME NEW s \in Text, NEW c, NEW i \in DOMAIN split(s, c)
  PROVE  split(s, c)[i] \in Text
<1>1. Len(s) \in Nat /\ i \in Nat
  BY TextFacts, SplitPieces
<1>2. PICK e : PieceEnd(s, c, i, e)
  BY SplitPieces
<1>3. e \in Nat /\ i + 1 <= e /\ e <= Len(s) + 1 /\ i + 1 \in Nat /\ 1 <= i + 1
  BY <1>1, <1>2 DEF PieceEnd
<1>4. split(s, c)[i] = SubSeq(s, i + 1, e - 1)
  BY <1>2, PieceIs, Zenon
<1>5. SubSeq(s, i + 1, e - 1) \in Text
  BY <1>3, PartOf, Zenon
<1> QED BY <1>4, <1>5

\* The value of a pair is a text.
LEMMA ValueText ==
  ASSUME NEW p \in Text, "=" \in ToSet(p)
  PROVE  CookieValue(p) \in Text
<1>1. Len(p) \in Nat /\ DOMAIN p = 1 .. Len(p)
  BY TextFacts
<1>2. PICK j \in 1 .. Len(p) : p[j] = "="
  BY <1>1 DEF ToSet
<1>3. 0 \in DOMAIN split(p, "=")
  BY SplitPieces
<1>4. PICK e : PieceEnd(p, "=", 0, e)
  BY <1>3, SplitPieces
<1>5. e \in Nat /\ 1 <= e /\ e <= Len(p)
  BY <1>1, <1>2, <1>4 DEF PieceEnd
<1>6. CookieName(p) = SubSeq(p, 0 + 1, e - 1)
  BY <1>3, <1>4, PieceIs, Zenon DEF CookieName
<1>7. Len(SubSeq(p, 1, e - 1)) = e - 1
  BY <1>1, <1>5, PartOf
<1>8. Len(CookieName(p)) + 2 = e + 1
  BY <1>5, <1>6, <1>7
<1>9. SubSeq(p, e + 1, Len(p)) \in Text
  BY <1>1, <1>5, PartUpTo
<1> QED BY <1>8, <1>9, TrimText DEF CookieValue

\* A value that extract_cookie_value returns is a safe key.
LEMMA ExtractedIsSafe ==
  ASSUME NEW raw, raw = None \/ raw \in Text, NEW name, extract_cookie_value(raw, name) # None
  PROVE  /\ extract_cookie_value(raw, name) \in Text
         /\ is_cookie_safe_affinity_key(extract_cookie_value(raw, name))
<1> DEFINE found == Found(raw, name)
           pair == trim(split(raw, Semicolon)[Min(found)])
<1>1. raw # None /\ found # {} /\ extract_cookie_value(raw, name) = CookieValue(pair)
  BY CookieIs
<1>2. found \subseteq DOMAIN split(raw, Semicolon)
  BY Zenon DEF Found
<1>3. raw \in Text /\ found \subseteq Nat
  <2>1. raw \in Text
    BY <1>1
  <2>2. DOMAIN split(raw, Semicolon) \subseteq Nat
    BY <2>1, PiecePlaces
  <2> QED BY <1>2, <2>1, <2>2
<1>4. Min(found) \in found
  BY <1>1, <1>3, LeastOf
<1>5. Fits(pair, name) /\ Min(found) \in DOMAIN split(raw, Semicolon)
  BY <1>4 DEF Found
<1>6. pair \in Text
  BY <1>1, <1>5, PieceText, TrimText
<1>7. CookieValue(pair) \in Text
  BY <1>5, <1>6, ValueText DEF Fits
<1> QED BY <1>1, <1>5, <1>7 DEF Fits

\* A text that the separators of a Cookie header leave in one piece.
Plain(s) ==
  /\ s \in Text /\ s # <<>>
  /\ \A j \in 1 .. Len(s) : s[j] # Blank /\ s[j] # "=" /\ s[j] # Semicolon

\* A safe key is such a text.
LEMMA SafeIsPlain ==
  ASSUME NEW key \in Text, is_cookie_safe_affinity_key(key)
  PROVE  Plain(key)
<1>1. Len(key) \in Nat /\ DOMAIN key = 1 .. Len(key)
  BY TextFacts
<1>2. key # <<>> /\ ToSet(key) \subseteq Alphanumeric \cup {".", "_", "-"}
  BY DEF is_cookie_safe_affinity_key
<1>3. \A c \in Alphanumeric \cup {".", "_", "-"} : c # Blank /\ c # "=" /\ c # Semicolon
  BY AlphabetAssumption, SeparatorsAssumption, Zenon
<1>4. \A j \in 1 .. Len(key) : key[j] \in Alphanumeric \cup {".", "_", "-"}
  BY <1>1, <1>2 DEF ToSet
<1> QED BY <1>2, <1>3, <1>4 DEF Plain

\* The separators are characters.
LEMMA SeparatorTexts == "=" \in STRING /\ Semicolon \in STRING /\ Blank \in STRING
BY SeparatorsAssumption, Zenon

\* The cookie a response sets.
Pair(name, key) == name \o <<"=">> \o key

\* What it is made of.
LEMMA PairText ==
  ASSUME NEW name, NEW key, Plain(name), Plain(key)
  PROVE  /\ Pair(name, key) \in Text /\ Len(Pair(name, key)) = Len(name) + 1 + Len(key)
         /\ \A i \in 1 .. Len(name) : Pair(name, key)[i] = name[i]
         /\ Pair(name, key)[Len(name) + 1] = "="
         /\ \A i \in 1 .. Len(key) : Pair(name, key)[Len(name) + 1 + i] = key[i]
<1> DEFINE eq == <<"=">>
           front == name \o eq
<1>1. name \in Text /\ key \in Text
  BY DEF Plain
<1>2. eq \in Text /\ Len(eq) = 1 /\ eq[1] = "="
  <2>1. "=" \in STRING
    BY SeparatorTexts, Zenon
  <2> QED BY <2>1 DEF Text
<1>3. Len(name) \in Nat /\ Len(key) \in Nat
  BY <1>1, TextFacts
<1> HIDE DEF eq
<1>4. /\ front \in Text /\ Len(front) = Len(name) + 1
      /\ \A i \in 1 .. Len(name) : front[i] = name[i]
      /\ front[Len(name) + 1] = "="
  <2>1. /\ front \in Text /\ Len(front) = Len(name) + Len(eq)
        /\ \A i \in 1 .. Len(name) : front[i] = name[i]
        /\ \A i \in 1 .. Len(eq) : front[Len(name) + i] = eq[i]
    BY <1>1, <1>2, ConcatText
  <2> QED BY <1>2, <1>3, <2>1
<1> HIDE DEF front
<1>5. /\ front \o key \in Text /\ Len(front \o key) = Len(front) + Len(key)
      /\ \A i \in 1 .. Len(front) : (front \o key)[i] = front[i]
      /\ \A i \in 1 .. Len(key) : (front \o key)[Len(front) + i] = key[i]
  BY <1>1, <1>4, ConcatText
<1>6. Pair(name, key) = front \o key
  BY DEF Pair, front, eq
<1> QED BY <1>3, <1>4, <1>5, <1>6

\* It has neither blanks nor semicolons.
LEMMA PairIsOnePiece ==
  ASSUME NEW name, NEW key, Plain(name), Plain(key)
  PROVE  \A j \in 1 .. Len(Pair(name, key)) : Pair(name, key)[j] # Blank /\ Pair(name, key)[j] # Semicolon
<1> DEFINE p == Pair(name, key)
<1>1. Len(name) \in Nat /\ Len(key) \in Nat
  BY TextFacts DEF Plain
<1>2. /\ Len(p) = Len(name) + 1 + Len(key)
      /\ \A i \in 1 .. Len(name) : p[i] = name[i]
      /\ p[Len(name) + 1] = "="
      /\ \A i \in 1 .. Len(key) : p[Len(name) + 1 + i] = key[i]
  BY PairText
<1>4. \A i \in 1 .. Len(name) : name[i] # Blank /\ name[i] # Semicolon
  BY Zenon DEF Plain
<1>5. \A i \in 1 .. Len(key) : key[i] # Blank /\ key[i] # Semicolon
  BY Zenon DEF Plain
<1> HIDE DEF p
<1>3. ASSUME NEW j \in 1 .. Len(p)
      PROVE  p[j] # Blank /\ p[j] # Semicolon
  <2>1. CASE j <= Len(name)
    <3>1. j \in 1 .. Len(name)
      BY <1>1, <1>2, <2>1
    <3> QED BY <1>2, <1>4, <3>1
  <2>2. CASE j = Len(name) + 1
    <3>1. p[j] = "="
      BY <1>2, <2>2
    <3> QED BY <3>1, SeparatorsAssumption, Zenon
  <2>3. CASE j > Len(name) + 1
    <3>1. PICK i \in 1 .. Len(key) : j = Len(name) + 1 + i
      <4>1. j - Len(name) - 1 \in 1 .. Len(key) /\ j = Len(name) + 1 + (j - Len(name) - 1)
        BY <1>1, <1>2, <2>3
      <4> QED BY <4>1
    <3> QED BY <1>2, <1>5, <3>1
  <2>4. j <= Len(name) \/ j = Len(name) + 1 \/ j > Len(name) + 1
    BY <1>1, <1>2
  <2> QED BY <2>1, <2>2, <2>3, <2>4
<1> QED BY <1>3 DEF p

\* The pair is the cookie that is sought, and its value is the key.
LEMMA PairFits ==
  ASSUME NEW name, NEW key, Plain(name), Plain(key), is_cookie_safe_affinity_key(key)
  PROVE  /\ trim(Pair(name, key)) = Pair(name, key)
         /\ Fits(Pair(name, key), name) /\ CookieValue(Pair(name, key)) = key
<1> DEFINE p == Pair(name, key)
           n == Len(name) + 1
<1>1. name \in Text /\ key \in Text /\ Len(name) \in Nat /\ Len(key) \in Nat
  BY TextFacts DEF Plain
<1>2. /\ p \in Text /\ Len(p) = Len(name) + 1 + Len(key)
      /\ \A i \in 1 .. Len(name) : p[i] = name[i]
      /\ p[n] = "="
      /\ \A i \in 1 .. Len(key) : p[n + i] = key[i]
  BY PairText
<1>3. \A j \in 1 .. Len(p) : p[j] # Blank /\ p[j] # Semicolon
  BY PairIsOnePiece
<1> HIDE DEF p
<1>4. trim(p) = p
  <2>1. p # <<>>
    BY <1>1, <1>2, TextFacts
  <2> QED BY <1>2, <1>3, <2>1, TrimNothing
<1>5. "=" \in ToSet(p)
  <2>1. DOMAIN p = 1 .. Len(p)
    BY <1>2, TextFacts
  <2>2. n \in DOMAIN p
    BY <1>1, <1>2, <2>1
  <2> QED BY <1>2, <2>2 DEF ToSet
<1>6. CookieName(p) = name
  <2>1. 0 \in DOMAIN split(p, "=")
    BY <1>2, SplitPieces
  <2>2. PieceEnd(p, "=", 0, n)
    <3>1. n \in 0 + 1 .. Len(p) + 1
      BY <1>1, <1>2
    <3>2. \A i \in 1 .. Len(name) : name[i] # "="
      BY Zenon DEF Plain
    <3>3. \A j \in 0 + 1 .. n - 1 : j \in 1 .. Len(name)
      BY <1>1
    <3>4. \A j \in 0 + 1 .. n - 1 : p[j] # "="
      BY <1>2, <3>2, <3>3
    <3> QED BY <1>2, <3>1, <3>4 DEF PieceEnd
  <2>3. CookieName(p) = SubSeq(p, 0 + 1, n - 1)
    <3> HIDE DEF n
    <3> QED BY <1>2, <2>1, <2>2, PieceIs DEF CookieName
  <2>4. /\ SubSeq(p, 1, n - 1) \in Text /\ Len(SubSeq(p, 1, n - 1)) = n - 1
        /\ \A i \in 1 .. n - 1 : SubSeq(p, 1, n - 1)[i] = p[1 + i - 1]
    BY <1>1, <1>2, PartOf
  <2>5. SubSeq(p, 1, n - 1) = name
    <3>1. n - 1 = Len(name)
      BY <1>1
    <3>2. \A i \in 1 .. n - 1 : p[1 + i - 1] = p[i]
      BY <1>1
    <3>3. \A i \in 1 .. Len(name) : SubSeq(p, 1, n - 1)[i] = name[i]
      BY <1>2, <2>4, <3>1, <3>2
    <3> QED BY <1>1, <2>4, <3>1, <3>3, TextEqual
  <2> QED BY <2>3, <2>5
<1>7. SubSeq(p, Len(CookieName(p)) + 2, Len(p)) = key
  <2>1. Len(CookieName(p)) + 2 = n + 1
    BY <1>1, <1>6
  <2>2. n + 1 \in Nat /\ Len(p) \in Nat /\ 1 <= n + 1 /\ n + 1 <= Len(p) + 1 /\ Len(p) + 1 - (n + 1) = Len(key)
    BY <1>1, <1>2
  <2>3. /\ SubSeq(p, n + 1, Len(p)) \in Text
        /\ Len(SubSeq(p, n + 1, Len(p))) = Len(p) + 1 - (n + 1)
        /\ \A i \in 1 .. Len(p) + 1 - (n + 1) : SubSeq(p, n + 1, Len(p))[i] = p[n + 1 + i - 1]
    BY <1>2, <2>2, PartUpTo
  <2>4. \A i \in 1 .. Len(key) : SubSeq(p, n + 1, Len(p))[i] = key[i]
    BY <1>1, <1>2, <2>2, <2>3
  <2>5. SubSeq(p, n + 1, Len(p)) = key
    BY <1>1, <2>2, <2>3, <2>4, TextEqual
  <2> QED BY <2>1, <2>5
<1>8. CookieValue(p) = key
  BY <1>1, <1>7, TrimNothing DEF CookieValue, Plain
<1> QED BY <1>4, <1>5, <1>6, <1>8 DEF Fits, p

\* Two characters are a text.
LEMMA TwoCharacters ==
  ASSUME NEW x \in STRING, NEW y \in STRING
  PROVE  <<x, y>> \in Text /\ Len(<<x, y>>) = 2 /\ <<x, y>>[1] = x /\ <<x, y>>[2] = y
<1>1. ASSUME NEW S, NEW a \in S, NEW b \in S
      PROVE  <<a, b>> \in Seq(S)
  OBVIOUS
<1>2. Len(<<x, y>>) = 2 /\ <<x, y>>[1] = x /\ <<x, y>>[2] = y
  OBVIOUS
<1> QED BY <1>1, <1>2 DEF Text

\* A text followed by a semicolon, a blank and another one.
Header(a, b) == a \o <<Semicolon, Blank>> \o b

\* What such a header is made of.
LEMMA HeaderText ==
  ASSUME NEW a \in Text, NEW b \in Text
  PROVE  /\ Header(a, b) \in Text /\ Len(Header(a, b)) = Len(a) + 2 + Len(b)
         /\ \A i \in 1 .. Len(a) : Header(a, b)[i] = a[i]
         /\ Header(a, b)[Len(a) + 1] = Semicolon /\ Header(a, b)[Len(a) + 2] = Blank
         /\ \A i \in 1 .. Len(b) : Header(a, b)[Len(a) + 2 + i] = b[i]
<1> DEFINE sep == <<Semicolon, Blank>>
           front == a \o sep
<1>1. sep \in Text /\ Len(sep) = 2 /\ sep[1] = Semicolon /\ sep[2] = Blank
  <2>1. Semicolon \in STRING /\ Blank \in STRING
    BY SeparatorTexts, Zenon
  <2> QED BY <2>1, TwoCharacters
<1>2. Len(a) \in Nat /\ Len(b) \in Nat
  BY TextFacts
<1> HIDE DEF sep
<1>3. /\ front \in Text /\ Len(front) = Len(a) + 2
      /\ \A i \in 1 .. Len(a) : front[i] = a[i]
      /\ front[Len(a) + 1] = Semicolon /\ front[Len(a) + 2] = Blank
  <2>1. /\ front \in Text /\ Len(front) = Len(a) + Len(sep)
        /\ \A i \in 1 .. Len(a) : front[i] = a[i]
        /\ \A i \in 1 .. Len(sep) : front[Len(a) + i] = sep[i]
    BY <1>1, ConcatText
  <2> QED BY <1>1, <1>2, <2>1
<1> HIDE DEF front
<1>4. /\ front \o b \in Text /\ Len(front \o b) = Len(front) + Len(b)
      /\ \A i \in 1 .. Len(front) : (front \o b)[i] = front[i]
      /\ \A i \in 1 .. Len(b) : (front \o b)[Len(front) + i] = b[i]
  BY <1>3, ConcatText
<1>5. Header(a, b) = front \o b
  BY DEF Header, front, sep
<1> QED BY <1>2, <1>3, <1>4, <1>5

\* A piece is the text whose characters it has.
LEMMA PieceAs ==
  ASSUME NEW s \in Text, NEW c, NEW i \in DOMAIN split(s, c), NEW e, PieceEnd(s, c, i, e),
         NEW t \in Text, Len(t) = e - (i + 1), \A k \in 1 .. Len(t) : s[i + k] = t[k]
  PROVE  split(s, c)[i] = t
<1>1. Len(s) \in Nat /\ i \in Nat /\ Len(t) \in Nat
  BY TextFacts, PiecePlaces
<1>2. e \in Nat /\ i + 1 \in Nat /\ 1 <= i + 1 /\ i + 1 <= e /\ e <= Len(s) + 1
  BY <1>1 DEF PieceEnd
<1>3. split(s, c)[i] = SubSeq(s, i + 1, e - 1)
  BY PieceIs
<1>4. /\ SubSeq(s, i + 1, e - 1) \in Text
      /\ Len(SubSeq(s, i + 1, e - 1)) = e - (i + 1)
      /\ \A k \in 1 .. e - (i + 1) : SubSeq(s, i + 1, e - 1)[k] = s[i + 1 + k - 1]
  BY <1>2, PartOf
<1>5. \A k \in 1 .. Len(t) : SubSeq(s, i + 1, e - 1)[k] = t[k]
  <2>1. \A k \in 1 .. Len(t) : i + 1 + k - 1 = i + k
    BY <1>1
  <2> QED BY <1>4, <2>1
<1> QED BY <1>3, <1>4, <1>5, TextEqual

\* The cookie comes first: it is the first pair, whatever follows.
LEMMA CookieFirst ==
  ASSUME NEW name, NEW key, NEW other \in Text,
         Plain(name), Plain(key), is_cookie_safe_affinity_key(key)
  PROVE  extract_cookie_value(Header(Pair(name, key), other), name) = key
<1> DEFINE p == Pair(name, key)
           raw == Header(p, other)
<1>1. p \in Text
  BY PairText
<1>2. \A j \in 1 .. Len(p) : p[j] # Semicolon
  BY PairIsOnePiece
<1>3. trim(p) = p /\ Fits(p, name) /\ CookieValue(p) = key
  BY PairFits
<1> HIDE DEF p
<1>4. /\ raw \in Text /\ Len(raw) = Len(p) + 2 + Len(other)
      /\ \A i \in 1 .. Len(p) : raw[i] = p[i]
      /\ raw[Len(p) + 1] = Semicolon
  BY <1>1, HeaderText
<1>5. Len(p) \in Nat /\ Len(other) \in Nat
  BY <1>1, TextFacts
<1> HIDE DEF raw
<1>6. 0 \in DOMAIN split(raw, Semicolon)
  BY <1>4, SplitPieces
<1>7. PieceEnd(raw, Semicolon, 0, Len(p) + 1)
  <2>1. Len(p) + 1 \in 0 + 1 .. Len(raw) + 1
    BY <1>4, <1>5
  <2>2. \A j \in 0 + 1 .. Len(p) + 1 - 1 : j \in 1 .. Len(p)
    BY <1>5
  <2>3. \A j \in 0 + 1 .. Len(p) + 1 - 1 : raw[j] # Semicolon
    BY <1>2, <1>4, <2>2
  <2> QED BY <1>4, <2>1, <2>3 DEF PieceEnd
<1>8. split(raw, Semicolon)[0] = p
  <2>1. Len(p) = Len(p) + 1 - (0 + 1) /\ \A k \in 1 .. Len(p) : raw[0 + k] = p[k]
    BY <1>4, <1>5
  <2> QED BY <1>1, <1>4, <1>6, <1>7, <2>1, PieceAs
<1>9. 0 \in Found(raw, name)
  BY <1>3, <1>6, <1>8 DEF Found
<1>10. Min(Found(raw, name)) = 0
  <2>1. Found(raw, name) \subseteq DOMAIN split(raw, Semicolon)
    BY Zenon DEF Found
  <2>2. DOMAIN split(raw, Semicolon) \subseteq Nat
    BY <1>4, PiecePlaces
  <2>3. /\ Min(Found(raw, name)) \in Nat
        /\ \A y \in Found(raw, name) : Min(Found(raw, name)) <= y
    BY <1>9, <2>1, <2>2, LeastOf
  <2> QED BY <1>9, <2>3
<1>11. raw # None
  BY <1>4, MissingAssumption DEF Text
<1>12. extract_cookie_value(raw, name) = CookieValue(trim(split(raw, Semicolon)[Min(Found(raw, name))]))
  BY <1>9, <1>11, CookieIs
<1> QED BY <1>3, <1>8, <1>10, <1>12 DEF raw, p

\* The pieces of a header before its last cookie are those of what it starts
\* with, and one more.
LEMMA HeaderPieces ==
  ASSUME NEW other \in Text, NEW p \in Text, \A j \in 1 .. Len(p) : p[j] # Semicolon
  PROVE  LET raw == Header(other, p) IN
         /\ DOMAIN split(raw, Semicolon) = DOMAIN split(other, Semicolon) \cup {Len(other) + 1}
         /\ \A i \in DOMAIN split(other, Semicolon) :
              split(raw, Semicolon)[i] = split(other, Semicolon)[i]
<1> DEFINE raw == Header(other, p)
<1>1. /\ raw \in Text /\ Len(raw) = Len(other) + 2 + Len(p)
      /\ \A i \in 1 .. Len(other) : raw[i] = other[i]
      /\ raw[Len(other) + 1] = Semicolon /\ raw[Len(other) + 2] = Blank
      /\ \A i \in 1 .. Len(p) : raw[Len(other) + 2 + i] = p[i]
  BY HeaderText
<1>2. Len(p) \in Nat /\ Len(other) \in Nat
  BY TextFacts
<1> HIDE DEF raw
<1>3. /\ DOMAIN split(raw, Semicolon) = {0} \cup {i \in 1 .. Len(raw) : raw[i] = Semicolon}
      /\ DOMAIN split(other, Semicolon) = {0} \cup {i \in 1 .. Len(other) : other[i] = Semicolon}
  <2>1. \A s \in Text : DOMAIN split(s, Semicolon) = {0} \cup {i \in 1 .. Len(s) : s[i] = Semicolon}
    BY SplitPieces, Zenon
  <2> QED BY <1>1, <2>1, Zenon
<1>4. \A i \in 1 .. Len(raw) :
        raw[i] = Semicolon <=> i = Len(other) + 1 \/ (i \in 1 .. Len(other) /\ other[i] = Semicolon)
  <2> SUFFICES ASSUME NEW i \in 1 .. Len(raw)
               PROVE  raw[i] = Semicolon <=>
                        i = Len(other) + 1 \/ (i \in 1 .. Len(other) /\ other[i] = Semicolon)
    OBVIOUS
  <2>1. CASE i <= Len(other)
    <3>1. i \in 1 .. Len(other) /\ i # Len(other) + 1
      BY <1>1, <1>2, <2>1
    <3> QED BY <1>1, <3>1
  <2>2. CASE i = Len(other) + 1
    BY <1>1, <2>2
  <2>3. CASE i = Len(other) + 2
    <3>1. i \notin 1 .. Len(other) /\ i # Len(other) + 1
      BY <1>2, <2>3
    <3>2. raw[i] # Semicolon
      BY <1>1, <2>3, SeparatorsAssumption
    <3> QED BY <3>1, <3>2
  <2>4. CASE i > Len(other) + 2
    <3>1. i \notin 1 .. Len(other) /\ i # Len(other) + 1
      BY <1>2, <2>4
    <3>2. i - Len(other) - 2 \in 1 .. Len(p) /\ i = Len(other) + 2 + (i - Len(other) - 2)
      BY <1>1, <1>2, <2>4
    <3>3. raw[i] = p[i - Len(other) - 2]
      BY <1>1, <3>2
    <3> QED BY <3>1, <3>2, <3>3
  <2>5. i <= Len(other) \/ i = Len(other) + 1 \/ i = Len(other) + 2 \/ i > Len(other) + 2
    BY <1>1, <1>2
  <2> QED BY <2>1, <2>2, <2>3, <2>4, <2>5
<1>5. DOMAIN split(raw, Semicolon) = DOMAIN split(other, Semicolon) \cup {Len(other) + 1}
  <2>1. Len(other) + 1 \in 1 .. Len(raw) /\ 1 .. Len(other) \subseteq 1 .. Len(raw)
    BY <1>1, <1>2
  <2> QED BY <1>3, <1>4, <2>1
<1>6. ASSUME NEW i \in DOMAIN split(other, Semicolon)
      PROVE  split(raw, Semicolon)[i] = split(other, Semicolon)[i]
  <2>1. i \in DOMAIN split(raw, Semicolon) /\ i \in Nat
    BY <1>5, PiecePlaces
  <2>2. PICK e : PieceEnd(other, Semicolon, i, e)
    BY SplitPieces
  <2>3. e \in Nat /\ i + 1 <= e /\ e <= Len(other) + 1
    BY <1>2, <2>1, <2>2 DEF PieceEnd
  <2>4. PieceEnd(raw, Semicolon, i, e)
    <3>1. e \in i + 1 .. Len(raw) + 1
      BY <1>1, <1>2, <2>1, <2>3
    <3>2. raw[e] = Semicolon
      <4>1. CASE e = Len(other) + 1
        BY <1>1, <4>1
      <4>2. CASE e # Len(other) + 1
        <5>1. e \in 1 .. Len(other) /\ other[e] = Semicolon
          BY <1>2, <2>1, <2>2, <2>3, <4>2 DEF PieceEnd
        <5> QED BY <1>1, <5>1
      <4> QED BY <4>1, <4>2
    <3>3. \A j \in i + 1 .. e - 1 : j \in 1 .. Len(other)
      BY <1>2, <2>1, <2>3
    <3>4. \A j \in i + 1 .. e - 1 : raw[j] # Semicolon
      BY <1>1, <2>2, <3>3 DEF PieceEnd
    <3> QED BY <3>1, <3>2, <3>4 DEF PieceEnd
  <2> DEFINE t == SubSeq(other, i + 1, e - 1)
  <2>5. split(other, Semicolon)[i] = t
    BY <2>2, PieceIs
  <2>6. /\ t \in Text /\ Len(t) = e - (i + 1)
        /\ \A k \in 1 .. e - (i + 1) : t[k] = other[i + 1 + k - 1]
    BY <1>2, <2>1, <2>3, PartOf
  <2> HIDE DEF t
  <2>7. \A k \in 1 .. Len(t) : i + 1 + k - 1 = i + k /\ i + k \in 1 .. Len(other)
    BY <1>2, <2>1, <2>3, <2>6
  <2>8. \A k \in 1 .. Len(t) : raw[i + k] = t[k]
    BY <1>1, <2>6, <2>7
  <2>9. split(raw, Semicolon)[i] = t
    BY <1>1, <2>1, <2>4, <2>6, <2>8, PieceAs
  <2> QED BY <2>5, <2>9
<1> QED BY <1>5, <1>6 DEF raw

\* The cookie comes last: no pair before it fits, and the blank is trimmed.
LEMMA CookieLast ==
  ASSUME NEW name, NEW key, NEW other \in Text, extract_cookie_value(other, name) = None,
         Plain(name), Plain(key), is_cookie_safe_affinity_key(key)
  PROVE  extract_cookie_value(Header(other, Pair(name, key)), name) = key
<1> DEFINE p == Pair(name, key)
           raw == Header(other, p)
           n == Len(other) + 1
<1>1. p \in Text
  BY PairText
<1>2. \A j \in 1 .. Len(p) : p[j] # Blank /\ p[j] # Semicolon
  BY PairIsOnePiece
<1>3. Fits(p, name) /\ CookieValue(p) = key /\ Len(p) # 0
  <2>1. Len(p) = Len(name) + 1 + Len(key) /\ Len(name) \in Nat /\ Len(key) \in Nat
    BY PairText, TextFacts DEF Plain
  <2> HIDE DEF p
  <2>2. Len(p) # 0
    BY <2>1
  <2> QED BY <2>2, PairFits DEF p
<1> HIDE DEF p
<1>4. /\ raw \in Text /\ Len(raw) = Len(other) + 2 + Len(p)
      /\ raw[n] = Semicolon /\ raw[n + 1] = Blank
      /\ \A i \in 1 .. Len(p) : raw[n + 1 + i] = p[i]
  <2>1. Len(other) \in Nat
    BY TextFacts
  <2>2. /\ raw \in Text /\ Len(raw) = Len(other) + 2 + Len(p)
        /\ raw[Len(other) + 1] = Semicolon /\ raw[Len(other) + 2] = Blank
        /\ \A i \in 1 .. Len(p) : raw[Len(other) + 2 + i] = p[i]
    BY <1>1, HeaderText
  <2>3. n + 1 = Len(other) + 2
    BY <2>1
  <2> QED BY <2>2, <2>3
<1>5. Len(p) \in Nat /\ Len(other) \in Nat
  BY <1>1, TextFacts
<1>6. /\ DOMAIN split(raw, Semicolon) = DOMAIN split(other, Semicolon) \cup {n}
      /\ \A i \in DOMAIN split(other, Semicolon) :
           split(raw, Semicolon)[i] = split(other, Semicolon)[i]
  BY <1>1, <1>2, HeaderPieces
<1> HIDE DEF raw
<1>7. \A i \in DOMAIN split(other, Semicolon) : ~Fits(trim(split(other, Semicolon)[i]), name)
  <2>1. other # None
    BY MissingAssumption DEF Text
  <2>2. Found(other, name) = {}
    <3> SUFFICES ASSUME Found(other, name) # {} PROVE FALSE
      OBVIOUS
    <3> DEFINE found == Found(other, name)
               pair == trim(split(other, Semicolon)[Min(found)])
    <3>1. extract_cookie_value(other, name) = CookieValue(pair)
      BY <2>1, CookieIs
    <3>2. found \subseteq DOMAIN split(other, Semicolon)
      BY Zenon DEF Found
    <3>3. found \subseteq Nat
      BY <3>2, PiecePlaces
    <3>4. Min(found) \in found
      BY <3>3, LeastOf
    <3>5. Min(found) \in DOMAIN split(other, Semicolon) /\ Fits(pair, name)
      BY <3>4 DEF Found
    <3>6. pair \in Text
      BY <3>5, PieceText, TrimText
    <3>7. CookieValue(pair) \in Text
      BY <3>5, <3>6, ValueText DEF Fits
    <3> QED BY <3>1, <3>7, MissingAssumption DEF Text
  <2> QED BY <2>2 DEF Found
<1>8. trim(split(raw, Semicolon)[n]) = p
  <2> DEFINE b == SubSeq(raw, n + 1, Len(raw) + 1 - 1)
  <2>1. PieceEnd(raw, Semicolon, n, Len(raw) + 1)
    <3>1. Len(raw) + 1 \in n + 1 .. Len(raw) + 1
      BY <1>4, <1>5
    <3>2. \A j \in n + 1 .. Len(raw) + 1 - 1 : j = n + 1 \/ (j - n - 1 \in 1 .. Len(p) /\ j = n + 1 + (j - n - 1))
      BY <1>4, <1>5
    <3>3. Blank # Semicolon
      BY SeparatorsAssumption
    <3>4. \A j \in n + 1 .. Len(raw) + 1 - 1 : raw[j] # Semicolon
      BY <1>2, <1>4, <3>2, <3>3
    <3> QED BY <3>1, <3>4 DEF PieceEnd
  <2>2. split(raw, Semicolon)[n] = b
    <3>1. n \in DOMAIN split(raw, Semicolon)
      BY <1>6
    <3> HIDE DEF n, b
    <3> QED BY <1>4, <2>1, <3>1, PieceIs DEF b
  <2>3. n + 1 \in Nat /\ Len(raw) + 1 \in Nat /\ n + 1 <= Len(raw) + 1 /\ Len(raw) + 1 - (n + 1) = Len(p) + 1
    BY <1>4, <1>5
  <2>4. /\ b \in Text /\ Len(b) = Len(p) + 1
        /\ \A i \in 1 .. Len(p) + 1 : b[i] = raw[n + 1 + i - 1]
    BY <1>4, <1>5, <2>3, PartOf
  <2> HIDE DEF b
  <2>5. b[1] = Blank
    <3>1. 1 \in 1 .. Len(p) + 1 /\ n + 1 + 1 - 1 = n + 1
      BY <1>5
    <3> QED BY <1>4, <2>4, <3>1
  <2>6. \A i \in 1 .. Len(p) : b[1 + i] = p[i]
    <3>1. \A i \in 1 .. Len(p) : 1 + i \in 1 .. Len(p) + 1 /\ n + 1 + (1 + i) - 1 = n + 1 + i
      BY <1>5
    <3> QED BY <1>4, <2>4, <3>1
  <2>7. trim(b) = SubSeq(b, 2, Len(b))
    <3>1. 2 \in 1 .. Len(b)
      BY <1>3, <1>5, <2>4
    <3>2. \A j \in 1 .. 2 - 1 : b[j] = Blank
      BY <2>5
    <3>3. \A j \in 2 .. Len(b) : j - 1 \in 1 .. Len(p) /\ j = 1 + (j - 1)
      BY <1>5, <2>4
    <3>4. \A j \in 2 .. Len(b) : b[j] # Blank
      BY <1>2, <2>6, <3>3
    <3> QED BY <2>4, <3>1, <3>2, <3>4, TrimFront
  <2>8. SubSeq(b, 2, Len(b)) = p
    <3>1. /\ SubSeq(b, 2, Len(b)) \in Text /\ Len(SubSeq(b, 2, Len(b))) = Len(b) + 1 - 2
          /\ \A i \in 1 .. Len(b) + 1 - 2 : SubSeq(b, 2, Len(b))[i] = b[2 + i - 1]
      BY <1>3, <1>5, <2>4, PartUpTo
    <3>2. Len(b) + 1 - 2 = Len(p) /\ \A i \in 1 .. Len(p) : 2 + i - 1 = 1 + i
      BY <1>5, <2>4
    <3>3. \A i \in 1 .. Len(p) : SubSeq(b, 2, Len(b))[i] = p[i]
      BY <2>6, <3>1, <3>2
    <3> QED BY <1>1, <3>1, <3>2, <3>3, TextEqual
  <2> QED BY <2>2, <2>7, <2>8
<1>9. Found(raw, name) = {n}
  <2>1. \A i \in DOMAIN split(raw, Semicolon) : Fits(trim(split(raw, Semicolon)[i]), name) <=> i = n
    <3>1. n \in DOMAIN split(raw, Semicolon) /\ Fits(trim(split(raw, Semicolon)[n]), name)
      BY <1>3, <1>6, <1>8
    <3> QED BY <1>6, <1>7, <3>1
  <2>2. n \in DOMAIN split(raw, Semicolon)
    BY <1>6
  <2> QED BY <2>1, <2>2 DEF Found
<1>10. Min(Found(raw, name)) = n
  <2>1. Min({n}) \in {n}
    BY <1>5, LeastOf
  <2> QED BY <1>9, <2>1
<1>11. raw # None
  BY <1>4, MissingAssumption DEF Text
<1>12. extract_cookie_value(raw, name) = CookieValue(trim(split(raw, Semicolon)[Min(Found(raw, name))]))
  BY <1>9, <1>11, CookieIs
<1> QED BY <1>3, <1>8, <1>10, <1>12 DEF raw, p

\* The name of the cookie of accepted options is a text, and not empty.
LEMMA CookieNameText ==
  ASSUME NEW o \in OptionInputs, ErrorCode(o) = None
  PROVE  LET name == parse_proxy_options(o).sticky.cookie_name IN name \in Text /\ name # <<>>
<1> DEFINE s == parse_sticky_session_options(o.sticky)
<1>1. parse_proxy_options(o).sticky = s
  BY ParsedSections, Zenon
<1>2. StickyAccepted(o.sticky)
  BY MissingAssumption, ErrorCodes, LiteralsAssumption DEF ErrorCode
<1>3. trim(s.cookie_name) # <<>>
  BY <1>2 DEF StickyAccepted
<1>4. o.sticky \in Optional(RawSticky)
  BY OptionsAssumption
<1>5. s.cookie_name \in Text
  BY <1>4, AffinityAssumption DEF parse_sticky_session_options, OrDefault, Optional, RawSticky
<1>6. trim(<<>>) = <<>>
  <2>1. {i \in DOMAIN <<>> : <<>>[i] # Blank} = {}
    OBVIOUS
  <2> QED BY <2>1 DEF trim
<1> QED BY <1>1, <1>3, <1>5, <1>6

\* The key of a request is a safe one, wherever it came from.
LEMMA KeyIsSafe ==
  ASSUME NEW r \in RequestInputs
  PROVE  AffinityKey(r) \in Text /\ is_cookie_safe_affinity_key(AffinityKey(r))
<1> DEFINE cookie == extract_cookie_value(r.cookie, proxy.sticky.cookie_name)
           header == extract_header_value(r.header)
<1>1. /\ r.cookie = None \/ r.cookie \in Text
      /\ r.header = None \/ r.header \in Text
  BY RequestAssumption DEF Optional
<1>2. cookie # None => cookie \in Text /\ is_cookie_safe_affinity_key(cookie)
  BY <1>1, ExtractedIsSafe
<1>3. header # None => header \in Text /\ is_cookie_safe_affinity_key(header)
  <2> SUFFICES ASSUME header # None PROVE header \in Text /\ is_cookie_safe_affinity_key(header)
    OBVIOUS
  <2>1. r.header # None /\ is_cookie_safe_affinity_key(trim(r.header)) /\ header = trim(r.header)
    BY DEF extract_header_value
  <2>2. trim(r.header) \in Text
    BY <1>1, <2>1, TrimText
  <2> QED BY <2>1, <2>2
<1>4. GeneratedKey \in Text /\ is_cookie_safe_affinity_key(GeneratedKey)
  BY AffinityAssumption
<1>5. \/ AffinityKey(r) = cookie /\ cookie # None
      \/ AffinityKey(r) = header /\ header # None
      \/ AffinityKey(r) = GeneratedKey
  <2> HIDE DEF cookie, header
  <2> QED BY DEF AffinityKey, cookie, header
<1> HIDE DEF cookie, header
<1> QED BY <1>2, <1>3, <1>4, <1>5

\* CookieKeepsSession: what response_filter puts into Set-Cookie, sent back
\* among other cookies, is read by extract_cookie_value as the key of the
\* session.
THEOREM CookieKeepsTheSession == RoutingSpec => []CookieKeepsSession
<1>1. RoutingInv => CookieKeepsSession
  <2> DEFINE name == proxy.sticky.cookie_name
             key == ctx.affinity_key
  <2> SUFFICES ASSUME RoutingInv, set_cookie # None, ToSet(name) \cap {Blank, "=", Semicolon} = {},
                      NEW other \in OtherCookies, extract_cookie_value(other, name) = None
               PROVE  /\ extract_cookie_value(Header(other, set_cookie), name) = key
                      /\ extract_cookie_value(Header(set_cookie, other), name) = key
    BY Zenon DEF CookieKeepsSession, Header
  <2>1. forwarded # None /\ ctx # None /\ request # None /\ key # None /\ set_cookie = Pair(name, key)
    BY DEF RoutingInv, Pair
  <2>2. /\ options \in OptionInputs /\ ErrorCode(options) = None
        /\ proxy = parse_proxy_options(options)
        /\ request \in RequestInputs /\ Filtered(request)
    BY <2>1, CreatedIsAccepted DEF RoutingInv
  <2>3. key = AffinityKey(request)
    BY <2>1, <2>2 DEF Filtered
  <2>4. key \in Text /\ is_cookie_safe_affinity_key(key)
    BY <2>2, <2>3, KeyIsSafe
  <2>5. name \in Text /\ name # <<>>
    BY <2>2, CookieNameText
  <2> HIDE DEF name, key
  <2>6. Plain(name)
    <3>1. DOMAIN name = 1 .. Len(name)
      BY <2>5, TextFacts
    <3>2. \A j \in 1 .. Len(name) : name[j] \in ToSet(name)
      BY <3>1 DEF ToSet
    <3>3. \A j \in 1 .. Len(name) : name[j] # Blank /\ name[j] # "=" /\ name[j] # Semicolon
      BY <3>2
    <3> QED BY <2>5, <3>3 DEF Plain
  <2>7. Plain(key)
    BY <2>4, SafeIsPlain
  <2>8. other \in Text
    BY AffinityAssumption
  <2>9. extract_cookie_value(Header(other, Pair(name, key)), name) = key
    BY <2>4, <2>6, <2>7, <2>8, CookieLast
  <2>10. extract_cookie_value(Header(Pair(name, key), other), name) = key
    BY <2>4, <2>6, <2>7, <2>8, CookieFirst
  <2> QED BY <2>1, <2>9, <2>10
<1> QED BY <1>1, RoutingInductive, PTL
=============================================================================
