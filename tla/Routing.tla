------------------------------ MODULE Routing ------------------------------
(***************************************************************************)
(* From the options to the request that is sent upstream: Proxy::new, the  *)
(* synchronous half of addUpstream, and of src/router.rs the parts of a    *)
(* request's life that read and write the request itself, which module     *)
(* Requests takes as given: the limits, host and path extraction, the      *)
(* route, the affinity cookie and the rewritten path.                      *)
(***************************************************************************)
EXTENDS Options

CONSTANTS
  OptionInputs,      \* the options a caller passes
  RequestInputs,     \* the requests that arrive
  UpstreamInputs,    \* the upstreams a caller passes
  MaxAffinityKey,    \* MAX_AFFINITY_KEY_LEN
  GeneratedKey,      \* what generate_affinity_key returns
  OtherCookies,      \* what else a client's Cookie header holds
  ControlCharacters, \* what no header value may hold
  Aborted            \* what stands for an answer when the request's task panics

\* What JavaScript values of the declared types become.
Text == Seq(STRING)
Optional(S) == {None} \cup S
RawApplication ==
  [name : STRING, routing : RoutingTypes, route_name : Optional(Text), sni : Optional(Text)]
RawSticky ==
  [enabled : Optional(BOOLEAN), cookie_name : Optional(Text), header_name : Optional(Text),
   ttl_ms : Optional(Nat), max_entries : Optional(Nat)]

ASSUME OptionsAssumption ==
  \A o \in OptionInputs :
    /\ o.applications \in Seq(RawApplication)
    /\ o.limits \in {None, Null} \cup [ToSet(LimitFields) -> {None, Null} \cup Nat]
    /\ o.timeouts \in Optional([TimeoutFields -> Optional(Nat)])
    /\ o.sticky \in Optional(RawSticky)
ASSUME RequestAssumption ==
  /\ None \notin RequestInputs
  /\ \A r \in RequestInputs :
       /\ {r.host, r.cookie, r.header} \subseteq Optional(Text)
       /\ r.target \in Text /\ r.target # <<>> /\ r.target[1] = "/"
       /\ r.size \in [ToSet(LimitFields) -> Optional(Nat)]
ASSUME AbortedAssumption == Aborted \notin Nat \cup {None}
ASSUME UpstreamAssumption == \A raw \in UpstreamInputs : raw.port \in Nat

VARIABLES
  options,     \* what the constructor was called with
  created,     \* how the constructor ended: None, "created" or an error code
  proxy,       \* the parsed options of the object, None without one
  request,     \* the request in hand, None before it arrives
  answer,      \* the status the router answered with itself, Aborted, or None
  ctx,         \* the RouterCtx of a request that was let through, or None
  forwarded,   \* the target the backend is sent, None before that
  set_cookie,  \* the name and value of the Set-Cookie of the response, or None
  upstream     \* the upstream the last addUpstream parsed or its error, or None

routingVars == <<options, created, proxy, request, answer, ctx, forwarded, set_cookie,
                 upstream>>

-----------------------------------------------------------------------------
(* Reading the request                                                     *)

strip_port_str(host) ==
  LET closing == {i \in DOMAIN host : host[i] = "]"}
      colons == {i \in DOMAIN host : host[i] = ":"}
  IN  CASE host # <<>> /\ host[1] = "[" -> IF closing = {} THEN host ELSE SubSeq(host, 1, Min(closing))
        [] OTHER -> IF /\ colons # {} /\ Max(colons) > 1
                       /\ ToSet(SubSeq(host, Max(colons) + 1, Len(host))) \subseteq Digits
                    THEN SubSeq(host, 1, Max(colons) - 1) ELSE host

\* For a Host header that is there and is text; see RequestAborts.
extract_host(host) == to_ascii_lowercase(strip_port_str(host))

\* http::Uri::path, and what split_once('?') leaves.
PathOf(target) == split(target, "?")[0]
QueryOf(target) == SubSeq(target, Len(PathOf(target)) + 1, Len(target))

\* The non-empty pieces of a path, by position.
Segments(path) == {i \in DOMAIN split(path, "/") : split(path, "/")[i] # <<>>}

extract_first_path_segment(path) ==
  IF Segments(path) = {} THEN None ELSE split(path, "/")[Min(Segments(path))]

\* The application and, for a path route, the segment to strip.
resolve_route(routes, host, segment) ==
  CASE host \in DOMAIN routes.subdomain_routes ->
         [app_name |-> routes.subdomain_routes[host], path_rewrite_segment |-> None]
    [] host \notin DOMAIN routes.subdomain_routes /\ segment \in DOMAIN routes.path_routes ->
         [app_name |-> routes.path_routes[segment], path_rewrite_segment |-> segment]
    [] OTHER -> [app_name |-> routes.default_app, path_rewrite_segment |-> None]

Route(host, target) ==
  resolve_route(proxy.routes, extract_host(host), extract_first_path_segment(PathOf(target)))

\* Mutant of LimitStatus: an oversized body is a bad request.
LimitStatusBadRequest == [UriBytes |-> 414, RequestHeaders |-> 431, SingleHeaderBytes |-> 431,
                          RequestHeaderBytes |-> 431, RequestBodyBytes |-> 400]

LimitStatus == [UriBytes |-> 414, RequestHeaders |-> 431, SingleHeaderBytes |-> 431,
                RequestHeaderBytes |-> 431, RequestBodyBytes |-> 413]

\* Mutant of Exceeds: a request of exactly the limit is refused.
Reaches(size, limits, f) == limits[f] # Null /\ size[f] # None /\ size[f] >= limits[f]

Exceeds(size, limits, f) == limits[f] # Null /\ size[f] # None /\ size[f] > limits[f]

\* The first check that fails decides.
request_limit_rejection_status(size, limits) ==
  LET failing == {i \in DOMAIN LimitFields : Exceeds(size, limits, LimitFields[i])} IN
    IF failing = {} THEN None ELSE LimitStatus[LimitFields[Min(failing)]]

\* Mutant of is_cookie_safe_affinity_key: any text of a fitting length.
AnyAffinityKey(value) == value # <<>> /\ Len(value) <= MaxAffinityKey

is_cookie_safe_affinity_key(value) ==
  /\ value # <<>> /\ Len(value) <= MaxAffinityKey
  /\ ToSet(value) \subseteq Alphanumeric \cup {".", "_", "-"}

\* The first pair with the cookie's name and a safe value.
extract_cookie_value(raw, cookie_name) ==
  LET pairs == split(raw, Semicolon)
      name(p) == split(p, "=")[0]
      value(p) == trim(SubSeq(p, Len(name(p)) + 2, Len(p)))
      fits(p) == "=" \in ToSet(p) /\ name(p) = cookie_name /\ is_cookie_safe_affinity_key(value(p))
      found == {i \in DOMAIN pairs : fits(trim(pairs[i]))}
  IN  IF raw = None \/ found = {} THEN None ELSE value(trim(pairs[Min(found)]))

extract_header_value(raw) ==
  IF raw # None /\ is_cookie_safe_affinity_key(trim(raw)) THEN trim(raw) ELSE None

\* A generated key is hexadecimal digits, fewer than MAX_AFFINITY_KEY_LEN.
ASSUME AffinityAssumption ==
  /\ GeneratedKey \in Text /\ is_cookie_safe_affinity_key(GeneratedKey)
  /\ DefaultSticky.cookie_name \in Text /\ OtherCookies \subseteq Text

AffinityKey(r) ==
  LET cookie == extract_cookie_value(r.cookie, proxy.sticky.cookie_name)
      header == extract_header_value(r.header)
  IN  CASE cookie # None -> cookie
        [] cookie = None /\ header # None -> header
        [] OTHER -> GeneratedKey

-----------------------------------------------------------------------------
(* Rewriting the request                                                   *)

\* Mutant of strip_first_path_segment: the query is lost.
StripForgetsQuery(target, segment) ==
  LET path == PathOf(target)
      remainder == SubSeq(path, Len(segment) + 2, Len(path))
  IN  IF IsPrefix(<<"/">> \o segment, path) /\ (remainder = <<>> \/ remainder[1] = "/")
      THEN IF remainder = <<>> THEN <<"/">> ELSE remainder ELSE None

\* "/segment" at the start of the path, up to a boundary, is cut off; None
\* when it is not there.
strip_first_path_segment(target, segment) ==
  LET path == PathOf(target)
      remainder == SubSeq(path, Len(segment) + 2, Len(path))
  IN  IF IsPrefix(<<"/">> \o segment, path) /\ (remainder = <<>> \/ remainder[1] = "/")
      THEN (IF remainder = <<>> THEN <<"/">> ELSE remainder) \o QueryOf(target)
      ELSE None

\* upstream_request_filter
Rewritten(target, segment) ==
  IF segment = None \/ strip_first_path_segment(target, segment) = None THEN target
  ELSE strip_first_path_segment(target, segment)

-----------------------------------------------------------------------------
RoutingInit ==
  /\ options \in OptionInputs
  /\ created = None /\ proxy = None
  /\ request = None /\ answer = None /\ ctx = None
  /\ forwarded = None /\ set_cookie = None
  /\ upstream = None

\* Proxy::new
New ==
  /\ created = None
  /\ created' = IF ErrorCode(options) = None THEN "created" ELSE ErrorCode(options)
  /\ proxy' = IF ErrorCode(options) = None THEN parse_proxy_options(options) ELSE None
  /\ UNCHANGED <<options, request, answer, ctx, forwarded, set_cookie, upstream>>

\* addUpstream and removeUpstream, before their promise is made.
UpstreamParsed ==
  /\ created = "created" /\ upstream = None /\ request = None
  /\ \E raw \in UpstreamInputs :
       upstream' = [raw |-> raw, error |-> UpstreamErrorCode(raw),
                    parsed |-> IF UpstreamErrorCode(raw) = None THEN parse_port_upstream(raw) ELSE None]
  /\ UNCHANGED <<options, created, proxy, request, answer, ctx, forwarded, set_cookie>>

\* A request arrives.  (Bound of the model: a behaviour follows one request or
\* one upstream.)
Arrives(r) ==
  /\ created = "created" /\ request = None /\ upstream = None
  /\ request' = r

\* extract_host without a Host header that is text: HeaderName::from_static
\* panics on ":authority", which is no header name, so the request's task
\* ends and its client gets no answer.
RequestAborts ==
  /\ \E r \in RequestInputs :
       /\ Arrives(r)
       /\ request_limit_rejection_status(r.size, proxy.limits) = None /\ r.host = None
  /\ answer' = Aborted
  /\ UNCHANGED <<options, created, proxy, ctx, forwarded, set_cookie, upstream>>

\* request_filter, for an application that has a pool.
RequestFilter ==
  /\ \E r \in RequestInputs :
       LET status == request_limit_rejection_status(r.size, proxy.limits)
           route == Route(r.host, r.target)
       IN
       /\ Arrives(r)
       /\ \/ status # None /\ answer' = status /\ UNCHANGED ctx
          \/ /\ status = None /\ r.host # None /\ route.app_name = None
             /\ answer' = 404 /\ UNCHANGED ctx
          \/ /\ status = None /\ r.host # None /\ route.app_name # None
             /\ ctx' = [app_name |-> route.app_name,
                        path_rewrite_segment |-> route.path_rewrite_segment,
                        affinity_key |-> IF proxy.sticky.enabled THEN AffinityKey(r) ELSE None]
             /\ UNCHANGED answer
  /\ UNCHANGED <<options, created, proxy, forwarded, set_cookie, upstream>>

UpstreamRequestFilter ==
  /\ ctx # None /\ forwarded = None
  /\ forwarded' = Rewritten(request.target, ctx.path_rewrite_segment)
  /\ UNCHANGED <<options, created, proxy, request, answer, ctx, set_cookie, upstream>>

\* response_filter: cookie_header_value, without the cookie's attributes; the
\* request fails without a hint when append_header refuses it.
ResponseFilter ==
  LET cookie == proxy.sticky.cookie_name \o <<"=">> \o ctx.affinity_key
      is_header == ToSet(cookie) \cap ControlCharacters = {}
  IN
  /\ forwarded # None /\ set_cookie = None /\ answer = None
  /\ ctx.affinity_key # None
  /\ \/ is_header /\ set_cookie' = cookie /\ UNCHANGED answer
     \/ ~is_header /\ answer' = 500 /\ UNCHANGED set_cookie
  /\ UNCHANGED <<options, created, proxy, request, ctx, forwarded, upstream>>

RoutingNext ==
  \/ New \/ UpstreamParsed \/ RequestAborts \/ RequestFilter \/ UpstreamRequestFilter
  \/ ResponseFilter

RoutingSpec == RoutingInit /\ [][RoutingNext]_routingVars

-----------------------------------------------------------------------------
RoutingTypeOK ==
  /\ options \in OptionInputs
  /\ created \in {None, "created", "InvalidApplicationOptions", "InvalidProxyOptions"}
  /\ request \in RequestInputs \cup {None}
  /\ answer \in {None, Aborted, 404, 413, 414, 431, 500}
  /\ ctx # None => \E app \in ToSet(options.applications) : ctx.app_name = app.name
  /\ upstream # None => upstream.error \in {None, "InvalidProxyOptions", "UnsupportedUpstreamType"}

\* The host a client writes names this route: letter case and port aside.
Names(host, name) ==
  LET h == to_ascii_lowercase(host)
      n == to_ascii_lowercase(name)
  IN  \/ h = n
      \/ IsPrefix(n \o <<":">>, h) /\ ToSet(SubSeq(h, Len(n) + 2, Len(h))) \subseteq Digits

\* An IP literal in brackets is complete, and nothing but a port follows it.
WellFormed(host) ==
  host # <<>> /\ host[1] = "[" =>
    \E i \in DOMAIN host :
      /\ host[i] = "]" /\ \A j \in 1 .. i - 1 : host[j] # "]"
      /\ i = Len(host) \/ (host[i + 1] = ":" /\ ToSet(SubSeq(host, i + 2, Len(host))) \subseteq Digits)

\* The path is slashes, the name, and the end or a slash.
StartsWith(path, name) ==
  \E n \in 0 .. Len(path) - Len(name) :
    /\ \A i \in 1 .. n : path[i] = "/"
    /\ SubSeq(path, n + 1, n + Len(name)) = name
    /\ n + Len(name) = Len(path) \/ path[n + Len(name) + 1] = "/"

\* The route of an application covers a request.
Covers(app, r) ==
  CASE app.routing = "Subdomain" -> r.host # None /\ Names(r.host, app.route_name)
    [] app.routing = "Path" -> StartsWith(PathOf(r.target), app.route_name)
    [] OTHER -> TRUE
Rank == [Subdomain |-> 1, Path |-> 2, Default |-> 3]

\* Accepted options never leave two applications competing for a request:
\* it goes to the one whose route covers it with the highest precedence,
\* subdomain before path before default, and to nobody (404) when none does.
\* For requests with a Host header that is not malformed, and subdomain routes
\* whose name has no port.
RoutedToItsOwner ==
  LET apps == ToSet(options.applications) IN
    /\ request # None /\ answer \in {None, 404, 500}
    /\ request.host # None /\ WellFormed(request.host)
    /\ \A app \in apps : app.routing = "Subdomain" => strip_port_str(app.route_name) = app.route_name
    => IF answer = 404 THEN \A app \in apps : ~Covers(app, request)
       ELSE \E app \in apps :
              /\ app.name = ctx.app_name /\ Covers(app, request)
              /\ \A other \in apps \ {app} : Covers(other, request) => Rank[other.routing] > Rank[app.routing]

\* README: "`type: 'default'` is the catch-all app used when no subdomain or
\* path route matches."  For requests within the limits whose host, if there
\* is one, is not malformed.
DefaultIsCatchAll ==
  LET apps == ToSet(options.applications) IN
    /\ request # None /\ answer \notin {413, 414, 431}
    /\ request.host # None => WellFormed(request.host)
    /\ \A app \in apps : app.routing # "Default" => ~Covers(app, request)
    => \A app \in apps : app.routing = "Default" => ctx # None /\ ctx.app_name = app.name

\* A path route takes nothing but its segment from the request: the original
\* target is "/segment" and the forwarded one, the query included; requests
\* that another kind of route took are forwarded as they came.  So are those
\* whose path starts with two slashes, although a path route may take them:
\* extract_first_path_segment skips empty segments, the stripping does not.
OnlySegmentStripped ==
  forwarded # None =>
    LET segment == ctx.path_rewrite_segment
        path == PathOf(request.target)
    IN  /\ QueryOf(forwarded) = QueryOf(request.target)
        /\ forwarded[1] = "/"
        /\ IF segment = None THEN forwarded = request.target
           ELSE \/ path = <<"/">> \o segment \o PathOf(forwarded)
                \/ path = <<"/">> \o segment /\ PathOf(forwarded) = <<"/">>
                \/ IsPrefix(<<"/", "/">>, path) /\ forwarded = request.target

\* A request is refused exactly when it is over a limit that is in force
\* (null disables one limit or all, a missing one has its default), with 414
\* before 431 before 413 when it is over several.
LimitsEnforced ==
  LET Over(f) ==
        LET l == options.limits IN
          /\ l # Null /\ (l # None => l[f] # Null)
          /\ request.size[f] # None
          /\ request.size[f] > IF l = None THEN DefaultLimit[f] ELSE OrDefault(l[f], DefaultLimit[f])
      headers == \E f \in {"RequestHeaders", "SingleHeaderBytes", "RequestHeaderBytes"} : Over(f)
  IN  request # None =>
        /\ answer = 414 <=> Over("UriBytes")
        /\ answer = 431 <=> headers /\ ~Over("UriBytes")
        /\ answer = 413 <=> Over("RequestBodyBytes") /\ ~headers /\ ~Over("UriBytes")

\* A client that returns the cookie stays in its session: wherever the key
\* came from, and whatever else the client sends, before or after the cookie,
\* that does not hold a key of its own, the key of the next request is the
\* one the response set.  For cookie names without blanks, "=" and Semicolon (the
\* options are not checked for those).
CookieKeepsSession ==
  LET name == proxy.sticky.cookie_name IN
    set_cookie # None /\ ToSet(name) \cap {Blank, "=", Semicolon} = {} =>
      \A other \in {c \in OtherCookies : extract_cookie_value(c, name) = None} :
        /\ extract_cookie_value(other \o <<Semicolon, Blank>> \o set_cookie, name) = ctx.affinity_key
        /\ extract_cookie_value(set_cookie \o <<Semicolon, Blank>> \o other, name) = ctx.affinity_key

\* What the other modules assume of their parameters is what the constructor
\* accepts: a store with room and a time to live, no limit and no timeout of
\* zero, and for a secure upstream of a path or default route a host name.
AcceptedMeansUsable ==
  created = "created" =>
    /\ proxy.sticky.ttl_ms > 0 /\ proxy.sticky.max_entries > 0
    /\ \A f \in ToSet(LimitFields) : proxy.limits[f] # Null => proxy.limits[f] > 0
    /\ \A f \in TimeoutFields : proxy.timeouts[f] > 0
    /\ \A app \in ToSet(proxy.applications) :
         app.routing # "Subdomain" /\ verify_hostname(app) # None => is_hostname_like(verify_hostname(app))

\* The narrowing of the port to 16 bits never changes it, and so never makes
\* one upstream of another.
PortKept ==
  upstream # None /\ upstream.error = None => upstream.parsed.port = upstream.raw.port
=============================================================================
