------------------------------ MODULE Options ------------------------------
(***************************************************************************)
(* What Proxy::new makes of its options (src/options.rs, and the route     *)
(* tables of build_router_config), and what addUpstream makes of its       *)
(* argument.  A parser is two operators: which values it accepts, and what *)
(* it returns for those.                                                   *)
(*                                                                         *)
(* A string is a sequence of one-character strings where the code looks    *)
(* inside it (routing names, host names), and an opaque value elsewhere.   *)
(***************************************************************************)
EXTENDS Integers, Sequences, FiniteSets, FiniteSetsExt, SequencesExt

CONSTANTS
  None, Null,       \* a missing option, and JavaScript's null
  Lowercase,        \* upper-case letter -> its lower-case letter
  Alphanumeric,     \* char::is_ascii_alphanumeric
  Digits,           \* char::is_ascii_digit
  MaxLabel,         \* longest label of a host name (63)
  DefaultLimit,     \* the defaults of the limits, by field
  DefaultTimeout,   \* the defaults of the timeouts, by field
  DefaultSticky,    \* the defaults of the sticky session options
  DefaultInterval   \* the default of healthCheckIntervalMs

LimitFields ==
  <<"UriBytes", "RequestHeaders", "SingleHeaderBytes", "RequestHeaderBytes", "RequestBodyBytes">>
TimeoutFields ==
  {"downstreamHeader", "downstreamBodyIdle", "upstreamConnect", "upstreamRead",
   "upstreamWrite", "downstreamKeepAlive"}
RoutingTypes == {"Path", "Subdomain", "Default"}

ASSUME DefaultsAssumption ==
  /\ DefaultLimit \in [ToSet(LimitFields) -> Nat \ {0}]
  /\ DefaultTimeout \in [TimeoutFields -> Nat \ {0}]
  /\ DefaultSticky.ttl_ms \in Nat \ {0} /\ DefaultSticky.max_entries \in Nat \ {0}
\* The only white space of the model's texts, and what ends a cookie.
Blank == " "
Semicolon == ";"

ASSUME AlphabetAssumption ==
  /\ Alphanumeric \subseteq STRING
  /\ DOMAIN Lowercase \subseteq Alphanumeric \ Digits /\ Digits \subseteq Alphanumeric
  /\ \A c \in DOMAIN Lowercase : Lowercase[c] \in Alphanumeric \ (DOMAIN Lowercase \cup Digits)
  /\ Alphanumeric \cap {Blank, "/", "?", ":", "[", "]", ".", "-", "_", Semicolon, "="} = {}
\* The literals are strings: spelled out because the provers do not know it.
ASSUME LiteralsAssumption ==
  {"created", "InvalidApplicationOptions", "InvalidProxyOptions", "UnsupportedUpstreamType",
   "/", "?", ":"} \subseteq STRING
ASSUME SeparatorsAssumption ==
  /\ {"=", Semicolon, Blank} \subseteq STRING
  /\ {Semicolon, Blank} \cap {"=", ".", "_", "-"} = {} /\ Semicolon # Blank
ASSUME MissingAssumption ==
  /\ None # Null /\ None \notin STRING /\ None \notin Seq(STRING) /\ {None, Null} \cap Nat = {}

-----------------------------------------------------------------------------
(* Strings                                                                 *)

to_ascii_lowercase(s) ==
  [i \in DOMAIN s |-> IF s[i] \in DOMAIN Lowercase THEN Lowercase[s[i]] ELSE s[i]]

\* str::trim
trim(s) ==
  LET ink == {i \in DOMAIN s : s[i] # Blank} IN
    IF ink = {} THEN <<>> ELSE SubSeq(s, Min(ink), Max(ink))

\* str::split: the pieces between the occurrences of c, empty ones included,
\* by the position each one comes after.
split(s, c) ==
  LET cuts == {i \in DOMAIN s : s[i] = c}
      end(i) == Min({j \in cuts : j > i} \cup {Len(s) + 1})
  IN  [i \in {0} \cup cuts |-> SubSeq(s, i + 1, end(i) - 1)]

-----------------------------------------------------------------------------
(* Applications                                                            *)

is_hostname_like(value) ==
  \A label \in ToSet(split(value, ".")) :
    /\ label # <<>> /\ Len(label) <= MaxLabel
    /\ label[1] # "-" /\ Last(label) # "-"
    /\ ToSet(label) \subseteq Alphanumeric \cup {"-"}

SniAccepted(sni) == sni # None => is_hostname_like(trim(sni))

parse_application_sni(sni) == IF sni = None THEN None ELSE trim(sni)

\* parse_application_options accepts the application (require_routing_name).
ApplicationAccepted(app) ==
  /\ SniAccepted(app.sni)
  /\ app.routing # "Default" => app.route_name # None

parse_application_options(app) == [app EXCEPT !.sni = parse_application_sni(app.sni)]

\* Mutant of SubdomainKey: duplicates are told apart by case.
SubdomainAsGiven(app) == app.route_name

\* The key under which a subdomain route is stored and compared.
SubdomainKey(app) == to_ascii_lowercase(app.route_name)

\* Two applications that want the same route.
SameRoute(a, b) ==
  /\ a.routing = b.routing
  /\ \/ a.routing = "Default"
     \/ a.routing = "Subdomain" /\ SubdomainKey(a) = SubdomainKey(b)
     \/ a.routing = "Path" /\ a.route_name = b.route_name

\* validate_applications returns without an error.
validate_applications(applications) ==
  /\ \A i, j \in DOMAIN applications :
       i # j => /\ applications[i].name # applications[j].name
                /\ ~SameRoute(applications[i], applications[j])
  /\ \A app \in ToSet(applications) :
       /\ app.routing # "Default" => app.route_name # <<>>
       /\ app.routing = "Path" => "/" \notin ToSet(app.route_name)

\* The tables of build_router_config: of several applications with one key
\* the last one wins.
RouteTable(applications, routing, Key(_)) ==
  LET routed == {i \in DOMAIN applications : applications[i].routing = routing}
      keys == {Key(applications[i]) : i \in routed}
  IN  [k \in keys |-> applications[Max({i \in routed : Key(applications[i]) = k})].name]

build_router_config(applications) ==
  LET defaults == {i \in DOMAIN applications : applications[i].routing = "Default"} IN
    [subdomain_routes |-> RouteTable(applications, "Subdomain", SubdomainKey),
     path_routes |-> RouteTable(applications, "Path", LAMBDA app : app.route_name),
     default_app |-> IF defaults = {} THEN None ELSE applications[Max(defaults)].name]

-----------------------------------------------------------------------------
(* Limits, timeouts, sticky sessions                                       *)

\* parse_positive_u32 and parse_nullable_positive_u32: null disables a limit,
\* a missing value is the default, zero is an error.
OrDefault(value, default) == IF value = None THEN default ELSE value

LimitsAccepted(limits) ==
  limits \notin {None, Null} => \A f \in ToSet(LimitFields) : limits[f] # 0

\* The limit in force for a field, Null when it is disabled.
Limit(limits, f) ==
  CASE limits = None -> DefaultLimit[f]
    [] limits = Null -> Null
    [] OTHER -> OrDefault(limits[f], DefaultLimit[f])

\* The limits to check, in the order of LimitFields; Null stands for a check
\* that is not in the list.
parse_limits_options(limits) == [f \in ToSet(LimitFields) |-> Limit(limits, f)]

TimeoutsAccepted(timeouts) == timeouts # None => \A f \in TimeoutFields : timeouts[f] # 0

parse_timeout_options(timeouts) ==
  [f \in TimeoutFields |->
     IF timeouts = None THEN DefaultTimeout[f] ELSE OrDefault(timeouts[f], DefaultTimeout[f])]

\* Missing sticky options disable the sessions; present ones enable them.
parse_sticky_session_options(sticky) ==
  IF sticky = None THEN DefaultSticky
  ELSE [enabled |-> OrDefault(sticky.enabled, TRUE),
        cookie_name |-> OrDefault(sticky.cookie_name, DefaultSticky.cookie_name),
        header_name |-> OrDefault(sticky.header_name, DefaultSticky.header_name),
        ttl_ms |-> OrDefault(sticky.ttl_ms, DefaultSticky.ttl_ms),
        max_entries |-> OrDefault(sticky.max_entries, DefaultSticky.max_entries)]

\* Mutant of StickyAccepted: a store without room is accepted.
StickyAcceptedWithoutRoom(sticky) ==
  LET s == parse_sticky_session_options(sticky) IN
    trim(s.cookie_name) # <<>> /\ trim(s.header_name) # <<>> /\ s.ttl_ms # 0

StickyAccepted(sticky) ==
  LET s == parse_sticky_session_options(sticky) IN
    /\ trim(s.cookie_name) # <<>> /\ trim(s.header_name) # <<>>
    /\ s.ttl_ms # 0 /\ s.max_entries # 0

-----------------------------------------------------------------------------
\* The error code of parse_proxy_options, None when it succeeds.  The
\* applications are looked at before the other sections.
ErrorCode(o) ==
  CASE \/ \E app \in ToSet(o.applications) : ~ApplicationAccepted(app)
       \/ ~validate_applications(o.applications) -> "InvalidApplicationOptions"
    [] OTHER -> IF StickyAccepted(o.sticky) /\ LimitsAccepted(o.limits) /\ TimeoutsAccepted(o.timeouts)
                THEN None ELSE "InvalidProxyOptions"

parse_proxy_options(o) ==
  LET applications == [i \in DOMAIN o.applications |-> parse_application_options(o.applications[i])] IN
    [applications |-> applications,
     routes |-> build_router_config(applications),
     health_check_interval_ms |-> OrDefault(o.health_check_interval_ms, DefaultInterval),
     sticky |-> parse_sticky_session_options(o.sticky),
     limits |-> parse_limits_options(o.limits),
     timeouts |-> parse_timeout_options(o.timeouts)]

-----------------------------------------------------------------------------
(* Upstreams                                                               *)

TransportNames == [http |-> "Http1", http2 |-> "Http2", ws |-> "Ws"]

\* Mutant of UpstreamErrorCode: no upper bound on the port.
UpstreamPortUnbounded(raw) ==
  CASE raw.type # "port" -> "UnsupportedUpstreamType"
    [] raw.type = "port" /\ raw.transport \in DOMAIN TransportNames /\ raw.port # 0
         /\ raw.hostname # <<>> -> None
    [] OTHER -> "InvalidProxyOptions"

\* The error code of parse_port_upstream, None when it succeeds.
UpstreamErrorCode(raw) ==
  CASE raw.type # "port" -> "UnsupportedUpstreamType"
    [] raw.type = "port" /\ raw.transport \in DOMAIN TransportNames /\ raw.port # 0
         /\ raw.port <= 65535 /\ raw.hostname # <<>> -> None
    [] OTHER -> "InvalidProxyOptions"

\* `port as u16` keeps the low 16 bits.
parse_port_upstream(raw) ==
  [transport |-> TransportNames[raw.transport], secure |-> raw.secure,
   hostname |-> raw.hostname, port |-> raw.port % 65536]

\* verify_hostname_for_secure_upstream: None when there is no name.
verify_hostname(app) == IF app.routing = "Subdomain" THEN app.route_name ELSE app.sni
=============================================================================
