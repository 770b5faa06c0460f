----------------------------- MODULE MCRouting -----------------------------
(* Model-checking instances of the options and the routing.  Each section  *)
(* of the options is varied on its own, with the others at their defaults: *)
(* the sections are parsed independently.                                  *)
EXTENDS Routing

MCLowercase == [A |-> "a", B |-> "b"]
MCAlphanumeric == {"a", "b", "A", "B", "1"}
MCDefaultLimit == [f \in ToSet(LimitFields) |-> IF f = "UriBytes" THEN 4 ELSE 2]
MCDefaultTimeout == [f \in TimeoutFields |-> 5]
MCDefaultSticky ==
  [enabled |-> FALSE, cookie_name |-> <<"n">>, header_name |-> <<"x">>, ttl_ms |-> 6, max_entries |-> 7]
MCGeneratedKey == <<"1", "a">>

App(name, routing, route_name, sni) ==
  [name |-> name, routing |-> routing, route_name |-> route_name, sni |-> sni]
Options0 ==
  [applications |-> <<App("app1", "Path", <<"a">>, None)>>, sticky |-> None, limits |-> None,
   timeouts |-> None, health_check_interval_ms |-> None]

\* Names that collide by case, contain a slash, a port or a bracket, extend
\* one another, are empty or missing.
RouteNames == {None, <<>>, <<"a">>, <<"A">>, <<"a", "b">>, <<"a", "/">>, <<"a", ":", "1">>,
               <<"[", ":", "1", "]">>}
Snis == {None, <<"a", ".", "b">>, <<" ", "a">>, <<" ">>, <<"a", ".">>, <<"-", "a">>, <<"a", "b", "a", "b">>}

SomeApps(name) ==
  {App(name, routing, n, None) : routing \in {"Path", "Subdomain"}, n \in RouteNames}
    \cup {App(name, "Default", None, None)}
ApplicationLists ==
  {<<a, b>> : a \in SomeApps("app1"), b \in SomeApps("app2")}
    \cup {<<App("app1", r, <<"a">>, s)>> : r \in RoutingTypes, s \in Snis}
    \cup {<<App("app1", "Path", <<"b">>, None), b>> : b \in SomeApps("app1")}
    \cup {<<App("app1", "Path", <<"b">>, None), App("app2", "Default", None, None), c>> : c \in SomeApps("app3")}

\* Every mixture of null, missing, zero and small limits in two fields, and
\* of null and one other value in the fields whose checks lie between them.
LimitValues == {None, Null, 0, 2}
LimitChoices ==
  {None, Null} \cup
  {[UriBytes |-> u, RequestHeaders |-> h, SingleHeaderBytes |-> s,
    RequestHeaderBytes |-> t, RequestBodyBytes |-> b] :
     u \in LimitValues, h \in {Null, 1}, s \in {None, Null}, t \in {None, Null}, b \in LimitValues}
Timeouts0 == [f \in TimeoutFields |-> None]
TimeoutChoices == {None} \cup {[Timeouts0 EXCEPT ![f] = v] : f \in TimeoutFields, v \in {0, 1}}
StickyChoices ==
  {None} \cup
  {[enabled |-> e, cookie_name |-> c, header_name |-> None, ttl_ms |-> t, max_entries |-> m] :
     e \in {None, FALSE}, c \in {None, <<"c">>, <<" ">>, <<"c", " ">>, <<"c", "^", "c">>}, t \in {None, 0, 1}, m \in {None, 0, 1}}

MCOptionInputs ==
  {[Options0 EXCEPT !.applications = a] : a \in ApplicationLists}
    \cup {[Options0 EXCEPT !.limits = l] : l \in LimitChoices}
    \cup {[Options0 EXCEPT !.timeouts = t] : t \in TimeoutChoices}
    \cup {[Options0 EXCEPT !.sticky = s] : s \in StickyChoices}

\* A request with this target, one header and no body, to a host that no
\* route names.
Get(target) ==
  [host |-> <<"b">>, target |-> target, cookie |-> None, header |-> None,
   size |-> [UriBytes |-> Len(target), RequestHeaders |-> 1, SingleHeaderBytes |-> 1,
             RequestHeaderBytes |-> 1, RequestBodyBytes |-> None]]
GetA == Get(<<"/", "a">>)

Hosts == {None, <<"a">>, <<"A">>, <<"A", ":", "1">>, <<"a", "b">>, <<"a", ":", "b">>, <<"[", ":", "1", "]">>,
          <<"[", ":", "1", "]", ":", "1">>, <<"[", "a">>, <<"[", ":", "1", "]", "a">>}
Targets == {<<"/">> \o rest : rest \in {r \in SeqOf({"/", "a", "b", "?"}, 3) : r # <<"?">>}}
AffinityTexts == {<<"a">>, <<"a", "b", "1">>, <<"a", "b", "1", "1">>, <<"a", ";", "b">>, <<"a", " ", "b">>, <<"a", "=">>, <<>>}

\* Hosts and paths, sizes around the limits, cookies and headers.
MCRequestInputs ==
  {[Get(t) EXCEPT !.host = h] : h \in Hosts, t \in {<<"/", "a">>, <<"/", "b", "/", "a">>}}
    \cup {Get(t) : t \in Targets}
    \cup {[Get(t) EXCEPT !.size["RequestHeaders"] = n, !.size["RequestHeaderBytes"] = n, !.size["RequestBodyBytes"] = b] :
            t \in {<<"/", "a">>, <<"/", "a", "/">>}, n \in 1 .. 3, b \in {None} \cup 0 .. 3}
    \cup {[Get(t) EXCEPT !.size["SingleHeaderBytes"] = n, !.size["RequestBodyBytes"] = b] :
            t \in {<<"/", "a">>, <<"/", "a", "/">>}, n \in 2 .. 3, b \in {None, 3}}
    \cup {[GetA EXCEPT !.header = x] : x \in AffinityTexts}
    \cup {[GetA EXCEPT !.cookie = <<"n", "=">> \o x, !.header = <<"b">>] : x \in AffinityTexts}

MCOtherCookies == {<<>>, <<"b", "=", "1">>, <<"n">>, <<"n", "=", "a", " ", "b">>, <<"c", "=", ";", "=", "c">>}

Upstream0 == [type |-> "port", transport |-> "http", secure |-> FALSE, hostname |-> <<"a">>, port |-> 1]
MCUpstreamInputs ==
  {[Upstream0 EXCEPT !.port = p] : p \in {0, 1, 65535, 65536, 65537}}
    \cup {[Upstream0 EXCEPT !.type = "unix"], [Upstream0 EXCEPT !.transport = "tcp"],
          [Upstream0 EXCEPT !.hostname = <<>>]}
=============================================================================
