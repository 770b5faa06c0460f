----------------------------- MODULE MCRequests -----------------------------
(* Model-checking instances of the request flow.                           *)
EXTENDS Requests, TLC

CONSTANTS app1, cookie1, b1, b2

MCAffinityKeys == Applications \X TransportKind \X (ClientKeys \cup Requests)
NoRoutes == [x \in {} |-> None]

\* The session's keys fall into one shard, generated keys into another.
MCShardOf == [k \in AffinityKeys |-> IF k[3] \in ClientKeys THEN 1 ELSE ShardCount]

Plain == [host |-> "other.test", segment |-> "other", is_upgrade |-> FALSE,
          limit |-> None, cookie |-> None, header |-> None]

\* Requests of one session, and requests without a key, which get their own.
SessionInputs == {[Plain EXCEPT !.cookie = cookie1], Plain}
Pool(backends) == [Http1 |-> backends, Http2 |-> {}, Ws |-> {}]
BothBackends == {Pool({b1, b2})}

\* Upgrades of one session matched by host, requests without a key matched
\* by path, requests that match nothing, have no host or are over a limit.
SubdomainRoutes == [h \in {"app1.test"} |-> app1]
PathRoutes == [segment \in {"one"} |-> app1]
RoutedInputs ==
  {[Plain EXCEPT !.host = "app1.test", !.segment = "one", !.is_upgrade = TRUE, !.header = cookie1],
   [Plain EXCEPT !.segment = "one"], Plain, [Plain EXCEPT !.host = None], [Plain EXCEPT !.limit = 431]}

\* An update moves the ws pool to another backend and HTTP to HTTP/2.
AllPools == {[Http1 |-> {b1}, Http2 |-> {}, Ws |-> {b2}], [Http1 |-> {}, Http2 |-> {b2}, Ws |-> {b1}]}

RequestSymmetry == Permutations(Requests) \cup Permutations(Backends)
=============================================================================
