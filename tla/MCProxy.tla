------------------------------ MODULE MCProxy ------------------------------
(* Model-checking instances of the proxy.  The calls are model values, so  *)
(* that calls of the same kind are interchangeable; the upstreams are      *)
(* chosen so that updates conflict (two endpoints of one pool), mix secure *)
(* with plain, lack a host name and leave a pool empty.                    *)
EXTENDS Proxy, TLC

CONSTANTS app1, app2, ghost, e1, e2

MCCallers == StartCalls \cup StopCalls \cup UpdateCalls
MCNames == ServiceNames

Plain(e) == [transport |-> "Http1", secure |-> FALSE, endpoint |-> e]
Secure(e) == [transport |-> "Http1", secure |-> TRUE, endpoint |-> e]

TableArgs == {Plain(e1), Plain(e2), Secure(e1)}
OneUpstream == {Plain(e1)}

CallSymmetry ==
  Permutations(StartCalls) \cup Permutations(StopCalls) \cup Permutations(UpdateCalls)
=============================================================================
