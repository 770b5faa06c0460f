----------------------------- MODULE MCGateway -----------------------------
(* Model-checking instance of the proxy with traffic.                      *)
EXTENDS Gateway, TLC

CONSTANTS app1, e1

MCCallers == StartCalls \cup StopCalls \cup UpdateCalls
MCNames == ServiceNames
OneUpstream == {[transport |-> "Http1", secure |-> FALSE, endpoint |-> e1]}

CallSymmetry ==
  Permutations(StartCalls) \cup Permutations(StopCalls) \cup Permutations(UpdateCalls)
=============================================================================
