--------------------------- MODULE UpstreamTable ---------------------------
(***************************************************************************)
(* What addUpstream and removeUpstream promise: an atomic table.  Each     *)
(* call takes effect at one instant between its invocation and its answer, *)
(* or is refused and changes nothing.                                      *)
(***************************************************************************)
CONSTANTS Calls, Applications, AppNames, UpstreamArgs, None

VARIABLES
  table,    \* application -> set of upstreams
  request,  \* call -> its arguments, None before it is made
  result    \* call -> "none", "applied" or "refused"

vars == <<table, request, result>>

Request == [op : {"add", "remove"}, app : AppNames, upstream : UpstreamArgs]

Init ==
  /\ table = [app \in Applications |-> {}]
  /\ request = [u \in Calls |-> None]
  /\ result = [u \in Calls |-> "none"]

Invoke(u) ==
  /\ request[u] = None
  /\ \E r \in Request : request' = [request EXCEPT ![u] = r]
  /\ UNCHANGED <<table, result>>

Pending(u) == request[u] # None /\ result[u] = "none"

Answer(u, how) == result' = [result EXCEPT ![u] = how] /\ UNCHANGED request

\* The upstream was not in the table of this instant.
Add(u) ==
  LET r == request[u] IN
    /\ Pending(u)
    /\ r.op = "add" /\ r.app \in Applications
    /\ r.upstream \notin table[r.app]
    /\ table' = [table EXCEPT ![r.app] = @ \cup {r.upstream}]
    /\ Answer(u, "applied")

\* The upstream was in the table of this instant.
Remove(u) ==
  LET r == request[u] IN
    /\ Pending(u)
    /\ r.op = "remove" /\ r.app \in Applications
    /\ r.upstream \in table[r.app]
    /\ table' = [table EXCEPT ![r.app] = @ \ {r.upstream}]
    /\ Answer(u, "applied")

Refuse(u) == Pending(u) /\ UNCHANGED table /\ Answer(u, "refused")

Next == \E u \in Calls : Invoke(u) \/ Add(u) \/ Remove(u) \/ Refuse(u)

Spec == Init /\ [][Next]_vars
=============================================================================
