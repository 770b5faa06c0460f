----------------------------- MODULE Lifecycle -----------------------------
(***************************************************************************)
(* What start() and stop() promise together: a state machine in which      *)
(* every call has its effect at one instant and all the calls that wait    *)
(* for the same event are answered alike, at the instant of that event.    *)
(***************************************************************************)
CONSTANTS StartCalls, StopCalls

VARIABLES
  state,   \* "Stopped", "Starting", "Running" or "Stopping"
  phase    \* call -> "idle", "waiting", "resolved" or "rejected"

vars == <<state, phase>>

Calls == StartCalls \cup StopCalls
Waiting(kind) == {c \in kind : phase[c] = "waiting"}

Become(c, p) == phase' = [phase EXCEPT ![c] = p]
AnswerAll(kind, p) == phase' = [c \in Calls |-> IF c \in Waiting(kind) THEN p ELSE phase[c]]

Init == state = "Stopped" /\ phase = [c \in Calls |-> "idle"]

\* A start begins, joins the one under way, or is refused.
Start(s) ==
  /\ phase[s] = "idle"
  /\ \/ state \in {"Stopped", "Starting"} /\ state' = "Starting" /\ Become(s, "waiting")
     \/ state \in {"Running", "Stopping"} /\ UNCHANGED state /\ Become(s, "rejected")

\* A stop begins, joins the one under way, or finds nothing to stop.
Stop(c) ==
  /\ phase[c] = "idle"
  /\ \/ state # "Stopped" /\ state' = "Stopping" /\ Become(c, "waiting")
     \/ state = "Stopped" /\ UNCHANGED state /\ Become(c, "resolved")

\* The proxy runs: every start that waits has succeeded.
Started ==
  /\ state = "Starting" /\ state' = "Running"
  /\ AnswerAll(StartCalls, "resolved")

\* The start failed, or a stop came first: every start that waits is told.
StartFailed ==
  /\ Waiting(StartCalls) # {}
  /\ \/ state \in {"Starting", "Stopping"} /\ state' = "Stopped"
     \/ state = "Stopping" /\ UNCHANGED state
  /\ AnswerAll(StartCalls, "rejected")

\* No start waits any more, so the proxy may become Stopped; the stops that
\* wait are answered together, then or later.
Halted ==
  /\ state = "Stopping" /\ Waiting(StartCalls) = {}
  /\ state' = "Stopped"
  /\ UNCHANGED phase \/ AnswerAll(StopCalls, "resolved")
StopsAnswered ==
  /\ state = "Stopped" /\ UNCHANGED state
  /\ AnswerAll(StopCalls, "resolved")

Next ==
  \/ \E s \in StartCalls : Start(s)
  \/ \E c \in StopCalls : Stop(c)
  \/ Started \/ StartFailed \/ Halted \/ StopsAnswered

Spec == Init /\ [][Next]_vars
=============================================================================
