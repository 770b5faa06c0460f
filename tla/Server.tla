------------------------------- MODULE Server -------------------------------
(***************************************************************************)
(* The service registry of src/server.rs: a map from service names to the  *)
(* handle (shutdown sender, join handle) of the background task that runs  *)
(* under that name.  Every operation takes handles out of the map under    *)
(* the map's mutex and then, outside the mutex, signals each one and       *)
(* awaits its task.  A caller is one asynchronous call that uses the       *)
(* registry; it runs one registry operation at a time.                     *)
(***************************************************************************)
CONSTANTS
  Callers,      \* the asynchronous calls that operate on the registry
  Names,        \* the service names in use
  Lbs,          \* identities of the load balancers a task can run
  None          \* Rust's Option::None

VARIABLES
  services,     \* name -> the registered handle, or None
  live,         \* handles whose task is running
  signalled,    \* running handles whose shutdown channel was sent `true`
  held          \* caller -> running handles it took out and must await

serverVars == <<services, live, signalled, held>>

\* A spawned task: the call that spawned it, its name, the balancer it runs
\* (None for the listener's task).
ServiceHandle == [by : Callers, name : Names, lb : Lbs \cup {None}]

ASSUME NoneAssumption == None \notin ServiceHandle /\ None \notin Lbs

\* The handle registered under a name, as a set of at most one element.
Registered(name) == {services[name]} \ {None}

ServerTypeOK ==
  /\ services \in [Names -> ServiceHandle \cup {None}]
  /\ live \subseteq ServiceHandle
  /\ signalled \subseteq live
  /\ held \in [Callers -> SUBSET live]

ServerInit ==
  /\ services = [name \in Names |-> None]
  /\ live = {}
  /\ signalled = {}
  /\ held = [c \in Callers |-> {}]

-----------------------------------------------------------------------------
\* A caller whose awaits are over: it can issue its next operation or return.
Returned(c) == held[c] = {}

\* Mutant of upsert_service: the handle is registered, its task not spawned.
UpsertWithoutSpawn(c, name, lb) ==
  LET h == [by |-> c, name |-> name, lb |-> lb] IN
    /\ Returned(c)
    /\ services' = [services EXCEPT ![name] = h]
    /\ held' = [held EXCEPT ![c] = Registered(name)]
    /\ UNCHANGED <<live, signalled>>

\* Mutant of upsert_service: the displaced handle is dropped, not awaited.
UpsertDropsOld(c, name, lb) ==
  LET h == [by |-> c, name |-> name, lb |-> lb] IN
    /\ Returned(c)
    /\ h \notin live
    /\ services' = [services EXCEPT ![name] = h]
    /\ live' = live \cup {h}
    /\ UNCHANGED <<signalled, held>>

\* upsert_service together with the spawn of the task it registers.  A call
\* spawns a given task once, so h \notin live only says that h is fresh.
upsert_service(c, name, lb) ==
  LET h == [by |-> c, name |-> name, lb |-> lb] IN
    /\ Returned(c)
    /\ h \notin live
    /\ services' = [services EXCEPT ![name] = h]
    /\ live' = live \cup {h}
    /\ held' = [held EXCEPT ![c] = Registered(name)]
    /\ UNCHANGED signalled

remove_service(c, name) ==
  /\ Returned(c)
  /\ services' = [services EXCEPT ![name] = None]
  /\ held' = [held EXCEPT ![c] = Registered(name)]
  /\ UNCHANGED <<live, signalled>>

\* stop_all takes the whole map in one step (std::mem::take under the mutex).
stop_all(c) ==
  /\ Returned(c)
  /\ services' = [name \in Names |-> None]
  /\ held' = [held EXCEPT ![c] = UNION {Registered(name) : name \in Names}]
  /\ UNCHANGED <<live, signalled>>

\* `shutdown.send(true)`.  stop_all signals the next handle only after the
\* previous one's task was awaited, in the map's arbitrary order.
Signal(c, h) ==
  /\ h \in held[c]
  /\ held[c] \cap signalled = {}
  /\ signalled' = signalled \cup {h}
  /\ UNCHANGED <<services, live, held>>

\* Mutant of TaskEnds: the await of the join handle never completes.
TaskEndsUnjoined(h) ==
  /\ h \in signalled
  /\ live' = live \ {h}
  /\ signalled' = signalled \ {h}
  /\ UNCHANGED <<services, held>>

\* The task of a signalled handle returns (Pingora's own code) and every
\* await of its join handle completes.
TaskEnds(h) ==
  /\ h \in signalled
  /\ live' = live \ {h}
  /\ signalled' = signalled \ {h}
  /\ held' = [c \in Callers |-> held[c] \ {h}]
  /\ UNCHANGED services

-----------------------------------------------------------------------------
\* The registry on its own, under callers that issue any operations.
ServerNext ==
  \/ \E c \in Callers :
       \/ \E name \in Names, lb \in Lbs \cup {None} : upsert_service(c, name, lb)
       \/ \E name \in Names : remove_service(c, name)
       \/ stop_all(c)
       \/ \E h \in held[c] : Signal(c, h)
  \/ \E h \in signalled : TaskEnds(h)

ServerSpec == ServerInit /\ [][ServerNext]_serverVars

-----------------------------------------------------------------------------
\* No background task is ever orphaned: a running task is registered, so a
\* later stop_all finds it, or some call holds its handle and awaits it.
NoHandleLost ==
  \A h \in live : services[h.name] = h \/ \E c \in Callers : h \in held[c]

\* The map never points at a task that is dead or was told to die: a lookup
\* by name always finds a running service.
RegisteredIsServing ==
  \A name \in Names : Registered(name) \subseteq live \ signalled
=============================================================================
