--------------------------- MODULE Server_proofs ---------------------------
(***************************************************************************)
(* The registry's safety invariants hold for any set of callers, names and *)
(* balancers.  ServerInv is inductive; each lemma says that one operation  *)
(* preserves it, so that a specification composed with the registry can    *)
(* cite them for its own steps.                                            *)
(***************************************************************************)
EXTENDS Server, TLAPS

\* A handle is registered under its own name.
NamesMatch == \A name \in Names : services[name] # None => services[name].name = name

\* A handle has one owner, the map or one call.  (In the code its type says
\* so: a join handle cannot be copied.  Here it is needed for the induction.)
SingleOwner ==
  \A c \in Callers : \A h \in held[c] :
    /\ services[h.name] # h
    /\ \A d \in Callers \ {c} : h \notin held[d]

\* The inductive invariant.  The three properties need each other: a taken
\* handle has no second owner because a registered one has none, and a task
\* that ends leaves no dangling entry because only taken ones are signalled.
ServerInv ==
  /\ ServerTypeOK
  /\ NamesMatch
  /\ NoHandleLost
  /\ SingleOwner
  /\ RegisteredIsServing

\* The empty registry satisfies the invariant.
LEMMA ServerInitInv == ServerInit => ServerInv
BY NoneAssumption
   DEF ServerInit, ServerInv, ServerTypeOK, NamesMatch, NoHandleLost, SingleOwner,
       RegisteredIsServing, Registered

\* upsert_service preserves the registry's invariant: the new handle is
\* registered, the displaced one passes to the caller, which signals it.
LEMMA UpsertInv ==
  ASSUME NEW c \in Callers, NEW name \in Names, NEW lb \in Lbs \cup {None},
         ServerInv, upsert_service(c, name, lb)
  PROVE  ServerInv'
<1> DEFINE h == [by |-> c, name |-> name, lb |-> lb]
<1>1. /\ h \in ServiceHandle /\ h \notin live /\ h.name = name
      /\ services' = [services EXCEPT ![name] = h]
      /\ live' = live \cup {h}
      /\ held' = [held EXCEPT ![c] = Registered(name)]
      /\ signalled' = signalled
      /\ held[c] = {}
  BY DEF upsert_service, ServiceHandle, Returned
<1>2. /\ ServerTypeOK /\ NamesMatch /\ NoHandleLost /\ SingleOwner /\ RegisteredIsServing
  BY DEF ServerInv
<1>3. \A o \in Registered(name) :
         o = services[name] /\ o \in live \ signalled /\ o \in ServiceHandle /\ o.name = name /\ o # h
  BY <1>1, <1>2 DEF Registered, RegisteredIsServing, NamesMatch, ServerTypeOK
<1> HIDE DEF h
<1>4. ServerTypeOK'
  BY <1>1, <1>2, <1>3 DEF ServerTypeOK
<1>5. NamesMatch'
  BY <1>1, <1>2 DEF NamesMatch, ServerTypeOK
<1>6. NoHandleLost'
  <2> SUFFICES ASSUME NEW g \in live'
               PROVE  services'[g.name] = g \/ \E d \in Callers : g \in held'[d]
    BY DEF NoHandleLost
  <2>1. CASE g = h
    BY <2>1, <1>1, <1>2 DEF ServerTypeOK
  <2>2. CASE g \in live /\ services[g.name] = g /\ g.name = name
    <3>1. g \in Registered(name)
      BY <2>2, <1>2, NoneAssumption DEF Registered, ServerTypeOK
    <3> QED BY <3>1, <1>1, <1>2 DEF ServerTypeOK
  <2>3. CASE g \in live /\ services[g.name] = g /\ g.name # name
    BY <2>3, <1>1, <1>2 DEF ServerTypeOK, ServiceHandle
  <2>4. CASE g \in live /\ \E d \in Callers : g \in held[d]
    BY <2>4, <1>1, <1>2 DEF ServerTypeOK
  <2> QED BY <2>1, <2>2, <2>3, <2>4, <1>1, <1>2 DEF NoHandleLost
<1>7. SingleOwner'
  <2> SUFFICES ASSUME NEW d \in Callers, NEW g \in held'[d]
               PROVE  /\ services'[g.name] # g
                      /\ \A e \in Callers \ {d} : g \notin held'[e]
    BY DEF SingleOwner
  <2>1. CASE d = c
    <3>1. g \in Registered(name)
      BY <2>1, <1>1, <1>2 DEF ServerTypeOK
    <3>2. \A e \in Callers : g \notin held[e]
      BY <3>1, <1>3, <1>2 DEF SingleOwner
    <3> QED BY <2>1, <3>1, <3>2, <1>1, <1>3, <1>2 DEF ServerTypeOK
  <2>2. CASE d # c
    <3>1. g \in held[d] /\ g \in live /\ g \in ServiceHandle
      BY <2>2, <1>1, <1>2 DEF ServerTypeOK
    <3>2. services[g.name] # g /\ g \notin Registered(name)
      BY <3>1, <1>2, <1>3 DEF SingleOwner
    <3> QED BY <2>2, <3>1, <3>2, <1>1, <1>2 DEF ServerTypeOK, SingleOwner, ServiceHandle
  <2> QED BY <2>1, <2>2
<1>8. RegisteredIsServing'
  BY <1>1, <1>2 DEF RegisteredIsServing, Registered, ServerTypeOK
<1> QED BY <1>4, <1>5, <1>6, <1>7, <1>8 DEF ServerInv

\* Taking the handles of a set of names out of the map, and awaiting them,
\* preserves the registry's invariant: what remove_service does for one name
\* and stop_all for every name.
LEMMA TakeInv ==
  ASSUME NEW c \in Callers, NEW N \in SUBSET Names, ServerInv, Returned(c),
         services' = [name \in Names |-> IF name \in N THEN None ELSE services[name]],
         held' = [held EXCEPT ![c] = UNION {Registered(name) : name \in N}],
         live' = live, signalled' = signalled
  PROVE  ServerInv'
<1>1. /\ ServerTypeOK /\ NamesMatch /\ NoHandleLost /\ SingleOwner /\ RegisteredIsServing
      /\ held[c] = {}
  BY DEF ServerInv, Returned
<1> DEFINE T == UNION {Registered(name) : name \in N}
<1>2. \A o \in T :
         o \in live \ signalled /\ o \in ServiceHandle /\ o.name \in N /\ services[o.name] = o
  BY <1>1 DEF Registered, RegisteredIsServing, NamesMatch, ServerTypeOK
<1>3. \A name \in N : services[name] # None => services[name] \in T
  BY DEF Registered
<1>4. held' = [held EXCEPT ![c] = T]
  OBVIOUS
<1> HIDE DEF T
<1>5. ServerTypeOK'
  BY <1>1, <1>2, <1>4 DEF ServerTypeOK
<1>6. NamesMatch' /\ RegisteredIsServing'
  BY <1>1 DEF NamesMatch, RegisteredIsServing, Registered
<1>7. NoHandleLost'
  <2> SUFFICES ASSUME NEW g \in live
               PROVE  services'[g.name] = g \/ \E d \in Callers : g \in held'[d]
    BY DEF NoHandleLost
  <2>1. g # None /\ g.name \in Names
    BY <1>1, NoneAssumption DEF ServerTypeOK, ServiceHandle
  <2>2. CASE services[g.name] = g /\ g.name \in N
    BY <2>1, <2>2, <1>1, <1>3, <1>4 DEF ServerTypeOK
  <2>3. CASE services[g.name] = g /\ g.name \notin N
    BY <2>1, <2>3
  <2>4. CASE \E d \in Callers : g \in held[d]
    BY <2>4, <1>1, <1>4 DEF ServerTypeOK
  <2> QED BY <2>2, <2>3, <2>4, <1>1 DEF NoHandleLost
<1>8. SingleOwner'
  <2> SUFFICES ASSUME NEW d \in Callers, NEW g \in held'[d]
               PROVE  /\ services'[g.name] # g
                      /\ \A e \in Callers \ {d} : g \notin held'[e]
    BY DEF SingleOwner
  <2>1. CASE d = c
    <3>1. g \in T
      BY <2>1, <1>1, <1>4 DEF ServerTypeOK
    <3>2. services'[g.name] # g
      BY <3>1, <1>2, NoneAssumption
    <3>3. \A e \in Callers : g \notin held[e]
      BY <3>1, <1>1, <1>2 DEF SingleOwner
    <3> QED BY <2>1, <3>2, <3>3, <1>1, <1>4 DEF ServerTypeOK
  <2>2. CASE d # c
    <3>1. g \in held[d] /\ g \in ServiceHandle /\ g.name \in Names
      BY <2>2, <1>1, <1>4 DEF ServerTypeOK, ServiceHandle
    <3>2. services[g.name] # g /\ g \notin T
      BY <3>1, <1>1, <1>2 DEF SingleOwner
    <3>3. services'[g.name] # g
      BY <3>1, <3>2, NoneAssumption
    <3>4. \A e \in Callers \ {d} : g \notin held'[e]
      BY <2>2, <3>1, <3>2, <1>1, <1>4 DEF ServerTypeOK, SingleOwner
    <3> QED BY <3>3, <3>4
  <2> QED BY <2>1, <2>2
<1> QED BY <1>5, <1>6, <1>7, <1>8 DEF ServerInv

\* remove_service preserves the registry's invariant.
LEMMA RemoveInv ==
  ASSUME NEW c \in Callers, NEW name \in Names, ServerInv, remove_service(c, name)
  PROVE  ServerInv'
<1>1. services' = [n \in Names |-> IF n \in {name} THEN None ELSE services[n]]
  BY DEF remove_service, ServerInv, ServerTypeOK
<1>2. held' = [held EXCEPT ![c] = UNION {Registered(n) : n \in {name}}]
  BY DEF remove_service
<1>3. {name} \in SUBSET Names /\ Returned(c) /\ live' = live /\ signalled' = signalled
  BY DEF remove_service
<1> QED BY <1>1, <1>2, <1>3, TakeInv

\* stop_all preserves the registry's invariant.
LEMMA StopAllInv ==
  ASSUME NEW c \in Callers, ServerInv, stop_all(c)
  PROVE  ServerInv'
<1>1. services' = [n \in Names |-> IF n \in Names THEN None ELSE services[n]]
  BY DEF stop_all
<1>2. /\ held' = [held EXCEPT ![c] = UNION {Registered(n) : n \in Names}]
      /\ Names \in SUBSET Names /\ Returned(c) /\ live' = live /\ signalled' = signalled
  BY DEF stop_all
<1> QED BY <1>1, <1>2, TakeInv

\* Sending the shutdown value preserves the registry's invariant: a handle
\* that a caller holds is not the one registered under its name.
LEMMA SignalInv ==
  ASSUME NEW c \in Callers, NEW h, ServerInv, Signal(c, h)
  PROVE  ServerInv'
<1>1. /\ h \in held[c] /\ h \in live /\ h \in ServiceHandle /\ h # None
      /\ signalled' = signalled \cup {h}
      /\ services' = services /\ live' = live /\ held' = held
  BY NoneAssumption DEF Signal, ServerInv, ServerTypeOK
<1>2. ServerTypeOK' /\ NamesMatch' /\ NoHandleLost' /\ SingleOwner'
  BY <1>1 DEF ServerInv, ServerTypeOK, NamesMatch, NoHandleLost, SingleOwner
<1>3. \A name \in Names : h \notin Registered(name)
  BY <1>1 DEF ServerInv, SingleOwner, NamesMatch, Registered
<1>4. RegisteredIsServing'
  BY <1>1, <1>3 DEF ServerInv, RegisteredIsServing, Registered
<1> QED BY <1>2, <1>4 DEF ServerInv

\* The end of a signalled task preserves the registry's invariant: the map
\* does not point at it.
LEMMA TaskEndsInv ==
  ASSUME NEW h, ServerInv, TaskEnds(h)
  PROVE  ServerInv'
<1>1. /\ h \in signalled
      /\ live' = live \ {h} /\ signalled' = signalled \ {h}
      /\ held' = [c \in Callers |-> held[c] \ {h}]
      /\ services' = services
  BY DEF TaskEnds
<1>2. ServerTypeOK'
  BY <1>1 DEF ServerInv, ServerTypeOK
<1>3. NamesMatch' /\ NoHandleLost' /\ SingleOwner'
  BY <1>1 DEF ServerInv, ServerTypeOK, NamesMatch, NoHandleLost, SingleOwner
<1>4. RegisteredIsServing'
  BY <1>1 DEF ServerInv, RegisteredIsServing, Registered
<1> QED BY <1>2, <1>3, <1>4 DEF ServerInv

\* A step that leaves the registry alone preserves its invariant.
LEMMA ServerStutterInv ==
  ASSUME ServerInv, UNCHANGED serverVars
  PROVE  ServerInv'
BY DEF ServerInv, serverVars, ServerTypeOK, NamesMatch, NoHandleLost, SingleOwner,
       RegisteredIsServing, Registered

\* The registry never orphans a task and never keeps a dead or dying task
\* registered, whatever its callers do.
THEOREM ServerSafety ==
  ServerSpec => [](ServerTypeOK /\ NoHandleLost /\ RegisteredIsServing)
<1>1. ServerInit => ServerInv
  BY ServerInitInv
<1>2. ServerInv /\ [ServerNext]_serverVars => ServerInv'
  <2> SUFFICES ASSUME ServerInv, [ServerNext]_serverVars
               PROVE  ServerInv'
    OBVIOUS
  <2>1. CASE \E c \in Callers, name \in Names, lb \in Lbs \cup {None} :
               upsert_service(c, name, lb)
    BY <2>1, UpsertInv
  <2>2. CASE \E c \in Callers, name \in Names : remove_service(c, name)
    BY <2>2, RemoveInv
  <2>3. CASE \E c \in Callers : stop_all(c)
    BY <2>3, StopAllInv
  <2>4. CASE \E c \in Callers : \E h \in held[c] : Signal(c, h)
    BY <2>4, SignalInv
  <2>5. CASE \E h \in signalled : TaskEnds(h)
    BY <2>5, TaskEndsInv
  <2>6. CASE UNCHANGED serverVars
    BY <2>6, ServerStutterInv
  <2> QED BY <2>1, <2>2, <2>3, <2>4, <2>5, <2>6 DEF ServerNext
<1>3. ServerInv => ServerTypeOK /\ NoHandleLost /\ RegisteredIsServing
  BY DEF ServerInv
<1> QED BY <1>1, <1>2, <1>3, PTL DEF ServerSpec
=============================================================================
