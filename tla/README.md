# A TLA+ model of neemata-proxy

neemata-proxy is a reverse proxy that Node.js programs create and drive through
a native object: `new Proxy(options)`, `start()`, `stop()`, `address()`,
`addUpstream()`, `removeUpstream()`. The Rust side wraps Pingora. This directory
models its configuration, its concurrent core and the life of a request, checks
it with TLC on small instances, and proves with TLAPS, for all instances, every
safety property and every refinement that the runs check.

    tlc -workers 2 -config proxy_careful.cfg MCProxy      # one run
    tlapm Lifecycle_proofs.tla                            # one proof module

`PROJECT.json` lists the runs, the lines each definition models, the hazards, a
mutant for every property, the findings and the theorems.

## 1. The system

| component | source | state | operations |
|---|---|---|---|
| Proxy lifecycle | `src/src/proxy.rs` | `ProxyInner` under a tokio mutex: state, listener address, start and stop notifiers (watch channels) | `start`, `stop`, `address` |
| Upstream table | `src/src/proxy.rs`, `lb.rs` | upstreams per application, pools (balancer, secure flag, backends), `update_lock` | `addUpstream`, `removeUpstream` |
| Service registry | `src/src/server.rs` | name -> (shutdown sender, join handle) under a mutex | `upsert_service`, `remove_service`, `stop_all` |
| Request flow | `src/src/router.rs` | an `ArcSwap` of the routing configuration; per request a `RouterCtx` | `request_filter`, `upstream_peer`, `fail_to_connect`, `response_filter`, `fail_to_proxy`, `upstream_request_filter` |
| Sticky sessions | `src/src/router.rs` | 64 shards, each a mutex-protected map and an operation counter | `lookup`, `bind`, `remove`, `cleanup_global` |
| Options | `src/src/options.rs` | none (the parsed options of the object) | `new Proxy(options)`: parsing, defaults, validation |
| Errors, module glue, benchmarks | `errors.rs`, `lib.rs`, `benches/` | none | |

How they interact. Every JavaScript call runs as a task of its own. `start()` and
`stop()` change `ProxyInner` in short critical sections and, between them, call
the registry, which takes handles out of its map and awaits the tasks *outside*
its mutex. A call that finds another one under way subscribes to its watch
channel; the sender of that channel sits in `ProxyInner` and is taken, sent,
replaced or dropped by whichever call reaches it first. The update calls hold
`update_lock` across their whole run, but read the table, rebuild pools on a
blocking thread and commit in separate critical sections, then adjust the health
tasks in the registry after the last one. The commit swaps the router's
configuration, which requests read once, in `request_filter`, and never again.
Requests share the sticky store, whose entries outlive configuration updates.

What is hard here:

- `start` and `stop` racing each other, and a restart racing the tail of either;
- values read in a critical section and used after it (`is_running`, the
  snapshot of pools, `now`, a request's pool);
- awaiting handles that another call may have taken;
- sweeping 64 mutexes from code that may hold one of them;
- retrying a request on a context filled in by its first attempt;
- bounds enforced only now and then (`max_entries`);
- two parsers of one path that must agree (the one that routes and the one that
  strips), a cookie that must survive its round trip, names compared without case;
- what a request meets while the promises of earlier calls settle.

## 2. Modules

| module | models | notes |
|---|---|---|
| `Server` | the registry | a handle is (spawning call, name, balancer); `held[c]` are the handles the caller took and has to await |
| `Proxy` | lifecycle and upstream table over `Server` | `pc[c]` is how far a JavaScript call is or how its promise settled; a step is one critical section or one registry operation with the local code around it |
| `UpstreamTable` | what `addUpstream`/`removeUpstream` promise: an atomic table | abstract; `Proxy` refines it through `Table == INSTANCE UpstreamTable WITH ...` |
| `Lifecycle` | what `start`/`stop` promise: one state machine, all callers that share an event answered alike and at once | abstract; `Proxy` refines it through `Life == INSTANCE Lifecycle WITH phase <- Phase` |
| `Gateway` | `Proxy` composed with requests that arrive at its listener | a request is whether it gets a connection, which pool it is given and which address it is sent to; `earlier`, `resolved_then` and `pending_then` keep the order of events for the properties |
| `Options` | parsing, defaults and validation of the options, the route tables, `parse_port_upstream` | pure operators: what a parser accepts and what it returns |
| `Routing` | `Proxy::new`, then one request through the filters, or one upstream through its parser | strings the code looks into are sequences of characters |
| `Sticky` | the sticky store | a one-mutex critical section is one step; only sweepers keep mutexes across steps |
| `Requests` | the life of a request over `Sticky`, with configuration updates | `rpc[r]` is how far a request is; `ctx[r]` its snapshot |
| `MCProxy`, `MCGateway`, `MCRouting`, `MCSticky`, `MCRequests` | instances for TLC | constants, symmetry |
| `Server_proofs`, `Proxy_proofs`, `Lifecycle_proofs`, `Health_proofs`, `Gateway_proofs`, `Routing_proofs`, `Sticky_proofs`, `Requests_proofs` | TLAPS proofs | each extends the module it is about; `Proxy_proofs` extends `Server_proofs`, `Lifecycle_proofs` and on it `Health_proofs` and `Gateway_proofs` build on `Proxy_proofs`, `Requests_proofs` on `Sticky_proofs` |

`Proxy` extends `Server` and `Requests` extends `Sticky`: their actions are
conjunctions of a local part and one operation of the component they use.
`Gateway` extends `Proxy` and runs all of its steps. The link between `Proxy` and
`Requests` is the configuration: `RouterServesTable` says what the proxy puts into
the router, and `Requests.update` may install any pools an update can produce.
The link between `Routing` and the others is their parameters:
`AcceptedMeansUsable` and `RoutedToItsOwner` say that the constructor accepts only
options under which their assumptions hold. Definitions named "Mutant of ..." belong to no
specification: each stands in for the definition after it, to show that some
property depends on it.

### Abstractions

- *Calls.* Each call is a constant and is made at most once; `status[c]` is the
  last value of the channel that call created. A receiver is answered when a value was
  sent or the sender is no longer stored (`Answered`), which is what
  `watch::Receiver::changed` reports.
- *Registry.* Spawning a task and registering it are one step; nothing else can
  name the task in between. A task ends only after its shutdown value was sent.
- *Listener.* It is bound from a successful `build_start_resources` until its
  task ends. With `EphemeralPort` a second bind can always succeed (port 0, the
  setting of the runs: it allows strictly more behaviours); `StartSetupFails`
  covers ports that are taken and TLS files that cannot be read.
- *Names and addresses.* Name resolution either fails the rebuild or gives the
  upstream's own address. Secure upstreams need a host name (`SniApps`).
- *Locks.* tokio's mutex is fair; the model only needs that a waiting call
  eventually gets the update lock. Poisoning of the `std` mutexes is left out: no
  critical section of the store panics.
- *Requests.* A request is its host, first path segment, upgrade flag, the limit
  it exceeds (or none), and its cookie and header keys. A generated key is unique
  to its request: time in nanoseconds plus a counter. `LoadBalancer::select` may return any backend of the pool
  or none, since health is Pingora's. `ExchangeFails` is Pingora's default
  `error_while_proxy`: a broken exchange goes back to `upstream_peer` when the
  connection was a reused one, at most `MaxReuses` times, or fails the request
  without a hint. `fail_to_proxy` then answers the status of the error, if Pingora
  gave it one (`ErrorStatuses`, 400 and above), and 500 otherwise. A request
  without a Host header that is text ends in `RequestAborts`, without an answer:
  `extract_host` panics on it (finding 4).
  `ctx.version`, `failures` and `broken` are history the code does not keep.
- *Traffic in `Gateway`.* The listener accepts until its task is told to end, and
  may until it has ended. Which pool a request asks for follows the code (`ws` for an upgrade,
  else HTTP/2 before HTTP/1); that a backend is healthy is a choice.
- *Strings in `Routing`.* Character classes are constants, and the blank is the
  only white space. `split` gives its pieces by the position each one follows, so
  that "the first piece that ..." is a minimum and nothing is recursive. Targets
  are in origin form (`RequestAssumption`: they start with a slash; `CONNECT` and
  absolute targets are Pingora's). The limits are a function over the fields, with
  null for a check that is not made. The measures of a
  request (bytes, headers, content length) are inputs, since Pingora computes
  them; the comparison with the limits is the code's. A behaviour follows one
  request or one upstream, which is enough: neither changes the object. The
  cookie's attributes (Max-Age, Path, Secure) are left out; a cookie name with a
  control character (`ControlCharacters`) makes `append_header` fail, and the
  request is answered 500. An aborted request has the answer `Aborted`, which no
  client receives.
- *Store.* Time is a counter; `now` is read when an operation begins. Eviction
  ties fall either way (the code breaks them by hash-map order). Counters are kept
  modulo the period. A sweeper frees all mutexes in one step, since a request can
  use only one of them at a time.

### Client disciplines

Some properties hold only for clients that wait. They are constants of the
specification, used in the guard `MayBegin` or `Arrives`:

- `AwaitBeforeRestart`: a `start()` of a stopped proxy is made only when earlier
  `start()` and `stop()` promises have settled. Concurrent starts, concurrent
  stops and a stop during a start are all still allowed.
- `UpdatesAwaitLifecycle`: update calls do not overlap `start()` or `stop()`.
- `SerialSessions`: a client sends the requests of one session one after the
  other.

The `v_...` runs show what happens without the first two. Without the third, two
first requests in parallel bind two backends and the last bind wins; nothing in
the repository promises otherwise.

## 3. Runs

| run | checks | instance |
|---|---|---|
| `proxy_any_client` | `TypeOK`, `NoInternalError`, `StopWaitersServed`, `NoTaskOrphaned`, `RegisteredIsServing`, `EveryCallSettles` | 2 starts, 2 stops, 1 update, panics allowed: a restart with stops of both cycles under way, updates across both |
| `proxy_careful` | `RunningMeansListening`, `OneListener`, `StoppedReleasesListener`, `StartWaitersServed`, `LifecycleOrder`, `RouterServesTable`, `UpdatesAreAtomic` | 2 starts, 2 stops, 2 updates: a joined start or a restart, a joined stop, 2 applications and an unknown one, upstreams that share a pool, mix secure with plain or lack a host name |
| `gateway` | `GatewayTypeOK`, `SentToAddedUpstream`, `AddedUpstreamHasPool`, `StartedProxyConnects`, `HealthLoopForEveryPool`, `StoppedMeansSilent`, `LifecycleIsAtomic` | 2 starts, 1 stop, 3 updates of one upstream, 1 request at any moment: add, remove, add again across a restart |
| `routing` | `RoutingTypeOK`, `RoutedToItsOwner`, `OnlySegmentStripped`, `LimitsEnforced`, `CookieKeepsSession`, `AcceptedMeansUsable`, `PortKept` | pairs of applications over 8 route names (colliding by case, with a port, a slash, a bracket, empty, missing), 8 hosts, all targets of up to 4 characters over `/ a b ?`, sizes below, at and over each limit, limits null, missing, zero or small, keys that cookies cannot carry, a cookie name that no header can |
| `sticky_store` | `StickyTypeOK`, `SomeSweeperMoves`, `CapacityBound` | 2 requests, 2 shards, 6 keys, period 2, capacity 1: the bound is reached exactly |
| `requests_sessions` | `SessionsStick`, `FailedBackendForgotten` | 3 requests, 2 backends, time-to-live 2, clock to 2: first request, hit that slides the expiry, hit after the first expiry; retries beside other sessions' sweeps |
| `requests_updates` | `RequestsTypeOK`, `PeerFromSnapshot`, `RetriedOnce`, `EveryRequestAnswered` | 2 requests, 2 shards, capacity 1, sticky on or off, 2 updates between two sets of pools: entries of an older pool, evictions, routes by host, path or neither, upgrades, limits, missing pools, a missing Host, one retry of a reused connection, an error with a status of its own |
| `v_stop_resolves_early`, `v_restart_leaks_listener`, `v_update_during_start`, `v_missing_host`, `v_max_entries` | one property each, violated | see section 6 |

The passing runs reach between 56 thousand and 1.8 million distinct
states. Bounds: the number of calls or requests, `MaxUpdates`, `MaxReuses` and
`MaxTime`; in `Routing` the sets of inputs, `MaxLabel` and `MaxAffinityKey` (3
instead of 63 and the code's limit). Calls of one kind are interchangeable, so the safety runs use symmetry;
runs that check liveness do not, which keeps `proxy_any_client` small: its safety
properties are proved for all instances. `proxy_any_client` and `routing` switch deadlock
checking off: a panicked start legitimately leaves calls waiting, and a request
that was answered has no next step.

Some cases are left to the theorems, because the instances are too small for
them: waiters of a second stop cycle while the first one's channel is still stored
(`StopWaitersServed`; the run has two stops), an upstream dropped by a later update
of another one (`AddedUpstreamHasPool`; the run has one upstream), and several
stops that share one answer (`LifecycleIsAtomic`; the run has one stop). And the
passing runs under a discipline exclude, by that discipline, the overlaps that
`v_restart_leaks_listener` and `v_update_during_start` show: `proxy_careful` says
nothing of a restart that overtakes an older call, `gateway` nothing of an update
that races `start()` or `stop()`.

What the properties say beyond the obvious:

- `NoTaskOrphaned`: a running background task is registered or awaited by a call
  that is still running. Racing `stop_all`s and upserts cannot lose one.
- `EveryCallSettles`: every promise settles, except, exactly, those of the calls
  that wait for a `start()` whose setup panicked (the code leaves the state
  Starting and the notifier stored, `proxy.rs:260`).
- `LifecycleIsAtomic`: all callers of one start, or of one stop, get the same
  answer at one moment, and it is true of the state. A stop is answered only when
  no start waits. In the code the answer travels through a channel whose sender
  other calls may take.
- `SentToAddedUpstream`, `AddedUpstreamHasPool`, `StartedProxyConnects`: what a
  client of the proxy may conclude from promises that settled before its request:
  a removed upstream gets no new request, an added one is there, a started proxy
  accepts. Stated from the order of calls alone, with no reference to the table,
  the pools or the state.
- `RoutedToItsOwner`: written from the route names and the request, without the
  tables, so it covers validation, case folding, port stripping, table building
  and precedence together. It says nothing of requests without a Host (they abort,
  finding 4), of subdomain names that hold a port, nor of hosts whose bracketed
  literal is cut off or followed by anything but a port (`WellFormed`):
  `strip_port_str` drops what follows the bracket.
- `CookieKeepsSession`: whatever key a request brought, the cookie of the response
  gives the same key back, before or after whatever other cookies the client has.
  Other cookies that hold a safe key under the same name are excluded: the first
  one wins. So are cookie names with separators, which the options do not check;
  one with a control character sets no cookie at all.
- `UpdatesAreAtomic`: the unlocked rebuild in the middle of an update is
  invisible; a call that succeeds changed the table as promised at one instant,
  one that fails changed nothing. That a refusal was justified is not claimed:
  `UpstreamTable` lets any update be refused.
- `SomeSweeperMoves`: as long as any request is in `cleanup_global`, some request
  there holds all mutexes or finds its next one free. With `BindEndsLocked`, which
  keeps the shard's mutex into the sweep, TLC finds the self-deadlock.
- `CapacityBound`: entries <= `max_entries` + shards * (period - 1) + period *
  (sweeps due and not run). For the code: `max_entries` + 64 * 127, plus 128 for
  each request about to sweep. This is what the code keeps, not the documented
  maximum, which `MaxEntriesKept` states and `v_max_entries` refutes (finding 5).
- `SessionsStick`: two served requests of one session, routed by the same
  configuration less than a time-to-live apart, went to the same backend, unless
  a connection of the session failed or the store cannot hold all keys.
- `FailedBackendForgotten`: from a failed connection until its retry has bound a
  backend again the session has no entry, so the retry cannot be sent back by the
  store to the backend that just failed. Another request of the session in
  parallel could bind it meanwhile, hence `SerialSessions`.
- `RetriedOnce`: at most two failing connections per request, two only for sticky
  ones, and a 500 without a broken exchange only when all attempts failed.

### Fairness

- `Proxy`: weak fairness on every step of a call that was made (the
  runtime polls a spawned future until it is done), on signalling and on the end
  of a task that was told to shut down. Nothing forces a call to be made.
- `Requests`: weak fairness on the steps of each request. Connections succeed or
  fail within the connect timeout, reads and writes have timeouts too, and a free
  mutex is eventually taken by somebody waiting for it. Arrivals, updates and time
  are not fair.

## 4. Proofs

All proofs are for arbitrary sets of calls, connections, names, applications,
keys, backends, routes, options and texts and any numeric bounds, from the
`ASSUME`s of the modules (None is not an ordinary value, kinds of calls are
disjoint, route tables lead to applications, inputs have their declared types,
the alphabet keeps letters, digits and separators apart, defaults are positive).
`LiteralsAssumption` and `SeparatorsAssumption` state what is true of string
literals and unknown to the provers.

| theorem | states | inductive invariant |
|---|---|---|
| `ServerSafety` | `NoHandleLost`, `RegisteredIsServing` of the registry | `ServerInv`: the two with the types, "a handle is registered under its own name" and `SingleOwner` (a handle has one owner, which is Rust's ownership restated for the model's sets). They need each other: only taken handles are signalled, so a task that ends leaves no dangling entry |
| `TypeCorrect`, `RegistryIsServing` | `TypeOK`, `RegisteredIsServing` of the proxy | `TypeInv`, which contains `ServerInv`, the arguments of update calls and the channels that calls wait on: each step of the proxy is a step of the registry or leaves it alone |
| `NotifierIsStored`, `JoinedStopIsAnswered`, `TasksAreOwned` | `NoInternalError`, `StopWaitersServed`, `NoTaskOrphaned` | `NotifierInv` (in Starting and Stopping the needed sender is stored), `StopChannelInv`, `HeldInv` (only a call inside a registry operation holds handles) |
| `TableRefinement` | `UpdatesAreAtomic` | `LockInv`: a call between check and commit owns the lock, so what it read is current |
| `RouterFollowsTable` | `RouterServesTable` | `RouterInv`: pools = router configuration = table, key by key |
| `RunningIsListening`, `StopReleasesListener`, `ListenerIsUnique`, `StartIsAnswered`, `LifecycleInOrder` | the five properties of `proxy_careful` about the listener, assuming `AwaitBeforeRestart` | `CarefulInv`: at most one start at work and the state says how far it is; a stop at work waits for it; a start channel is unanswered exactly while its sender is stored; the listener's task is registered from its spawn until a stop or the cancelled start takes it |
| `LifecycleRefinement` | `LifecycleIsAtomic`, assuming `AwaitBeforeRestart` and no panics | `AtomicInv`: `CarefulInv`, the channels of stops, and `EpochInv`: a stored start channel belongs to a start at work, one stop stops the proxy at a time, a stored stop channel is unanswered. So the answer of a channel is the phase of all who wait on it |
| `EveryPoolIsChecked`, `StoppedIsSilent` | `HealthLoopForEveryPool`, `StoppedMeansSilent`, assuming both disciplines | `HealthInv`: updates and lifecycle calls are apart; for every pool the registry has the task of its balancer, or the start or update at work still has it to do; outside Running the registry is empty unless a start or stop is at work |
| `GatewayTypeCorrect`, `RequestsGoToAddedUpstreams`, `AddedUpstreamIsServed` | `GatewayTypeOK`, `SentToAddedUpstream`, `AddedUpstreamHasPool` | `TrafficInv`: an upstream in the table has an add that no effective remove came after, one that was added and is not there a remove that no effective add came after; so the order of promises bounds the table a request meets |
| `StartedMeansReachable` | `StartedProxyConnects`, assuming `AwaitBeforeRestart` | `ReachableInv`: a start answered with success is in effect, or a stop was made that had not resolved when the start was made |
| `TrafficLeavesProxyAlone` | `GatewaySpec => Spec` | none: carries the theorems about `Spec` over to `gateway`, where the run checks them |
| `RoutingTypeCorrect`, `LimitsAreEnforced`, `AcceptedOptionsAreUsable`, `PortIsKept` | `RoutingTypeOK`, `LimitsEnforced`, `AcceptedMeansUsable`, `PortKept` | `RoutingInv`: every stage of the pipeline holds what the operators compute from the stages before. The rest are facts about the operators |
| `RoutedToOwner` | `RoutedToItsOwner` | `RoutingInv`, with: a host is covered by a name exactly when its stripped, lower-case form is the name's key (`HostNamesRoute`); a path starts with a name exactly when its first segment is the name (`FirstSegmentIs`, `SegmentStartsPath`); a table has, for each key, the only accepted application with that key (`TablesNameApplications`, `OneOwner`) |
| `OnlyTheSegmentIsStripped` | `OnlySegmentStripped` | `RoutingInv`, with: a routed name is the first segment, so it is a prefix up to a boundary after one slash (`StripAtBoundary`), or there is a second slash (`MoreSlashes`) and the target is left alone; where path and query part (`PathAndQueryOfConcat`) |
| `CookieKeepsTheSession` | `CookieKeepsSession` | `RoutingInv`, with: every key in use is safe (`KeyIsSafe`), hence without separators; the set cookie parses back (`PairFits`); splitting a header gives the pieces of its parts (`HeaderPieces`) |
| `StickyTypeCorrect`, `SweepersNeverDeadlock` | `StickyTypeOK`, `SomeSweeperMoves` | `StickyInv`: only sweepers hold mutexes, each an initial segment of the shards; so the holder of the first mutex owns all held ones and its next one is free |
| `StoreStaysNearCapacity` | `CapacityBound` | `CapacityInv`: each entry over `max_entries` is paid for by an operation since the last due sweep of its shard (`Credits`) or by a sweep that is due or running (`Sweepers`) |
| `RequestsTypeCorrect`, `PeerIsFromSnapshot`, `RetryIsBounded`, `RequestSweepsNeverDeadlock` | `RequestsTypeOK`, `PeerFromSnapshot`, `RetriedOnce`, `SomeSweeperMoves` | `RequestsInv`: `FlowOK(r)` ties the stage of a request to its peer (in its pool from selection to connection) and its failures to the one retry |
| `StoreUnderRequests`, `RequestsKeepStoreBounded` | `RequestsSpec => StickySpec`, `CapacityBound` | `RequestsInv`: each step of a request is one operation of the store or leaves it alone |
| `SessionsDoStick` | `SessionsStick`, assuming `SerialSessions` and finitely many keys | `SessionInv`: a session has one open request, which saw the newest configuration of its requests; a version stands for one pool; a bind follows a miss; and for a settled request its backend is stored until its time-to-live ends, or its time is over for all who may still look, or the session moved on to a newer configuration |
| `FailedBackendIsForgotten` | `FailedBackendForgotten`, assuming `SerialSessions` | `ForgetInv`: a request in the store works on its own key and is the only open one of its session, so whoever writes an entry of the session is the request on its retry itself, and it is then connecting |

Only model-checked, because fairness and ENABLED are outside the prover's reach:
`EveryCallSettles` and `EveryRequestAnswered`. Nothing here needs induction over
data: the string operators are comprehensions with minima and maxima, and what a
least position satisfies comes from the well-foundedness of the naturals.

## 5. Assumptions about Pingora and tokio

A service told to shut down returns; `select` returns a backend of the pool it
was built from; `fail_to_connect` with the retry flag set calls `upstream_peer`
again with the same context, without it the request fails; a connect error is
not retryable by default; a watch receiver wakes on send and on drop.

## 6. Findings

Each one is a run TLC finds violated; details and quotations in `PROJECT.json`.

1. `v_stop_resolves_early`: a `stop()` racing a `start()` can resolve while the
   port is still open. The cancelled start answers its channel before it calls
   `stop_all`; if it then takes the handles first, the stop finds none to await.
2. `v_restart_leaks_listener`: the ends of `stop()` and of a cancelled start write
   Stopped unconditionally. A restart made while an older call is still settling
   can be overwritten: the proxy is Stopped with a serving listener that no
   `stop()` will release.
3. `v_update_during_start`: an update committed while the proxy is Starting gets
   no health task from either side, so its backends never become routable.
4. `v_missing_host`: a request without a Host header that is text, such as an
   HTTP/2 request with only `:authority`, makes `extract_host` call
   `HeaderName::from_static(":authority")`, which panics. It is neither routed nor
   answered; the README calls the default application the catch-all.
5. `v_max_entries`: the store can hold more than `maxEntries` entries, documented
   as the maximum kept in memory, with no operation under way and no sweep due.

A smaller one, stated by a property that holds: a request for `//a` is routed to
the path application `a`, since `extract_first_path_segment` skips empty segments
(`router.rs:753`), and forwarded as `//a`, since `strip_first_path_segment` does
not (`router.rs:927`). The repository's README (line 28) says that the segment is
stripped before proxying; `OnlySegmentStripped` says what the code does.

The stale `is_running` of finding 3 races a stop as well: an update that read it before
the stop registers its health task after it, on a stopped proxy. That is why
`StoppedMeansSilent` is checked under `UpdatesAwaitLifecycle` only.

The proofs under `AwaitBeforeRestart` and under both disciplines show that
clients which await are not affected by 2 and 3.

## 7. Not modelled

`add_service` of the registry (dead code). The listen address and the TLS paths
(passed on to the bind and to Pingora, whose failure is `StartSetupFails`).
Applying timeouts to sessions and peers, TLS, sockets, HTTP parsing and
health-check probing (Pingora): `healthCheckIntervalMs`, which may be 0, only
reaches that code. Which clients send no `Host` is up to them and to Pingora; what
the code does then is modelled. Error objects and messages (`errors.rs`);
their codes are modelled in `Options`. The benchmarks and `lib.rs`.

## 8. State and plan

Every component with state of its own is modelled; every safety property and
refinement of the passing runs is proved. What is left:

1. Facts about steps rather than states: that a session's entry is only ever
   dropped by expiry, eviction, a failed connection or a changed pool, and that a
   committed update changes the pools of one application only.
