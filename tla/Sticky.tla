------------------------------- MODULE Sticky -------------------------------
(***************************************************************************)
(* The sticky-session store of src/router.rs (StickySessionState): a map   *)
(* from affinity keys to backends with an expiry time, split into shards   *)
(* with a mutex and an operation counter each.  Every CleanupPeriod-th     *)
(* operation on a shard first, or afterwards, sweeps the whole store: the  *)
(* sweeper locks all shards in index order, drops expired entries, evicts  *)
(* the ones closest to expiry down to max_entries, and unlocks them all.   *)
(*                                                                         *)
(* Many requests use the store from many threads.  A critical section that *)
(* takes one shard's mutex is one step, enabled when the mutex is free;    *)
(* only a sweeper keeps mutexes across steps.                              *)
(***************************************************************************)
EXTENDS Integers, FiniteSets

CONSTANTS
  Requests,        \* the requests, each running one store operation at a time
  AffinityKeys,    \* the keys of the map (AffinityMapKey)
  Backends,        \* backend addresses
  ShardCount,      \* STICKY_SHARD_COUNT
  ShardOf,         \* shard_index_for_key, a hash
  Ttl,             \* config.ttl, in clock ticks
  max_entries,     \* config.max_entries
  CleanupPeriod,   \* the 128 of should_cleanup
  MaxTime,         \* bound of the model: the clock stops there
  None

Shards == 1 .. ShardCount

ASSUME StickyAssumption ==
  /\ ShardCount \in Nat \ {0} /\ Ttl \in Nat \ {0}
  /\ max_entries \in Nat \ {0} /\ CleanupPeriod \in Nat \ {0} /\ MaxTime \in Nat
  /\ ShardOf \in [AffinityKeys -> Shards]
  /\ None \notin Requests \cup AffinityKeys \cup Backends \cup [backend : Backends, expires_at : Nat]

VARIABLES
  clock,        \* Instant::now()
  entries,      \* affinity key -> entry, or None
  op_counter,   \* shard -> operations so far, modulo CleanupPeriod
  lock,         \* shard -> the sweeper that holds its mutex, or None
  op            \* request -> the store operation it is in

stickyVars == <<clock, entries, op_counter, lock, op>>

AffinityEntry == [backend : Backends, expires_at : Nat]

\* Where a request is inside the store; "sweep_lookup" is the cleanup before
\* a lookup, "sweep_bind" the one after a bind.
Stages == {"idle", "lookup", "sweep_lookup", "bind", "sweep_bind"}
Operation == [at : Stages, key : AffinityKeys \cup {None}, now : Nat]

Sweeping(r) == op[r].at \in {"sweep_lookup", "sweep_bind"}
Held(r) == {s \in Shards : lock[s] = r}
Bound == {k \in AffinityKeys : entries[k] # None}

StickyTypeOK ==
  /\ clock \in Nat
  /\ entries \in [AffinityKeys -> AffinityEntry \cup {None}]
  /\ op_counter \in [Shards -> 0 .. CleanupPeriod - 1]
  /\ lock \in [Shards -> Requests \cup {None}]
  /\ op \in [Requests -> Operation]
  /\ \A r \in Requests : op[r].at # "idle" => op[r].key # None

StickyInit ==
  /\ clock = 0
  /\ entries = [k \in AffinityKeys |-> None]
  /\ op_counter = [s \in Shards |-> 0]
  /\ lock = [s \in Shards |-> None]
  /\ op = [r \in Requests |-> [at |-> "idle", key |-> None, now |-> 0]]

-----------------------------------------------------------------------------
\* The request goes on to another stage of its operation, or ends it.
Proceed(r, stage) == op' = [op EXCEPT ![r] = [at |-> stage, key |-> @.key, now |-> @.now]]

\* should_cleanup: the counter's value before the increment decides.
should_cleanup(s) == op_counter[s] = 0

\* Mutant of CountOperation: the counter leaves its range.
CountOperationUpTo(s) ==
  op_counter' = [op_counter EXCEPT ![s] = IF @ = CleanupPeriod THEN 0 ELSE @ + 1]

CountOperation(s) == op_counter' = [op_counter EXCEPT ![s] = (@ + 1) % CleanupPeriod]

\* lookup, up to the point where it needs the shard's mutex: the time is
\* read here and used below, after a sweep and a wait.
LookupBegins(r, k) ==
  /\ op[r].at = "idle"
  /\ CountOperation(ShardOf[k])
  /\ op' = [op EXCEPT ![r] =
       [at |-> IF should_cleanup(ShardOf[k]) THEN "sweep_lookup" ELSE "lookup",
        key |-> k, now |-> clock]]
  /\ UNCHANGED <<clock, entries, lock>>

\* Mutant of Mapped: the caller's pool is not consulted.
MappedAnywhere(r, allowed_backends) ==
  LET entry == entries[op[r].key] IN
    IF entry # None /\ entry.expires_at > op[r].now THEN entry.backend ELSE None

\* The backend a lookup finds, None when there is no entry, when it expired
\* or when its backend is not in the caller's pool.
Mapped(r, allowed_backends) ==
  LET entry == entries[op[r].key] IN
    IF entry # None /\ entry.expires_at > op[r].now /\ entry.backend \in allowed_backends
    THEN entry.backend ELSE None

\* Mutant of LookupEnds: a hit does not slide the expiry.
LookupEndsUnrefreshed(r, allowed_backends) ==
  /\ op[r].at = "lookup"
  /\ lock[ShardOf[op[r].key]] = None
  /\ entries' = [entries EXCEPT ![op[r].key] =
       IF Mapped(r, allowed_backends) = None THEN None ELSE @]
  /\ Proceed(r, "idle")
  /\ UNCHANGED <<clock, op_counter, lock>>

\* The critical section of lookup: a hit slides the expiry, anything else
\* drops the entry.
LookupEnds(r, allowed_backends) ==
  /\ op[r].at = "lookup"
  /\ lock[ShardOf[op[r].key]] = None
  /\ entries' = [entries EXCEPT ![op[r].key] =
       IF Mapped(r, allowed_backends) = None THEN None
       ELSE [backend |-> Mapped(r, allowed_backends), expires_at |-> op[r].now + Ttl]]
  /\ Proceed(r, "idle")
  /\ UNCHANGED <<clock, op_counter, lock>>

\* bind reads the time before it waits for the mutex.
BindBegins(r, k) ==
  /\ op[r].at = "idle"
  /\ op' = [op EXCEPT ![r] = [at |-> "bind", key |-> k, now |-> clock]]
  /\ UNCHANGED <<clock, entries, op_counter, lock>>

\* Mutant of BindEnds: the shard's mutex is still held when the sweep begins.
BindEndsLocked(r, backend) ==
  LET k == op[r].key
      due == should_cleanup(ShardOf[k])
  IN
    /\ op[r].at = "bind"
    /\ lock[ShardOf[k]] = None
    /\ entries' = [entries EXCEPT ![k] =
         [backend |-> backend, expires_at |-> op[r].now + Ttl]]
    /\ CountOperation(ShardOf[k])
    /\ lock' = [lock EXCEPT ![ShardOf[k]] = IF due THEN r ELSE @]
    /\ Proceed(r, IF due THEN "sweep_bind" ELSE "idle")
    /\ UNCHANGED clock

\* Mutant of BindEnds: a bind does not count as an operation of its shard.
BindEndsUncounted(r, backend) ==
  LET k == op[r].key IN
    /\ op[r].at = "bind"
    /\ lock[ShardOf[k]] = None
    /\ entries' = [entries EXCEPT ![k] =
         [backend |-> backend, expires_at |-> op[r].now + Ttl]]
    /\ Proceed(r, IF should_cleanup(ShardOf[k]) THEN "sweep_bind" ELSE "idle")
    /\ UNCHANGED <<clock, op_counter, lock>>

\* The critical section of bind; the mutex is dropped before the sweep.
BindEnds(r, backend) ==
  LET k == op[r].key IN
    /\ op[r].at = "bind"
    /\ lock[ShardOf[k]] = None
    /\ entries' = [entries EXCEPT ![k] =
         [backend |-> backend, expires_at |-> op[r].now + Ttl]]
    /\ CountOperation(ShardOf[k])
    /\ Proceed(r, IF should_cleanup(ShardOf[k]) THEN "sweep_bind" ELSE "idle")
    /\ UNCHANGED <<clock, lock>>

remove(r, k) ==
  /\ op[r].at = "idle"
  /\ lock[ShardOf[k]] = None
  /\ entries' = [entries EXCEPT ![k] = None]
  /\ UNCHANGED <<clock, op_counter, lock, op>>

\* cleanup_global collects the guards of all shards, in index order.
SweepLocks(r) ==
  /\ Sweeping(r)
  /\ \E s \in Shards \ Held(r) :
       /\ 1 .. s - 1 \subseteq Held(r)
       /\ lock[s] = None
       /\ lock' = [lock EXCEPT ![s] = r]
  /\ UNCHANGED <<clock, entries, op_counter, op>>

\* The entries that survive a sweep: the unexpired ones and, when these are
\* more than max_entries, the ones that expire last (ties fall either way).
Survivors(now) ==
  LET fresh == {k \in Bound : entries[k].expires_at > now} IN
    {kept \in SUBSET fresh :
       /\ kept = fresh \/ Cardinality(kept) = max_entries
       /\ Cardinality(kept) <= max_entries
       /\ \A k \in kept, v \in fresh \ kept : entries[v].expires_at <= entries[k].expires_at}

\* The rest of cleanup_global, with every shard locked.
Sweep(r) ==
  /\ Sweeping(r)
  /\ Held(r) = Shards
  /\ \E kept \in Survivors(op[r].now) :
       entries' = [k \in AffinityKeys |-> IF k \in kept THEN entries[k] ELSE None]
  /\ lock' = [s \in Shards |-> None]
  /\ Proceed(r, IF op[r].at = "sweep_lookup" THEN "lookup" ELSE "idle")
  /\ UNCHANGED <<clock, op_counter>>

\* Time passes; it stops at the model's bound.
Tick ==
  /\ clock < MaxTime
  /\ clock' = clock + 1
  /\ UNCHANGED <<entries, op_counter, lock, op>>

\* The store on its own, under requests that issue any operations.
StickyNext ==
  \/ \E r \in Requests :
       \/ \E k \in AffinityKeys : LookupBegins(r, k) \/ BindBegins(r, k) \/ remove(r, k)
       \/ \E allowed_backends \in SUBSET Backends : LookupEnds(r, allowed_backends)
       \/ \E backend \in Backends : BindEnds(r, backend)
       \/ SweepLocks(r) \/ Sweep(r)
  \/ Tick

StickySpec == StickyInit /\ [][StickyNext]_stickyVars

-----------------------------------------------------------------------------
\* The sweepers never lock each other, or themselves, out: as long as one
\* request is in cleanup_global, some request there holds every mutex or
\* finds the next one free.
SomeSweeperMoves ==
  (\E r \in Requests : Sweeping(r)) =>
    \E r \in Requests :
      /\ Sweeping(r)
      /\ \/ Held(r) = Shards
         \/ \E s \in Shards \ Held(r) : 1 .. s - 1 \subseteq Held(r) /\ lock[s] = None

\* The store stays near max_entries although it is only swept now and then:
\* each shard can add less than a period of entries between two sweeps, and
\* a period more for each sweep that is due and has not run yet.
CapacityBound ==
  Cardinality(Bound) <=
    max_entries + ShardCount * (CleanupPeriod - 1)
      + CleanupPeriod * Cardinality({r \in Requests : Sweeping(r)})

\* options.rs on maxEntries: "Maximum affinity entries kept in memory".  Read
\* leniently: whenever no operation is under way, so that no sweep is due.
MaxEntriesKept == (\A r \in Requests : op[r].at = "idle") => Cardinality(Bound) <= max_entries
=============================================================================
