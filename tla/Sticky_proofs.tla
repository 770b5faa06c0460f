--------------------------- MODULE Sticky_proofs ---------------------------
(***************************************************************************)
(* The sticky store's type correctness, the freedom of its sweepers from   *)
(* deadlock and the bound on its size, for any number of requests, keys    *)
(* and shards.                                                             *)
(***************************************************************************)
EXTENDS Sticky, FiniteSetTheorems, TLAPS

\* Only a request inside cleanup_global holds mutexes, and what it holds is
\* an initial segment of the shards: the guards are collected in order.
LockInv ==
  /\ \A s \in Shards : lock[s] # None => Sweeping(lock[s])
  /\ \A r \in Requests : \E n \in 0 .. ShardCount : Held(r) = 1 .. n

\* The inductive invariant of the store.
StickyInv == StickyTypeOK /\ LockInv

\* The empty store satisfies the invariant.
LEMMA StickyInitInv == StickyInit => StickyInv
<1> SUFFICES ASSUME StickyInit PROVE StickyInv
  OBVIOUS
<1> USE StickyAssumption
<1>1. StickyTypeOK
  <2>1. 0 \in 0 .. CleanupPeriod - 1
    OBVIOUS
  <2> QED BY <2>1 DEF StickyInit, StickyTypeOK, AffinityEntry, Operation, Stages
<1>2. \A r \in Requests : Held(r) = 1 .. 0
  BY DEF StickyInit, Held
<1>3. 0 \in 0 .. ShardCount
  OBVIOUS
<1>4. LockInv
  BY <1>2, <1>3 DEF StickyInit, LockInv
<1> QED BY <1>1, <1>4 DEF StickyInv

\* The counter of a shard stays below its period.
LEMMA CountOperationType ==
  ASSUME StickyTypeOK, NEW s \in Shards, CountOperation(s)
  PROVE  op_counter' \in [Shards -> 0 .. CleanupPeriod - 1]
<1>1. \A n \in Nat : (n + 1) % CleanupPeriod \in 0 .. CleanupPeriod - 1
  BY StickyAssumption
<1>2. op_counter[s] \in Nat
  BY StickyAssumption DEF StickyTypeOK
<1> QED BY <1>1, <1>2 DEF StickyTypeOK, CountOperation

\* A request that moves to a stage of an operation on a key keeps the type
\* of the operations.
LEMMA OperationType ==
  ASSUME StickyTypeOK, NEW r \in Requests, NEW stage \in Stages,
         NEW k \in AffinityKeys, NEW now \in Nat,
         op' = [op EXCEPT ![r] = [at |-> stage, key |-> k, now |-> now]]
  PROVE  /\ op' \in [Requests -> Operation]
         /\ \A q \in Requests : op'[q].at # "idle" => op'[q].key # None
<1>1. [at |-> stage, key |-> k, now |-> now] \in Operation
  BY DEF Operation
<1>2. k # None
  BY StickyAssumption
<1> QED BY <1>1, <1>2 DEF StickyTypeOK

\* A step that changes no mutex and takes no sweeper out of its sweep keeps
\* the invariant of the mutexes.
LEMMA LockFrame ==
  ASSUME LockInv, StickyTypeOK, lock' = lock,
         \A q \in Requests : Sweeping(q) => Sweeping(q)'
  PROVE  LockInv'
<1>1. \A r \in Requests : Held(r)' = Held(r)
  BY DEF Held
<1> QED BY <1>1 DEF LockInv, StickyTypeOK

\* A lookup up to its mutex keeps the invariant.
LEMMA LookupBeginsInv ==
  ASSUME StickyInv, NEW r \in Requests, NEW k \in AffinityKeys, LookupBegins(r, k)
  PROVE  StickyInv'
<1> USE StickyAssumption
<1> USE DEF StickyInv
<1>1. op_counter' \in [Shards -> 0 .. CleanupPeriod - 1]
  BY CountOperationType DEF LookupBegins
<1>2. StickyTypeOK'
  <2> DEFINE stage == IF should_cleanup(ShardOf[k]) THEN "sweep_lookup" ELSE "lookup"
  <2>1. stage \in Stages /\ clock \in Nat
    BY DEF Stages, StickyTypeOK
  <2>2. op' = [op EXCEPT ![r] = [at |-> stage, key |-> k, now |-> clock]]
    BY DEF LookupBegins
  <2> HIDE DEF stage
  <2>3. /\ op' \in [Requests -> Operation]
        /\ \A q \in Requests : op'[q].at # "idle" => op'[q].key # None
    BY <2>1, <2>2, OperationType
  <2> QED BY <1>1, <2>3 DEF LookupBegins, StickyTypeOK
<1>3. \A q \in Requests : Sweeping(q) => Sweeping(q)'
  BY DEF LookupBegins, Sweeping, StickyTypeOK
<1>4. LockInv'
  BY <1>3, LockFrame DEF LookupBegins
<1> QED BY <1>2, <1>4

\* A lookup's critical section keeps the invariant.
LEMMA LookupEndsInv ==
  ASSUME StickyInv, NEW r \in Requests, NEW allowed_backends, LookupEnds(r, allowed_backends)
  PROVE  StickyInv'
<1> USE StickyAssumption
<1> USE DEF StickyInv
<1>1. op[r].key \in AffinityKeys /\ op[r].now \in Nat
  BY DEF StickyTypeOK, LookupEnds, Operation
<1>2. Mapped(r, allowed_backends) # None => entries[op[r].key] \in AffinityEntry
  BY <1>1 DEF Mapped, StickyTypeOK
<1>3. entries' \in [AffinityKeys -> AffinityEntry \cup {None}]
  <2> DEFINE mapped == Mapped(r, allowed_backends)
             entry == [backend |-> mapped, expires_at |-> op[r].now + Ttl]
  <2>1. mapped # None => mapped \in Backends
    BY <1>2 DEF Mapped, AffinityEntry
  <2>2. op[r].now + Ttl \in Nat
    BY <1>1
  <2>3. mapped # None => entry \in AffinityEntry
    BY <2>1, <2>2 DEF AffinityEntry
  <2>4. entries' = [entries EXCEPT ![op[r].key] = IF mapped = None THEN None ELSE entry]
    BY DEF LookupEnds
  <2> HIDE DEF mapped, entry
  <2> QED BY <1>1, <2>3, <2>4 DEF StickyTypeOK
<1>4. op' = [op EXCEPT ![r] = [at |-> "idle", key |-> op[r].key, now |-> op[r].now]]
  BY DEF LookupEnds, Proceed
<1>5. StickyTypeOK'
  <2>1. "idle" \in Stages
    BY DEF Stages
  <2>2. /\ op' \in [Requests -> Operation]
        /\ \A q \in Requests : op'[q].at # "idle" => op'[q].key # None
    BY <1>1, <1>4, <2>1, OperationType
  <2> QED BY <1>3, <2>2 DEF LookupEnds, StickyTypeOK
<1>6. \A q \in Requests : Sweeping(q) => Sweeping(q)'
  BY <1>4 DEF LookupEnds, Sweeping, StickyTypeOK
<1>7. LockInv'
  BY <1>6, LockFrame DEF LookupEnds
<1> QED BY <1>5, <1>7

\* A bind up to its mutex keeps the invariant.
LEMMA BindBeginsInv ==
  ASSUME StickyInv, NEW r \in Requests, NEW k \in AffinityKeys, BindBegins(r, k)
  PROVE  StickyInv'
<1> USE StickyAssumption
<1> USE DEF StickyInv
<1>1. StickyTypeOK'
  <2>1. "bind" \in Stages /\ clock \in Nat
    BY DEF Stages, StickyTypeOK
  <2>2. /\ op' \in [Requests -> Operation]
        /\ \A q \in Requests : op'[q].at # "idle" => op'[q].key # None
    BY <2>1, OperationType DEF BindBegins
  <2> QED BY <2>2 DEF BindBegins, StickyTypeOK
<1>2. \A q \in Requests : Sweeping(q) => Sweeping(q)'
  BY DEF BindBegins, Sweeping, StickyTypeOK
<1>3. LockInv'
  BY <1>2, LockFrame DEF BindBegins
<1> QED BY <1>1, <1>3

\* A bind's critical section keeps the invariant.
LEMMA BindEndsInv ==
  ASSUME StickyInv, NEW r \in Requests, NEW backend \in Backends, BindEnds(r, backend)
  PROVE  StickyInv'
<1> USE StickyAssumption
<1> USE DEF StickyInv
<1>1. op[r].key \in AffinityKeys /\ op[r].now \in Nat
  BY DEF StickyTypeOK, BindEnds, Operation
<1>2. op_counter' \in [Shards -> 0 .. CleanupPeriod - 1]
  BY <1>1, CountOperationType DEF BindEnds
<1>3. entries' \in [AffinityKeys -> AffinityEntry \cup {None}]
  BY <1>1 DEF BindEnds, StickyTypeOK, AffinityEntry
<1> DEFINE stage == IF should_cleanup(ShardOf[op[r].key]) THEN "sweep_bind" ELSE "idle"
<1>4. op' = [op EXCEPT ![r] = [at |-> stage, key |-> op[r].key, now |-> op[r].now]]
  BY DEF BindEnds, Proceed
<1>5. stage \in Stages
  BY DEF Stages
<1> HIDE DEF stage
<1>6. StickyTypeOK'
  <2>1. /\ op' \in [Requests -> Operation]
        /\ \A q \in Requests : op'[q].at # "idle" => op'[q].key # None
    BY <1>1, <1>4, <1>5, OperationType
  <2> QED BY <1>2, <1>3, <2>1 DEF BindEnds, StickyTypeOK
<1>7. \A q \in Requests : Sweeping(q) => Sweeping(q)'
  BY <1>4 DEF BindEnds, Sweeping, StickyTypeOK
<1>8. LockInv'
  BY <1>7, LockFrame DEF BindEnds
<1> QED BY <1>6, <1>8

\* Removing a key keeps the invariant.
LEMMA RemoveInv ==
  ASSUME StickyInv, NEW r \in Requests, NEW k \in AffinityKeys, remove(r, k)
  PROVE  StickyInv'
<1> USE DEF StickyInv
<1>1. StickyTypeOK'
  BY DEF remove, StickyTypeOK
<1>2. LockInv'
  BY LockFrame DEF remove, Sweeping
<1> QED BY <1>1, <1>2

\* A sweeper that takes the next mutex holds one more of an initial segment.
LEMMA SweepLocksInv ==
  ASSUME StickyInv, NEW r \in Requests, SweepLocks(r)
  PROVE  StickyInv'
<1> USE StickyAssumption
<1> USE DEF StickyInv
<1>1. PICK s \in Shards \ Held(r) :
         1 .. s - 1 \subseteq Held(r) /\ lock[s] = None /\ lock' = [lock EXCEPT ![s] = r]
  BY DEF SweepLocks
<1>2. StickyTypeOK'
  BY <1>1 DEF SweepLocks, StickyTypeOK
<1>3. \A t \in Shards : lock'[t] # None => Sweeping(lock[t])'
  <2> SUFFICES ASSUME NEW t \in Shards, lock'[t] # None PROVE Sweeping(lock[t])'
    OBVIOUS
  <2>1. CASE t = s
    <3>1. lock'[t] = r
      BY <1>1, <2>1 DEF StickyTypeOK
    <3>2. Sweeping(r)
      BY DEF SweepLocks
    <3> QED BY <3>1, <3>2 DEF SweepLocks, Sweeping
  <2>2. CASE t # s
    <3>1. lock'[t] = lock[t]
      BY <1>1, <2>2 DEF StickyTypeOK
    <3>2. Sweeping(lock[t])
      BY <3>1 DEF LockInv
    <3> QED BY <3>1, <3>2 DEF SweepLocks, Sweeping
  <2> QED BY <2>1, <2>2
<1>4. Held(r)' = 1 .. s
  <2>1. PICK n \in 0 .. ShardCount : Held(r) = 1 .. n
    BY DEF LockInv
  <2>2. n = s - 1
    <3>1. s \in Nat /\ s \notin 1 .. n /\ s >= 1 /\ n \in Nat
      BY <1>1, <2>1 DEF Shards
    <3>2. s > n
      BY <3>1
    <3>3. s # 1 => s - 1 \in 1 .. n
      BY <1>1, <2>1, <3>1
    <3> QED BY <3>1, <3>2, <3>3
  <2>3. Held(r)' = Held(r) \cup {s}
    BY <1>1 DEF Held, StickyTypeOK
  <2> QED BY <1>1, <2>1, <2>2, <2>3 DEF Shards
<1>5. \A q \in Requests \ {r} : Held(q)' = Held(q)
  BY <1>1 DEF Held, StickyTypeOK
<1>6. LockInv'
  <2>1. s \in 0 .. ShardCount
    BY DEF Shards
  <2>2. \A q \in Requests : \E n \in 0 .. ShardCount : Held(q)' = 1 .. n
    BY <1>4, <1>5, <2>1 DEF LockInv
  <2> QED BY <1>3, <2>2 DEF LockInv
<1> QED BY <1>2, <1>6

\* A sweep drops entries, never adds any, and frees every mutex.
LEMMA SweepInv ==
  ASSUME StickyInv, NEW r \in Requests, Sweep(r)
  PROVE  StickyInv'
<1> USE StickyAssumption
<1> USE DEF StickyInv
<1>1. entries' \in [AffinityKeys -> AffinityEntry \cup {None}]
  BY DEF Sweep, StickyTypeOK
<1>2. StickyTypeOK'
  <2> DEFINE stage == IF op[r].at = "sweep_lookup" THEN "lookup" ELSE "idle"
  <2>1. op' = [op EXCEPT ![r] = [at |-> stage, key |-> op[r].key, now |-> op[r].now]]
    BY DEF Sweep, Proceed
  <2>2. stage \in Stages
    BY DEF Stages
  <2>3. op[r].key \in AffinityKeys /\ op[r].now \in Nat
    BY DEF Sweep, Sweeping, StickyTypeOK, Operation
  <2> HIDE DEF stage
  <2>4. /\ op' \in [Requests -> Operation]
        /\ \A q \in Requests : op'[q].at # "idle" => op'[q].key # None
    BY <2>1, <2>2, <2>3, OperationType
  <2> QED BY <1>1, <2>4 DEF Sweep, StickyTypeOK
<1>3. \A q \in Requests : Held(q)' = 1 .. 0
  BY DEF Sweep, Held
<1>4. LockInv'
  <2>1. 0 \in 0 .. ShardCount
    OBVIOUS
  <2>2. \A s \in Shards : lock'[s] = None
    BY DEF Sweep
  <2> QED BY <1>3, <2>1, <2>2 DEF LockInv
<1> QED BY <1>2, <1>4

\* Time alone keeps the invariant.
LEMMA TickInv ==
  ASSUME StickyInv, Tick
  PROVE  StickyInv'
<1> USE DEF StickyInv
<1>1. StickyTypeOK'
  BY DEF Tick, StickyTypeOK
<1>2. LockInv'
  BY LockFrame DEF Tick, Sweeping
<1> QED BY <1>1, <1>2

\* A step outside the store keeps its invariant.
LEMMA StickyStutterInv ==
  ASSUME StickyInv, UNCHANGED stickyVars
  PROVE  StickyInv'
<1> USE DEF StickyInv, stickyVars
<1>1. StickyTypeOK'
  BY DEF StickyTypeOK
<1>2. LockInv'
  BY LockFrame DEF Sweeping
<1> QED BY <1>1, <1>2

-----------------------------------------------------------------------------
\* The ordered mutexes leave some sweeper free to go on: all held mutexes
\* belong to the holder of the first one, so its next one is free.
LEMMA OrderedLocksProgress == StickyInv => SomeSweeperMoves
<1> SUFFICES ASSUME StickyInv, NEW q \in Requests, Sweeping(q)
             PROVE  \E r \in Requests :
                      /\ Sweeping(r)
                      /\ \/ Held(r) = Shards
                         \/ \E s \in Shards \ Held(r) : 1 .. s - 1 \subseteq Held(r) /\ lock[s] = None
  BY DEF SomeSweeperMoves
<1> USE StickyAssumption
<1> USE DEF StickyInv
<1>1. 1 \in Shards
  BY DEF Shards
<1>2. CASE lock[1] = None
  <2>1. 1 \notin Held(q)
    BY <1>2 DEF Held
  <2>2. 1 .. 1 - 1 \subseteq Held(q)
    OBVIOUS
  <2> QED BY <1>1, <1>2, <2>1, <2>2
<1>3. CASE lock[1] # None
  <2> DEFINE r == lock[1]
  <2>1. r \in Requests /\ Sweeping(r)
    BY <1>1, <1>3 DEF LockInv, StickyTypeOK
  <2>2. PICK n \in 0 .. ShardCount : Held(r) = 1 .. n
    BY <2>1 DEF LockInv
  <2>3. CASE n = ShardCount
    BY <2>1, <2>2, <2>3 DEF Shards
  <2>4. CASE n < ShardCount
    <3>1. n + 1 \in Shards \ Held(r) /\ 1 .. (n + 1) - 1 \subseteq Held(r)
      BY <2>2, <2>4 DEF Shards
    <3>2. lock[n + 1] = None
      <4> SUFFICES ASSUME lock[n + 1] # None PROVE FALSE
        OBVIOUS
      <4> DEFINE p == lock[n + 1]
      <4>1. p \in Requests /\ n + 1 \in Held(p)
        BY <3>1 DEF StickyTypeOK, Held
      <4>2. PICK m \in 0 .. ShardCount : Held(p) = 1 .. m
        BY <4>1 DEF LockInv
      <4>3. 1 \in Held(p)
        BY <4>1, <4>2, <2>2
      <4>4. p = r
        BY <4>3 DEF Held
      <4> QED BY <4>1, <4>4, <3>1
    <3> QED BY <2>1, <3>1, <3>2
  <2> QED BY <2>2, <2>3, <2>4
<1> QED BY <1>2, <1>3

\* The store's invariant holds whatever operations the requests issue.
LEMMA StickyInvariant == StickySpec => []StickyInv
<1>1. StickyInit => StickyInv
  BY StickyInitInv
<1>2. StickyInv /\ [StickyNext]_stickyVars => StickyInv'
  <2> SUFFICES ASSUME StickyInv, [StickyNext]_stickyVars
               PROVE  StickyInv'
    OBVIOUS
  <2>1. CASE \E r \in Requests, k \in AffinityKeys : LookupBegins(r, k)
    BY <2>1, LookupBeginsInv
  <2>2. CASE \E r \in Requests, k \in AffinityKeys : BindBegins(r, k)
    BY <2>2, BindBeginsInv
  <2>3. CASE \E r \in Requests, k \in AffinityKeys : remove(r, k)
    BY <2>3, RemoveInv
  <2>4. CASE \E r \in Requests : \E allowed_backends \in SUBSET Backends :
               LookupEnds(r, allowed_backends)
    BY <2>4, LookupEndsInv
  <2>5. CASE \E r \in Requests : \E backend \in Backends : BindEnds(r, backend)
    BY <2>5, BindEndsInv
  <2>6. CASE \E r \in Requests : SweepLocks(r)
    BY <2>6, SweepLocksInv
  <2>7. CASE \E r \in Requests : Sweep(r)
    BY <2>7, SweepInv
  <2>8. CASE Tick
    BY <2>8, TickInv
  <2>9. CASE UNCHANGED stickyVars
    BY <2>9, StickyStutterInv
  <2> QED BY <2>1, <2>2, <2>3, <2>4, <2>5, <2>6, <2>7, <2>8, <2>9 DEF StickyNext
<1> QED BY <1>1, <1>2, PTL DEF StickySpec

\* The store is type correct, whatever operations the requests issue: no
\* operation leaves an entry, a counter or a mutex outside its type.
THEOREM StickyTypeCorrect == StickySpec => []StickyTypeOK
<1>1. StickyInv => StickyTypeOK
  BY DEF StickyInv
<1> QED BY <1>1, StickyInvariant, PTL

\* The sweepers, which lock all shards while others do the same, never
\* deadlock.
THEOREM SweepersNeverDeadlock == StickySpec => []SomeSweeperMoves
BY OrderedLocksProgress, StickyInvariant, PTL
-----------------------------------------------------------------------------
(* The capacity of the store                                               *)

Sweepers == {r \in Requests : Sweeping(r)}

\* How many operations a shard has counted since the last one that made a
\* sweep due: one more each time, and none again when the counter passes 0.
SinceDue(s) == IF op_counter[s] = 0 THEN CleanupPeriod - 1 ELSE op_counter[s] - 1

\* The operations that no sweep is due for yet, over all shards.
Credits == {c \in Shards \X (1 .. CleanupPeriod - 1) : c[2] <= SinceDue(c[1])}

\* The part of CapacityBound that is inductive: each entry over max_entries
\* is paid for by an operation since the last due sweep, or by a due sweep.
CapacityInv ==
  /\ IsFiniteSet(Bound) /\ IsFiniteSet(Sweepers)
  /\ Cardinality(Bound) <=
       max_entries + Cardinality(Credits) + CleanupPeriod * Cardinality(Sweepers)

\* An interval from 1 has as many elements as its upper bound says.
LEMMA CountUpTo ==
  ASSUME NEW n \in Nat
  PROVE  IsFiniteSet(1 .. n) /\ Cardinality(1 .. n) = n
<1>1. 1 \in Int /\ n \in Int
  OBVIOUS
<1>2. IsFiniteSet(1 .. n) /\ Cardinality(1 .. n) = IF 1 > n THEN 0 ELSE n - 1 + 1
  BY <1>1, FS_Interval
<1> QED BY <1>2

\* There are finitely many credits, less than a period for each shard.
LEMMA CreditsBound ==
  ASSUME NEW C \in SUBSET (Shards \X (1 .. CleanupPeriod - 1))
  PROVE  /\ IsFiniteSet(C)
         /\ Cardinality(C) \in Nat
         /\ Cardinality(C) <= ShardCount * (CleanupPeriod - 1)
<1> DEFINE Steps == 1 .. CleanupPeriod - 1
<1>1. IsFiniteSet(Shards) /\ Cardinality(Shards) = ShardCount
  BY StickyAssumption, CountUpTo DEF Shards
<1>2. IsFiniteSet(Steps) /\ Cardinality(Steps) = CleanupPeriod - 1
  <2>1. CleanupPeriod - 1 \in Nat
    BY StickyAssumption
  <2> QED BY <2>1, CountUpTo
<1> HIDE DEF Steps
<1>3. /\ IsFiniteSet(Shards \X Steps)
      /\ Cardinality(Shards \X Steps) = ShardCount * (CleanupPeriod - 1)
  BY <1>1, <1>2, FS_Product
<1>4. C \in SUBSET (Shards \X Steps)
  BY DEF Steps
<1> QED BY <1>3, <1>4, FS_Subset, FS_CardinalityType

\* It holds of the credits before and after a step.
LEMMA CreditsFinite ==
  /\ IsFiniteSet(Credits) /\ Cardinality(Credits) \in Nat
  /\ Cardinality(Credits) <= ShardCount * (CleanupPeriod - 1)
  /\ IsFiniteSet(Credits') /\ Cardinality(Credits') \in Nat
<1>1. /\ Credits \in SUBSET (Shards \X (1 .. CleanupPeriod - 1))
      /\ Credits' \in SUBSET (Shards \X (1 .. CleanupPeriod - 1))
  BY DEF Credits
<1> QED BY <1>1, CreditsBound

\* Counting an operation that makes no sweep due earns the shard a credit.
LEMMA CreditEarned ==
  ASSUME StickyTypeOK, NEW s \in Shards, CountOperation(s), ~should_cleanup(s)
  PROVE  Cardinality(Credits)' = Cardinality(Credits) + 1
<1> USE StickyAssumption
<1>1. op_counter[s] \in 1 .. CleanupPeriod - 1
  BY DEF StickyTypeOK, should_cleanup
<1>2. /\ op_counter'[s] = (op_counter[s] + 1) % CleanupPeriod
      /\ \A t \in Shards \ {s} : op_counter'[t] = op_counter[t]
  BY DEF CountOperation, StickyTypeOK
<1>3. SinceDue(s)' = SinceDue(s) + 1 /\ SinceDue(s) \in 0 .. CleanupPeriod - 2
  <2> DEFINE n == op_counter[s]
  <2>1. n + 1 < CleanupPeriod => (n + 1) % CleanupPeriod = n + 1
    BY <1>1
  <2>2. n + 1 = CleanupPeriod => (n + 1) % CleanupPeriod = 0
    BY <1>1
  <2>3. n + 1 < CleanupPeriod \/ n + 1 = CleanupPeriod
    BY <1>1
  <2> QED BY <1>1, <1>2, <2>1, <2>2, <2>3 DEF SinceDue
<1>4. \A t \in Shards \ {s} : SinceDue(t)' = SinceDue(t)
  BY <1>2 DEF SinceDue
<1> DEFINE c == <<s, SinceDue(s) + 1>>
<1>5. c \in Shards \X (1 .. CleanupPeriod - 1) /\ c \notin Credits
  BY <1>3 DEF Credits
<1>6. Credits' = Credits \cup {c}
  <2>1. ASSUME NEW d \in Shards \X (1 .. CleanupPeriod - 1)
        PROVE  d \in Credits' <=> d \in Credits \/ d = c
    <3>1. CASE d[1] = s
      <4>1. d[2] <= SinceDue(s) + 1 <=> d[2] <= SinceDue(s) \/ d[2] = SinceDue(s) + 1
        BY <1>3
      <4>2. d = <<d[1], d[2]>>
        OBVIOUS
      <4> QED BY <1>3, <3>1, <4>1, <4>2 DEF Credits
    <3>2. CASE d[1] # s
      BY <1>4, <3>2 DEF Credits
    <3> QED BY <3>1, <3>2
  <2> QED BY <1>5, <2>1 DEF Credits
<1> HIDE DEF c
<1> QED BY <1>5, <1>6, CreditsFinite, FS_AddElement

\* Counting an operation that makes a sweep due costs the shard its credits,
\* less than a period of them.
LEMMA CreditsSpent ==
  ASSUME StickyTypeOK, NEW s \in Shards, CountOperation(s)
  PROVE  Cardinality(Credits) <= Cardinality(Credits)' + CleanupPeriod - 1
<1> USE StickyAssumption
<1> DEFINE spent == {s} \X (1 .. CleanupPeriod - 1)
<1>1. IsFiniteSet(spent) /\ Cardinality(spent) = CleanupPeriod - 1
  <2> DEFINE Steps == 1 .. CleanupPeriod - 1
  <2>1. IsFiniteSet(Steps) /\ Cardinality(Steps) = CleanupPeriod - 1
    <3>1. CleanupPeriod - 1 \in Nat
      OBVIOUS
    <3> QED BY <3>1, CountUpTo
  <2>2. IsFiniteSet({s}) /\ Cardinality({s}) = 1
    BY FS_Singleton
  <2> HIDE DEF Steps
  <2>3. IsFiniteSet({s} \X Steps) /\ Cardinality({s} \X Steps) = 1 * Cardinality(Steps)
    BY <2>1, <2>2, FS_Product
  <2> QED BY <2>1, <2>3 DEF Steps
<1>2. \A t \in Shards \ {s} : SinceDue(t)' = SinceDue(t)
  BY DEF CountOperation, StickyTypeOK, SinceDue
<1>3. Credits \subseteq Credits' \cup spent
  <2> SUFFICES ASSUME NEW d \in Credits, d \notin spent PROVE d \in Credits'
    OBVIOUS
  <2>1. d \in Shards \X (1 .. CleanupPeriod - 1) /\ d = <<d[1], d[2]>> /\ d[2] <= SinceDue(d[1])
    BY DEF Credits
  <2>2. d[1] # s
    BY <2>1
  <2> QED BY <1>2, <2>1, <2>2 DEF Credits
<1> HIDE DEF spent
<1>4. /\ IsFiniteSet(Credits' \cup spent)
      /\ Cardinality(Credits' \cup spent)
           = Cardinality(Credits') + Cardinality(spent) - Cardinality(Credits' \cap spent)
  BY <1>1, CreditsFinite, FS_Union
<1>5. IsFiniteSet(Credits' \cap spent)
  BY <1>1, FS_Intersection
<1>6. Cardinality(Credits' \cap spent) \in Nat
  BY <1>5, FS_CardinalityType
<1>7. Cardinality(Credits) <= Cardinality(Credits' \cup spent)
  BY <1>3, <1>4, FS_Subset
<1> QED BY <1>1, <1>4, <1>6, <1>7, CreditsFinite

\* A step that binds no key and neither counts an operation nor moves a
\* request into or out of a sweep keeps the bound.
LEMMA CapacityFrame ==
  ASSUME CapacityInv, Bound' \subseteq Bound, op_counter' = op_counter,
         \A q \in Requests : Sweeping(q)' <=> Sweeping(q)
  PROVE  CapacityInv'
<1>1. Sweepers' = Sweepers
  BY DEF Sweepers
<1>2. Credits' = Credits
  BY DEF Credits, SinceDue
<1>3. /\ IsFiniteSet(Bound') /\ Cardinality(Bound') <= Cardinality(Bound)
      /\ Cardinality(Bound') \in Nat /\ Cardinality(Bound) \in Nat
  BY FS_Subset, FS_CardinalityType DEF CapacityInv
<1>4. Cardinality(Sweepers) \in Nat
  BY FS_CardinalityType DEF CapacityInv
<1> DEFINE c == CleanupPeriod * Cardinality(Sweepers)
<1>5. c \in Nat
  BY <1>4, StickyAssumption
<1>6. Cardinality(Bound) <= max_entries + Cardinality(Credits) + c
  BY DEF CapacityInv
<1> HIDE DEF c
<1>7. Cardinality(Bound') <= max_entries + Cardinality(Credits) + c
  BY <1>3, <1>5, <1>6, CreditsFinite, StickyAssumption
<1> QED BY <1>1, <1>2, <1>3, <1>7 DEF CapacityInv, c

\* An operation that is counted binds at most its own key, and goes to sweep
\* exactly when its count makes a sweep due: the bound grows with the store.
LEMMA CountedOperation ==
  ASSUME CapacityInv, StickyTypeOK, NEW r \in Requests, NEW k \in AffinityKeys,
         CountOperation(ShardOf[k]), Bound' \subseteq Bound \cup {k}, ~Sweeping(r),
         should_cleanup(ShardOf[k]) <=> Sweeping(r)',
         \A q \in Requests \ {r} : Sweeping(q)' <=> Sweeping(q)
  PROVE  CapacityInv'
<1> USE StickyAssumption
<1>1. /\ IsFiniteSet(Bound \cup {k}) /\ Cardinality(Bound) \in Nat
      /\ Cardinality(Bound \cup {k}) <= Cardinality(Bound) + 1
      /\ Cardinality(Bound \cup {k}) \in Nat
  <2>1. IsFiniteSet(Bound)
    BY DEF CapacityInv
  <2>2. Cardinality(Bound) \in Nat
    BY <2>1, FS_CardinalityType
  <2> QED BY <2>1, <2>2, FS_AddElement
<1>2. /\ IsFiniteSet(Bound') /\ Cardinality(Bound') \in Nat
      /\ Cardinality(Bound') <= Cardinality(Bound) + 1
  <2>1. IsFiniteSet(Bound') /\ Cardinality(Bound') <= Cardinality(Bound \cup {k})
    BY <1>1, FS_Subset
  <2>2. Cardinality(Bound') \in Nat
    BY <2>1, FS_CardinalityType
  <2> QED BY <1>1, <2>1, <2>2
<1>3. IsFiniteSet(Sweepers) /\ Cardinality(Sweepers) \in Nat
  BY FS_CardinalityType DEF CapacityInv
<1> DEFINE c == CleanupPeriod * Cardinality(Sweepers)
<1>4. c \in Nat
  BY <1>3
<1>5. Cardinality(Bound) <= max_entries + Cardinality(Credits) + c
  BY DEF CapacityInv
<1>6. ShardOf[k] \in Shards
  OBVIOUS
<1>7. CASE should_cleanup(ShardOf[k])
  <2>1. Sweepers' = Sweepers \cup {r} /\ r \notin Sweepers
    BY <1>7 DEF Sweepers
  <2>2. IsFiniteSet(Sweepers') /\ Cardinality(Sweepers') = Cardinality(Sweepers) + 1
    BY <1>3, <2>1, FS_AddElement
  <2>3. CleanupPeriod * Cardinality(Sweepers') = c + CleanupPeriod
    BY <1>3, <2>2
  <2>4. Cardinality(Credits) <= Cardinality(Credits') + CleanupPeriod - 1
    BY <1>6, CreditsSpent
  <2> HIDE DEF c
  <2>5. Cardinality(Bound') <= max_entries + Cardinality(Credits') + (c + CleanupPeriod)
    BY <1>1, <1>2, <1>4, <1>5, <2>4, CreditsFinite
  <2> QED BY <1>2, <2>2, <2>3, <2>5 DEF CapacityInv
<1>8. CASE ~should_cleanup(ShardOf[k])
  <2>1. Sweepers' = Sweepers
    BY <1>8 DEF Sweepers
  <2>2. Cardinality(Credits') = Cardinality(Credits) + 1
    BY <1>6, <1>8, CreditEarned
  <2> HIDE DEF c
  <2>3. Cardinality(Bound') <= max_entries + Cardinality(Credits') + c
    BY <1>1, <1>2, <1>4, <1>5, <2>2, CreditsFinite
  <2> QED BY <1>2, <1>3, <2>1, <2>3 DEF CapacityInv, c
<1> QED BY <1>7, <1>8

\* After a sweep the store is down to max_entries, whoever else is sweeping.
LEMMA SweepCapacity ==
  ASSUME CapacityInv, StickyTypeOK, NEW r \in Requests, Sweep(r)
  PROVE  CapacityInv'
<1> USE StickyAssumption
<1>1. PICK kept \in Survivors(op[r].now) :
        entries' = [k \in AffinityKeys |-> IF k \in kept THEN entries[k] ELSE None]
  BY DEF Sweep
<1>2. kept \subseteq Bound /\ Cardinality(kept) <= max_entries
  BY DEF Survivors
<1>3. IsFiniteSet(kept) /\ Cardinality(kept) \in Nat
  BY <1>2, FS_Subset, FS_CardinalityType DEF CapacityInv
<1>4. Bound' \subseteq kept
  BY <1>1 DEF Bound
<1>5. IsFiniteSet(Bound') /\ Cardinality(Bound') \in Nat /\ Cardinality(Bound') <= Cardinality(kept)
  BY <1>3, <1>4, FS_Subset, FS_CardinalityType
<1>6. Sweepers' \subseteq Sweepers
  BY DEF Sweep, Proceed, Sweepers, Sweeping, StickyTypeOK
<1>7. IsFiniteSet(Sweepers') /\ Cardinality(Sweepers') \in Nat
  BY <1>6, FS_Subset, FS_CardinalityType DEF CapacityInv
<1>8. CleanupPeriod * Cardinality(Sweepers') \in Nat
  BY <1>7
<1>9. Cardinality(Bound') <=
        max_entries + Cardinality(Credits') + CleanupPeriod * Cardinality(Sweepers')
  BY <1>2, <1>3, <1>5, <1>8, CreditsFinite
<1> QED BY <1>5, <1>7, <1>9 DEF CapacityInv

\* Every operation of the store keeps the bound.
LEMMA CapacityStep ==
  ASSUME StickyInv, CapacityInv, [StickyNext]_stickyVars
  PROVE  CapacityInv'
<1> USE DEF StickyInv
<1>1. ASSUME NEW r \in Requests, NEW k \in AffinityKeys, LookupBegins(r, k)
      PROVE  CapacityInv'
  <2>1. CountOperation(ShardOf[k]) /\ entries' = entries
    BY <1>1 DEF LookupBegins
  <2>2. ~Sweeping(r) /\ (should_cleanup(ShardOf[k]) <=> Sweeping(r)')
    BY <1>1 DEF LookupBegins, Sweeping, StickyTypeOK
  <2>3. \A q \in Requests \ {r} : Sweeping(q)' <=> Sweeping(q)
    BY <1>1 DEF LookupBegins, Sweeping, StickyTypeOK
  <2> QED BY <2>1, <2>2, <2>3, CountedOperation DEF Bound
<1>2. ASSUME NEW r \in Requests, NEW k \in AffinityKeys, BindBegins(r, k)
      PROVE  CapacityInv'
  <2>1. \A q \in Requests : Sweeping(q)' <=> Sweeping(q)
    BY <1>2 DEF BindBegins, Sweeping, StickyTypeOK
  <2> QED BY <1>2, <2>1, CapacityFrame DEF BindBegins, Bound
<1>3. ASSUME NEW r \in Requests, NEW k \in AffinityKeys, remove(r, k)
      PROVE  CapacityInv'
  <2>1. Bound' \subseteq Bound
    BY <1>3 DEF remove, Bound, StickyTypeOK
  <2> QED BY <1>3, <2>1, CapacityFrame DEF remove, Sweeping
<1>4. ASSUME NEW r \in Requests, NEW allowed_backends, LookupEnds(r, allowed_backends)
      PROVE  CapacityInv'
  <2>1. Bound' \subseteq Bound
    BY <1>4 DEF LookupEnds, Mapped, Bound, StickyTypeOK
  <2>2. \A q \in Requests : Sweeping(q)' <=> Sweeping(q)
    BY <1>4 DEF LookupEnds, Proceed, Sweeping, StickyTypeOK
  <2> QED BY <1>4, <2>1, <2>2, CapacityFrame DEF LookupEnds
<1>5. ASSUME NEW r \in Requests, NEW backend \in Backends, BindEnds(r, backend)
      PROVE  CapacityInv'
  <2> DEFINE k == op[r].key
  <2>1. k \in AffinityKeys
    BY <1>5 DEF BindEnds, StickyTypeOK, Operation
  <2>2. CountOperation(ShardOf[k])
    BY <1>5 DEF BindEnds
  <2>3. Bound' \subseteq Bound \cup {k}
    BY <1>5 DEF BindEnds, Bound, StickyTypeOK
  <2>4. ~Sweeping(r) /\ (should_cleanup(ShardOf[k]) <=> Sweeping(r)')
    BY <1>5 DEF BindEnds, Proceed, Sweeping, StickyTypeOK
  <2>5. \A q \in Requests \ {r} : Sweeping(q)' <=> Sweeping(q)
    BY <1>5 DEF BindEnds, Proceed, Sweeping, StickyTypeOK
  <2> HIDE DEF k
  <2> QED BY <2>1, <2>2, <2>3, <2>4, <2>5, CountedOperation
<1>6. ASSUME NEW r \in Requests, SweepLocks(r)
      PROVE  CapacityInv'
  BY <1>6, CapacityFrame DEF SweepLocks, Bound, Sweeping
<1>7. ASSUME NEW r \in Requests, Sweep(r)
      PROVE  CapacityInv'
  BY <1>7, SweepCapacity
<1>8. CASE Tick
  BY <1>8, CapacityFrame DEF Tick, Bound, Sweeping
<1>9. CASE UNCHANGED stickyVars
  BY <1>9, CapacityFrame DEF stickyVars, Bound, Sweeping
<1> QED BY <1>1, <1>2, <1>3, <1>4, <1>5, <1>6, <1>7, <1>8, <1>9 DEF StickyNext

\* The store never outgrows max_entries by more than what each shard may add
\* between two sweeps and the sweeps that are still to run, for any number
\* of shards, keys and requests.
THEOREM StoreStaysNearCapacity == StickySpec => []CapacityBound
<1>1. StickyInit => CapacityInv
  <2> SUFFICES ASSUME StickyInit PROVE CapacityInv
    OBVIOUS
  <2>1. Bound = {} /\ Sweepers = {}
    BY DEF StickyInit, Bound, Sweepers, Sweeping
  <2>2. IsFiniteSet({}) /\ Cardinality({}) = 0
    BY FS_EmptySet
  <2> QED BY <2>1, <2>2, CreditsFinite, StickyAssumption DEF CapacityInv
<1>2. CapacityInv => CapacityBound
  <2> SUFFICES ASSUME CapacityInv PROVE CapacityBound
    OBVIOUS
  <2>1. Cardinality(Bound) \in Nat /\ Cardinality(Sweepers) \in Nat
    BY FS_CardinalityType DEF CapacityInv
  <2> DEFINE c == CleanupPeriod * Cardinality(Sweepers)
             d == ShardCount * (CleanupPeriod - 1)
  <2>2. c \in Nat /\ d \in Nat
    BY <2>1, StickyAssumption
  <2>3. Cardinality(Bound) <= max_entries + Cardinality(Credits) + c /\ Cardinality(Credits) <= d
    BY CreditsFinite DEF CapacityInv
  <2> HIDE DEF c, d
  <2>4. Cardinality(Bound) <= max_entries + d + c
    BY <2>1, <2>2, <2>3, CreditsFinite, StickyAssumption
  <2> QED BY <2>4 DEF CapacityBound, Sweepers, c, d
<1>3. StickyInv /\ CapacityInv /\ [StickyNext]_stickyVars => CapacityInv'
  BY CapacityStep
<1> QED BY <1>1, <1>2, <1>3, StickyInvariant, PTL DEF StickySpec

=============================================================================
