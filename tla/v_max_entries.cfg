SPECIFICATION StickySpec
CONSTANTS
  None = None
  Requests = {r1, r2}
  k1 = k1
  k2 = k2
  k3 = k3
  k4 = k4
  k5 = k5
  k6 = k6
  AffinityKeys = {k1, k2, k3, k4, k5, k6}
  Backends = {b1}
  ShardCount = 2
  ShardOf <- MCShardOf
  Ttl = 1
  max_entries = 1
  CleanupPeriod = 2
  MaxTime = 1
SYMMETRY StickySymmetry
INVARIANTS MaxEntriesKept
