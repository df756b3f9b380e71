\* Crashes, failing Redis commands and releases by whoever calls release().
SPECIFICATION FairSpec
CONSTANTS
  Utxos = {u1, u2}
  Requests = {r1, r2}
  Nobody = nobody
  Ttl = 2
  MaxConcurrent = 1
  MaxPipe = 2
  Faults = {"crash", "lose"}
INVARIANTS
  ExclusiveGrant
  CapKept
  RedisFollowsMap
PROPERTIES
  NothingReservedForEver
