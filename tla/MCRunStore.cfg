CONSTANTS
  Threads = {t1, t2}
  Principals = {alice, bob}
  RunIds = {r1, r2, r3}
  MaxEntries = 2
  Ttl = 1
  MaxTime = 1
  None = None
SPECIFICATION FairSpec
INVARIANTS
  OrderMatchesItems
  Bounded
  ServesOwnLiveRuns
PROPERTIES
  BurstIsolation
  ImplementsRegistry
  LockReleased
