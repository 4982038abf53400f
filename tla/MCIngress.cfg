CONSTANTS
  r1 = r1
  r2 = r2
  r3 = r3
  r4 = r4
  Requests = {r1, r2, r3, r4}
  Verifiers = {r1, r2, r3, r4}
  Limit = 2
  Worlds <- MCWorlds
  Local <- MCLocal
  MaxEntries = 1
  Ttl = 1
  None = None
SPECIFICATION FairSpec
CHECK_DEADLOCK FALSE
INVARIANTS
  QueueOK
  PermitsConserved
  NoLostWakeup
  RejectedForCause
  RefusedLeavesNoRun
  RunsAreAttributed
PROPERTIES
  EveryRequestSettles
