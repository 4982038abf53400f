CONSTANTS
  Callers = {host}
  Kernels = {k1, k2}
  RULES_REL = RULES_REL
  PIPELINE_REL = PIPELINE_REL
  Contents = {old, new, bad}
  Malformed = {bad}
  Manifests <- MCManifests
  Items = {fact, memory}
  Eligible = {fact}
  Activate <- MCActivate
  MaxWrites = 2
  Unverified = Unverified
  None = None
  k1 = k1
  k2 = k2
  old = old
  new = new
SPECIFICATION FairSpec
INVARIANTS
  VerifiedFromOneManifest
  PlanBound
PROPERTIES
  ImplementsPackService
  NoSpuriousReplan
  HostsAreServed
