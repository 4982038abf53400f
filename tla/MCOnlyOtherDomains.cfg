CONSTANTS
  Ids = {1, 2}
  Domains = {lawA, lawB}
  Ranks = {0, 1}
  StatusesInUse = {"active"}
  MaxRefs = 1
  MaxCandidates = 3
SPECIFICATION Spec
CHECK_DEADLOCK FALSE
INVARIANTS
  OnlyOtherDomains
