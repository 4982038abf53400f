CONSTANTS
  Ids = {1, 2, 3}
  Domains = {lawA, lawB}
  Ranks = {1, 2}
  StatusesInUse = {"active", "superseded"}
  MaxRefs = 1
  MaxCandidates = 3
SPECIFICATION Spec
SYMMETRY Symmetry
CHECK_DEADLOCK FALSE
INVARIANTS
  OnlyGovernedBlocks
  RetiredByAStandingClaim
PROPERTIES
  WeakerIsInert
