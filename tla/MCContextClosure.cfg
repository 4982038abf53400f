CONSTANTS
  None = None
  Inputs <- MCInputs
  Budgets <- SmallBudgets
  PerRequirementMaxItems = 2
  PerRequirementMaxBytes = 9
  MemoryMinItems = 1
  SnapshotMaxItems = 8
  SnapshotMaxBytes = 9
SPECIFICATION Spec
CHECK_DEADLOCK FALSE
INVARIANTS
  CompiledContextIsClosed
  DroppedItemIsNoticed
  HiddenUnknownIsNoticed
  NoSilentLoss
  MaterialityIsCarried
  NoUnprovenPermission
  KernelNeedsAreMet
