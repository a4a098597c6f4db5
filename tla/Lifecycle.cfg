CONSTANTS
  l1 = l1
  l2 = l2
  l3 = l3
  None = None
  Launches <- ThreeLaunches
  Retention = 1
  MaxRank = 3
  Platform = "linux"
  Faults = {}
SPECIFICATION Spec
SYMMETRY LaunchSymmetry
CHECK_DEADLOCK FALSE
INVARIANTS
  NewestKept
  SandboxedUnlessExposed
  NoOrphanUnlessExposed
  ScratchRemovedUnlessExposed
