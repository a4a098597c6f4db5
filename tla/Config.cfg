CONSTANTS
  Methods = {"GET"}
  Star = Star
  NoPolicy = NoPolicy
  Unreadable = Unreadable
  Invalid = Invalid
  Domains <- TwoDomains
  Paths <- ThreePaths
  Spellings = {1, 2}
  MaxKeys = 3
SPECIFICATION Spec
CHECK_DEADLOCK FALSE
INVARIANTS
  OrderImmaterial
  GateCoversFilters
  FallsBackNoFurther
