CONSTANTS
  Sites = {siteA, siteB}
  MaxGeneration = 3
  MaxPolicy = 2
  None = None
SYMMETRY SiteSymmetry
SPECIFICATION MCSpec
INVARIANTS PointerResolves FenceOnlyOverDeleted ClearedStaysCleared OwnerIsNotLockedOut
PROPERTIES RouterSpec SoleOwnerSpec
CHECK_DEADLOCK FALSE
