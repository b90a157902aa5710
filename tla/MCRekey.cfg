SPECIFICATION Spec
CONSTANTS
  Host = {"controller", "compute"}
  MaxKey = 3
INVARIANTS
  TypeOK
  NoLockoutByOneRotation
  EveryUserKept
PROPERTIES
  KeyInUseStays
