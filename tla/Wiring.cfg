\* Four fields in any order: managers and repositories on both sides of each other.
SPECIFICATION Spec
CONSTANTS
  Insts = {t1, t2}
  MaxParts = 4
INVARIANTS
  SharedAreManagers StrayOnlyBeforeManager
CHECK_DEADLOCK FALSE
