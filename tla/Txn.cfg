\* Nesting and reuse: two transactions of two levels, a callback that holds a clone.
SPECIFICATION Spec
CONSTANTS
  Callbacks = {c1, c2}
  Owning = {c1}
  MaxDepth = 2
  MaxTxns = 2
  MaxHandles = 2
  MaySwallow = TRUE
INVARIANTS
  OkIsDurable ErrIsUndone VerdictTruth DeliveredBeforeReturn StateMatchesLast LeftOnlyByCycle
PROPERTIES
  CommitOnlyCurrent ToldOnce
CHECK_DEADLOCK FALSE
