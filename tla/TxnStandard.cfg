\* One transaction per request, its body propagates errors: the standard wiring, with a
\* callback that holds a clone.
SPECIFICATION FairSpec
CONSTANTS
  Callbacks = {c1, c2}
  Owning = {c1}
  MaxDepth = 1
  MaxTxns = 1
  MaxHandles = 2
  MaySwallow = FALSE
PROPERTIES
  ImplementsContract EventuallyTold EventuallyReleased
CHECK_DEADLOCK FALSE
