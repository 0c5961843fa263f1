\* Two callers of init; three requests of two adapters, on two places: some may wait for
\* one another.
SPECIFICATION FairSpec
CONSTANTS
  Callers = {i1, i2}
  None = None
  Requests = {r1, r2, r3}
  Adapters = 2
  Places = {s1, s2}
INVARIANTS
  StuckByHolders
PROPERTIES
  OnePool EventuallyServed EventuallyClosed
CHECK_DEADLOCK FALSE
