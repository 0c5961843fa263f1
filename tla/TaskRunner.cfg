\* Two threads race; one task waits for the two others.
SPECIFICATION FairSpec
CONSTANTS
  Threads = {t1, t2}
  None = None
  Tasks = {k1, k2, k3}
  Joining = {k1}
INVARIANTS
  NeverRefused
PROPERTIES
  LosersEnd EventuallyOver ImplementsQueue
CHECK_DEADLOCK FALSE
