\* What the doc comment of current_value says.
SPECIFICATION Spec
CONSTANTS
  Ids = {i1, i2}
  Documents <- MCDocuments
INVARIANT CurrentIsCurrent
