\* Two sessions and two rows; a business id that no_update excludes, and an optional
\* Copy field in the group.
SPECIFICATION Spec
CONSTANTS
  Sessions = {s1, s2}
  Ids = {i1, i2}
  Fields = {name, size}
  Group = {size}
  BizIds = {name}
  NoUpdate = {name}
  CopyFields = {size}
  Optional = {size}
  Subsets = {{name}, {size}}
  Values = {v1, v2}
  Null = Null
  Absent = Absent
SYMMETRY Symmetry
INVARIANTS
  HoldsWhatItWasGiven
PROPERTIES
  UpdateExact SaveExact
