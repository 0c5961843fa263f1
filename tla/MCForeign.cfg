\* Three ids: an edited one, one that makes the field changed, and a bystander.
SPECIFICATION Spec
CONSTANTS
  Ids = {i1, i2, i3}
  Documents <- MCDocuments
SYMMETRY Symmetry
INVARIANTS
  AddRemoveDisjoint CurrentAsIntended SavedAsIntended SavedAsShown
