\* Two requests at a time, three parts.
SPECIFICATION Spec
CONSTANTS
  Requests = {r1, r2}
  N = 3
  Gone = Gone
SYMMETRY Symmetry
INVARIANTS
  EntityWhole
PROPERTIES
  AllOrNothing ToldIsDone CutBeforeMissing ImplementsWhole
