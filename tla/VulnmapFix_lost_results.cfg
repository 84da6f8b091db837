SPECIFICATION Spec
CONSTANTS
  Projects = {p1, p2}
  Concurrency = 2
  Faults = {}
SYMMETRY Symmetry
INVARIANT NothingFixedInTheEnd
CHECK_DEADLOCK FALSE
