\* Two processes at the same time.
SPECIFICATION Spec
CONSTANTS
  x = x
  y = y
  c = c
  p1 = p1
  p2 = p2
  None = None
  Processes = {p1, p2}
  Pipelines = {x}
  Code = {c}
  CodeOf <- MCCodeOf
  MaxSessions = 4
  MaxCrashes = 1
  MaxBuilds = 1
INVARIANTS
  PromisesAreKept
  LibraryIsWhole
SYMMETRY MCSymmetry
CHECK_DEADLOCK FALSE
