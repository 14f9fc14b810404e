\* Five sessions of one process, the device torn down or the process killed at any point.
SPECIFICATION Spec
CONSTANTS
  x = x
  y = y
  c = c
  p1 = p1
  p2 = p2
  None = None
  Processes = {p1}
  Pipelines = {x, y}
  Code = {c}
  CodeOf <- MCCodeOf
  MaxSessions = 5
  MaxCrashes = 1
  MaxBuilds = 2
INVARIANTS
  PromisesAreKept
  LibraryIsWhole
SYMMETRY MCSymmetry
CHECK_DEADLOCK FALSE
