\* One process that is killed once, at any point.
SPECIFICATION Spec
CONSTANTS
  x = x
  y = y
  c = c
  p1 = p1
  p2 = p2
  None = None
  Processes = {p1}
  Pipelines = {x, y}
  Code = {c}
  CodeOf <- MCCodeOf
  MaxSessions = 5
  MaxCrashes = 1
  MaxBuilds = 1
INVARIANTS
  ArchivesAreConsistent
SYMMETRY MCSymmetry
CHECK_DEADLOCK FALSE
