SPECIFICATION FairSpec
CONSTANTS
  Native = {n}
  Shared = {s}
  Calls = {c1, c2}
  FencesFor <- Sets
  NullModes <- AnyOrSingle
  MaxSignals = 1
  MayFail = TRUE
  n = n
  s = s
  c1 = c1
  c2 = c2
INVARIANTS
  PayloadCountsReferences
  PayloadFreedOnce
  EventIsRight
PROPERTIES
  EveryoneGetsThrough
CHECK_DEADLOCK FALSE
