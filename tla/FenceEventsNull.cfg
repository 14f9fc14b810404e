SPECIFICATION FairSpec
CONSTANTS
  Native = {n}
  Shared = {s}
  Calls = {c1, c2}
  FencesFor <- Sets
  NullModes <- OnlyAll
  MaxSignals = 1
  MayFail = FALSE
  n = n
  s = s
  c1 = c1
  c2 = c2
CHECK_DEADLOCK FALSE
PROPERTIES
  NullCallReturns
