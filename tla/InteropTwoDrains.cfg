\* Two threads drain the queue at the same time.
CONSTANTS
  u1 = u1
  u2 = u2
  Worker = Worker
  None = None
  Users = {u1, u2}
  MayStagger = {FALSE}
  MaxExecutes = 0
  MaxAcquires = 1
SPECIFICATION FairSpec
PROPERTY
  AcquireReturns
CHECK_DEADLOCK FALSE
