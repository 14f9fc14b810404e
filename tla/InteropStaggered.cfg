\* A submission is staggered while the VkQueue is used externally.
CONSTANTS
  u1 = u1
  u2 = u2
  Worker = Worker
  None = None
  Users = {u1}
  MayStagger = {TRUE, FALSE}
  MaxExecutes = 2
  MaxAcquires = 1
SPECIFICATION Spec
INVARIANT
  SignalCoversExternalWork
CHECK_DEADLOCK FALSE
