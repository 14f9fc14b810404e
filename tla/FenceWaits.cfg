SPECIFICATION Spec
CONSTANTS
  q1 = q1
  q2 = q2
  w1 = w1
  UINT64_MAX = 2
  VkQueues = {q1, q2}
  QueueOf <- MCQueueOf
  Waits = {w1, w2}
  Handles = {}
  NullThreads = {}
  MaxUpdates = 3
INVARIANTS
  PendingListIsRight
  TicketIffUnsatisfied
  SatisfiedWasReached
  SatisfyingUpdateExists
  NoLostWakeup
  UpdateHasSignaller
CHECK_DEADLOCK FALSE
