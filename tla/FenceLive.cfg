\* One VkQueue: every satisfying update may then be the one a wait is resolved to.
SPECIFICATION FairSpec
CONSTANTS
  q1 = q1
  q2 = q2
  w1 = w1
  UINT64_MAX = 2
  VkQueues = {q1}
  QueueOf <- MCQueueOf
  Waits = {w1}
  Handles = {h1}
  NullThreads = {t1}
  MaxUpdates = 2
INVARIANTS
  PendingListIsRight
  TicketIffUnsatisfied
  SatisfiedWasReached
  SatisfyingUpdateExists
  NoLostWakeup
  UpdateHasSignaller
  EventsAreUnsatisfied
  OrderedWasReached
PROPERTIES
  ImplementsContract
  ReleaseUnblocksEveryone
  ScheduledWaitGetsThrough
CHECK_DEADLOCK FALSE
