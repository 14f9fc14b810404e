\* Two command queues and the transfer queue on one VkQueue.
CONSTANTS
  A = A
  B = B
  None = None
  Queues = {A, B}
  MaxCalls <- SafeCalls
  MaxTotal = 3
  MayTimeOut = TRUE
SYMMETRY QueueSymmetry
SPECIFICATION Spec
INVARIANTS
  ResourceOutlivesWork
  ProxiesAreRight
  SleepersAreCovered
  TimelineIsFresh
CHECK_DEADLOCK FALSE
