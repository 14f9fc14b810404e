\* Two command queues on one VkQueue, a third one on another, in five programs.
CONSTANTS
  A = A
  B = B
  C = C
  vq1 = vq1
  vq2 = vq2
  F = F
  G = G
  H = H
  Queues = {A, B, C}
  VkQueues = {vq1, vq2}
  VkQueueOf <- TwoShareOne
  Fences = {F, G, H}
  UINT64_MAX = 3
  Programs <- QueuePrograms
SPECIFICATION FairSpec
INVARIANTS
  RefcountMatchesHolders
  WaitOrdersWork
  SignalledWorkIsDone
  FencesKeepOrder
  NoWaitBeforeSignal
  AllocatorsHeldUntilDone
PROPERTIES
  QueuesDrain
  ReleaseReturns
CHECK_DEADLOCK FALSE
