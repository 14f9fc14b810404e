\* Two command queues on one VkQueue, a third one on another; the chain only
\* uses queues on VkQueues of their own.
CONSTANTS
  A = A
  B = B
  C = C
  vq1 = vq1
  vq2 = vq2
  F = F
  G = G
  H = H
  Queues = {A, B, C}
  VkQueues = {vq1, vq2}
  VkQueueOf <- TwoShareOne
  Fences = {F, G, H}
  UINT64_MAX = 3
  Programs <- OrderPrograms
SPECIFICATION Spec
INVARIANTS
  WaitOrdersWork
  SignalledWorkIsDone
  FencesKeepOrder
  NoWaitBeforeSignal
  AllocatorsHeldUntilDone
CHECK_DEADLOCK FALSE
