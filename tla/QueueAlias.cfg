\* A wait resolved by submission order, then signalled on to another VkQueue.
CONSTANTS
  A = A
  B = B
  C = C
  vq1 = vq1
  vq2 = vq2
  F = F
  G = G
  H = H
  Queues = {A, B, C}
  VkQueues = {vq1, vq2}
  VkQueueOf <- TwoShareOne
  Fences = {F, G}
  UINT64_MAX = 3
  Programs <- AliasPrograms
SPECIFICATION Spec
INVARIANT
  WaitOrdersWork
CHECK_DEADLOCK FALSE
