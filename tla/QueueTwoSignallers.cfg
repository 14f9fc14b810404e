\* Two VkQueues signal one fence.
CONSTANTS
  A = A
  B = B
  C = C
  vq1 = vq1
  vq2 = vq2
  F = F
  G = G
  H = H
  Queues = {A, B}
  VkQueues = {vq1, vq2}
  VkQueueOf <- Separate
  Fences = {F}
  UINT64_MAX = 3
  Programs <- TwoSignallersPrograms
SPECIFICATION Spec
PROPERTY
  UpdatesTakenWhenReached
CHECK_DEADLOCK FALSE
