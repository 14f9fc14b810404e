\* Memory with the chunk's clear_semaphore_value is used after the chunk's clear was taken back.
SPECIFICATION Spec
CONSTANTS
  Subs = {s1, s2}
  SizeOf <- MCSizeOf
  AlignmentOf <- MCAlignmentOf
  Chunk = chunk
  ChunkSize = 4
  Dedicated = {d1}
  Textures = {t1}
  Queues = {q1}
  Kinds = {TRUE, FALSE}
  Buffers = 1
  MaxPending = 2
  MaxAllocs = 2
  MaxWrites = 1
  MaxWorks = 1
  MaxFails = 1
  s1 = s1
  s2 = s2
  chunk = chunk
  d1 = d1
  t1 = t1
  q1 = q1
CHECK_DEADLOCK FALSE
INVARIANT
  NothingInUseIsIdle
