SPECIFICATION FairSpec
CONSTANTS
  Ring = 2
  Latency = 2
  LowModes <- Either
  MaxPresents = 4
  MaxResizes = 1
  MaxTroubles = 1
  MaxEvents = 5
  MaxRetries = 1
INVARIANTS
  FramesAreInStep
  VulkanObjectsAreReady
PROPERTIES
  ReplacedWhenIdle
  EveryoneGetsThrough
CHECK_DEADLOCK FALSE
