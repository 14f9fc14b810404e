SPECIFICATION Spec
CONSTANTS
  Ring = 3
  Latency = 3
  LowModes <- Always
  MaxPresents = 4
  MaxResizes = 0
  MaxTroubles = 0
  MaxEvents = 4
  MaxRetries = 1
CHECK_DEADLOCK FALSE
INVARIANTS
  RequestIsItsOwn
