\* A send of the old session fails after the new one has taken over.
SPECIFICATION Spec
CONSTANTS
  p1 = p1
  Producers = {p1}
  NumSessions = 2
  Lengths = {1, 2}
  MaxFrames = 4
  MaxQueueBytes = 4
  HighWaterMark = 1
  LowWaterMark = 0
  CompactAt = 2
PROPERTIES StaleFailureHarmless
CHECK_DEADLOCK FALSE
