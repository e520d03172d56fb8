\* A callback of the old session lowers the byte count of the new one.
SPECIFICATION Spec
CONSTANTS
  p1 = p1
  Producers = {p1}
  NumSessions = 2
  Lengths = {1, 2}
  MaxFrames = 4
  MaxQueueBytes = 3
  HighWaterMark = 1
  LowWaterMark = 0
  CompactAt = 2
INVARIANTS QueueBounded
CHECK_DEADLOCK FALSE
