\* Both copies of the queue: the client's over one session, the server's over
\* two with callbacks of the old one.
SPECIFICATION FairSpec
CONSTANTS
  p1 = p1
  p2 = p2
  Producers = {p1, p2}
  NumSessions = 2
  Lengths = {1, 2}
  MaxFrames = 4
  MaxQueueBytes = 3
  HighWaterMark = 1
  LowWaterMark = 0
  CompactAt = 2
INVARIANTS Accounting InSequence NoLostWakeup
PROPERTIES EveryProducerResumes EveryChunkLeaves
CHECK_DEADLOCK FALSE
