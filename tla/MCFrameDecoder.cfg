\* Every way of cutting up to three frames, and one message per frame.
SPECIFICATION Spec
CONSTANTS
  Streams <- MCStreams
  MaxFrames = 3
  Lengths = {0, 1, 4, 5}
  MaxFrameSize = 4
  CompactAt = 2
INVARIANTS BufferExact Retention
PROPERTIES ImplementsFrameStream LegalNeverRefused
CHECK_DEADLOCK FALSE
