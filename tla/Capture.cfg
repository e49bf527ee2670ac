SPECIFICATION FairSpec
CONSTANTS
  Streams <- AllStreams
  StopCall = {c1, c2}
  Chunk = {1, 11}
CHECK_DEADLOCK FALSE
INVARIANTS FramesInOrder ErrorOnce
PROPERTIES StoppedQuietly StopEnds EndReported
