SPECIFICATION Spec
CONSTANTS
  MaxFrames = 5
  OutFrames = 2
  ChunkSizes <- Sizes
  TotalFrames = 10
INVARIANTS
  CountExact
  BlockUnbroken
PROPERTIES
  Drained
CHECK_DEADLOCK FALSE
