SPECIFICATION Spec
CONSTANTS
  MAX_QUEUE_FRAMES = 4
  MaxFrames = 7
INVARIANTS
  NoneForgotten
  DelayedInOrder
  FlushedEmpty
PROPERTIES
  FlushDrains
