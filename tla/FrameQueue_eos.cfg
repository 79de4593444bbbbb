SPECIFICATION FairSpec
CONSTANTS
  MAX_QUEUE_FRAMES = 4
  MaxFrames = 3
PROPERTIES
  EndOfStreamReturns
