SPECIFICATION Spec
CONSTANTS
  Formats = {HD}
  MaxFrames = 4
  MaxB = 2
  MaxDamage = 2
  MaxRestarts = 1
CONSTRAINT Bounded
INVARIANTS
  TypeOK
  FramesInOrder
  PredictedFromReferences
  TimeFitsRecord
  TargetNoReference
PROPERTIES
  EndDrains
CHECK_DEADLOCK FALSE
