SPECIFICATION Spec
CONSTANTS
  Width = 32
  Height = 32
  Pictures <- MCPictures
  Vectors <- MCVectors
  Selects <- MCSelects
  MaxMacroblocks = 3
CONSTRAINT Shorter
INVARIANTS
  PredictionsInside
  MacroblocksInPlace
  DecodedAsMeant
