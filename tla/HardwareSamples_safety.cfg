SPECIFICATION SpecSamples
CONSTANTS
  Formats = {HD}
  MaxFrames = 4
  MaxB = 1
  MaxDamage = 0
  MaxRestarts = 1
  Decoders = {"D3D11", "DXVA2"}
  cBuffers = 8
  MaxKept = 2
  MaxFailures = 1
  Skips = {FALSE, TRUE}
CONSTRAINT Bounds
ACTION_CONSTRAINT ReturnsLate
INVARIANTS
  SamplesOwnedOnce
  NeverWaits
  ReferencesKept
CHECK_DEADLOCK FALSE
