SPECIFICATION SpecSamples
CONSTANTS
  Formats = {HD}
  MaxFrames = 4
  MaxB = 1
  MaxDamage = 0
  MaxRestarts = 0
  Decoders = {"D3D11"}
  cBuffers = 8
  MaxKept = 2
  MaxFailures = 0
  Skips = {FALSE}
INVARIANTS
  NotOwnReference
CHECK_DEADLOCK FALSE
