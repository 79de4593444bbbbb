\* Two threads, hence four buffers; a picture of five slices uses every
\* buffer at once and one of them twice.
SPECIFICATION FairSpec
CONSTANTS
  Workers = {w1, w2}
  Params = {1, 2, 3, 4}
  None = None
  MaxSlices = 5
ACTION_CONSTRAINT LowestFirst
INVARIANTS
  TypeOK
  BuffersPartitioned
  NoLostWakeUp
  NodesBounded
PROPERTIES
  CallReturns
  KeepsPromise
