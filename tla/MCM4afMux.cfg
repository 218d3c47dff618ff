SPECIFICATION Spec
CONSTANTS
  SampleSizes = {0, 1, 13}
  MaxSamples = 5
  FrameDuration = 2
  Timescale = 9
  MoovBase = 3
  Reserve = 4
  BlockSize = 20
  Limit = 38
INVARIANTS
  ChunksTile
  RelocationLosesNothing
  BoxesFillFile
  FaultsReported
PROPERTIES
  StoresSamples
