SPECIFICATION Spec
CONSTANTS
  left = left
  right = right
  Channels <- StereoChannels
  Frames <- StereoFrames
  One = 2
  Block = 2
  MaxFrames = 5
INVARIANTS
  SamplesInOrder
  BoundedWithinWaves
  OneCurvePerWave
PROPERTIES
  KeepsReaderContract
  EventuallyExhausted
