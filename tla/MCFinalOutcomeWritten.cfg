SPECIFICATION LoopSpec
CONSTANTS
  FrameLength = 3
  MaxFrames = 10
  Delay = 5
  CoreDelay = 4
  Wrap = 1000
INVARIANTS
  FinalOutcomeWritten
