SPECIFICATION PipelineSpec
CONSTANTS
  Profile = 2
  FrameLength = 5
  LpcSpan = 3
  MaxFrames = 18
  Delay = 8
  CoreDelay = 7
  Wrap = 1000
INVARIANTS
  BlockFitsCaller
  LeadAdjoinsSource
  TailContinuesSource
  PlayedIsSource
PROPERTIES
  ImplementsLoop
