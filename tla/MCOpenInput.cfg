SPECIFICATION Spec
CONSTANTS
  WavFiles <- SomeWavFiles
  CafFiles <- SomeCafFiles
  Others <- OtherFiles
  Block = 2
INVARIANTS
  OpensWellFormed
  DeliversTheData
  LengthIsKept
  TagsComplete
PROPERTIES
  KeepsReaderContract
