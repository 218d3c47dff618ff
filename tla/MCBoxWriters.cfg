SPECIFICATION MoovSpec
CONSTANTS
  SampleSizes = {0, 20}
  MaxSamples = 6
  FrameDuration = 250
  Timescale = 1100
  Primings <- SomePrimings
  Settings <- SomeSettings
  Tags <- SomeTags
  Limit = 1200
  RateLimit = 1000
INVARIANTS
  WellNested
  DurationsAgree
  AverageBelowMax
