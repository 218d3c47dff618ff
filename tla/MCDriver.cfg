SPECIFICATION Spec
CONSTANTS
  Cases <- AllCases
  ByteBits = 2
INVARIANTS
  HandlesReleased
  FilesKept
  SbrDeclared
  ChannelsInPlace
  NearestSample
