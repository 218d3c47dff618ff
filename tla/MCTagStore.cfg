SPECIFICATION Spec
CONSTANTS
  OptionLists <- SomeOptions
  SourceLists <- SomeCalls
  Texts <- AllTexts
  JsonLists <- SomeMembers
INVARIANTS
  OneSlotPerTag
  LatestSourceWins
  EveryPictureKept
  NoHalfWrittenSlot
