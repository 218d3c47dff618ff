SPECIFICATION Spec
CONSTANTS
  OptionLists <- FileOptions
  SourceLists <- None
  Texts <- AllTexts
  JsonLists <- None
INVARIANTS
  MissingFileIsSurvived
