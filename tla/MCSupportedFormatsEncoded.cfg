SPECIFICATION Spec
CONSTANTS
  Cases <- AllCases
  ByteBits = 2
INVARIANTS
  SupportedFormatsEncoded
