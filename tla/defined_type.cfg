SPECIFICATION BreaksSpec
CONSTANTS
  DefinedType = TRUE
  Texts <- AllTexts
INVARIANTS
  HardBreaksHonoured
