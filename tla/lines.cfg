SPECIFICATION BreaksSpec
CONSTANTS
  DefinedType = FALSE
  Texts <- AllTexts
INVARIANTS
  TypeOK
  LinesInv
  NoInvalidAdvance
  HardBreaksHonoured
PROPERTIES
  ImplementsSegmentation
  Terminates
