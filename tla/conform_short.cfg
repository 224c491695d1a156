SPECIFICATION BreaksSpec
CONSTANTS
  DefinedType = FALSE
  Texts <- ShortTexts
INVARIANTS
  ConformsToUAX14
