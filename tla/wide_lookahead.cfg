SPECIFICATION BreaksSpec
CONSTANTS
  DefinedType = FALSE
  Texts <- WideBracketTexts
INVARIANTS
  ConformsToUAX14
