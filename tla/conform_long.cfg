SPECIFICATION BreaksSpec
CONSTANTS
  DefinedType = FALSE
  Texts <- LongTexts
INVARIANTS
  ConformsToUAX14
  RememberedContext
  CutsInv
