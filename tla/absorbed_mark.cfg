SPECIFICATION BreaksSpec
CONSTANTS
  DefinedType = FALSE
  Texts <- AbsorbedMarkTexts
INVARIANTS
  ConformsToUAX14
