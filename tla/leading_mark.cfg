SPECIFICATION BreaksSpec
CONSTANTS
  DefinedType = FALSE
  Texts <- LeadingMarkTexts
INVARIANTS
  ConformsToUAX14
