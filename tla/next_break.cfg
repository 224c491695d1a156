SPECIFICATION Spec
CONSTANTS
  DefinedType = TRUE
  Texts <- CallTexts
INVARIANTS
  ReturnContract
  RememberedContext
PROPERTIES
  Returns
