SPECIFICATION Spec
CONSTANTS
  blockSize = 4
  DottedCircle = 3
  Encode <- SmallEncode
  Surrogates <- SmallSurrogates
  ExtPictRanges <- SmallRanges
  Files <- SmallFiles
  Defaults <- SmallDefaults
INVARIANTS
  TypeOK
  InsertSucceeds
  GeneratorInv
  LookupGivesBack
  Canonical
  ClassesResolved
PROPERTIES
  ImplementsDictionary
