SPECIFICATION Spec
CONSTANTS
  blockSize = 4
  DottedCircle = 3
  Encode <- SmallEncode
  Surrogates <- SmallSurrogates
  ExtPictRanges <- SmallRanges
  Files <- GappyFiles
  Defaults <- SmallDefaults
INVARIANTS
  ClassesAsPublished
