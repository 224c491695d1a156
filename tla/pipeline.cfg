SPECIFICATION Spec
CONSTANTS
  DottedCircle = 9676
  Surrogates <- RealSurrogates
  ExtPictRanges <- RealRanges
  Contents <- SmallContents
  Remote <- SmallRemote
  Identifiers <- Class
  OldTable <- SmallOldTable
  OldTests <- SmallOldTests
  MaxChanges = 2
  MaxFaults = 2
INVARIANTS
  TypeOK
  SuccessMeansUpToDate
  RunInv
  NeverFromBadInput
  OffsetsAtCharacters
PROPERTIES
  TestsFollowTable
  Recovers
