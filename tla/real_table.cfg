SPECIFICATION Spec
INVARIANTS
  TableAsAssumed
  LookupAsModelled
  LaidOutInOrder
  SoleCharacters
