CONSTANTS
  NumVolumes = 2
  OldClaims = {o1, o2}
  NewClaims = {n1, n2, n3, n4, n5, n6}
  None = None
  MaxFaults = 1
SPECIFICATION Spec
INVARIANTS
  TypeOK
  ReferencesExist
PROPERTIES
  AllOrNothing
  WrittenClaimKept
  Converges
