CONSTANTS
  None = None
  NumCpus = 1
  MaxEvents = 3
  MaxResets = 1
  MaxRestarts = 1
SPECIFICATION Spec
INVARIANTS
  TypeOK
  IncreaseBounded
PROPERTIES
  OnlyFreshSeriesDrop
  SkewHeals
