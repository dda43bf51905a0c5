CONSTANTS
  None = None
  Texts = {t1, t2}
  MaxChanges = 1
  MaxEdits = 2
  MaxApiErrors = 1
  MaxRestarts = 1
SPECIFICATION FairSpec
INVARIANTS
  TypeOK
  NeverForgotten
PROPERTIES
  KeepsEvaluating
  StatusCatchesUp
  Quiesces
CHECK_DEADLOCK FALSE
