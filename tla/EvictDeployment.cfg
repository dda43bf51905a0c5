CONSTANTS
  Names = {p1, p2}
  Uids = {u1, u2}
  Nodes = {n1}
  Ours = ours
  Foreign = {f1}
  None = None
  Duration = 1
  MaxTime = 2
  MaxCrashes = 1
  NameReuse = FALSE
  AdminUntaints = FALSE
SPECIFICATION Spec
INVARIANTS
  TypeOK
  OursUnique
PROPERTIES
  OnlySaturatedEvicted
  TaintBeforeEvict
