CONSTANTS
  Names = {p1}
  Uids = {u1, u2}
  Nodes = {n1}
  Ours = ours
  Foreign = {f1}
  None = None
  Duration = 1
  MaxTime = 2
  MaxCrashes = 1
  NameReuse = TRUE
  AdminUntaints = TRUE
SPECIFICATION Spec
PROPERTIES
  OnlySaturatedEvicted
