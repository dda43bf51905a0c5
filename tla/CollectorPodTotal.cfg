CONSTANTS
  c1 = c1
  c2 = c2
  c3 = c3
  k1 = k1
  k2 = k2
  Cgroups = {c1, c2, c3}
  Keys = {k1, k2}
  KeyOf <- Containers
  Maps <- BlockOnly
  None = None
  Faults = FALSE
  MaxTruth <- OneEvent
  MaxRestarts = 0
SPECIFICATION Spec
INVARIANTS
  NoOvercount
