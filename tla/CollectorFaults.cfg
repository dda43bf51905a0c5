CONSTANTS
  c1 = c1
  c2 = c2
  c3 = c3
  k1 = k1
  k2 = k2
  Cgroups = {c1, c2}
  Keys = {k1}
  KeyOf <- OnePod
  Maps <- BlockRunq
  None = None
  Faults = TRUE
  MaxTruth <- MixedEvents
  MaxRestarts = 1
SPECIFICATION Spec
INVARIANTS
  TypeOK
  OvercountExplained
  DeltasTelescope
