CONSTANTS
  c1 = c1
  c2 = c2
  c3 = c3
  k1 = k1
  k2 = k2
  Cgroups = {c1, c2}
  Keys = {k1, k2}
  KeyOf <- TwoPods
  Maps <- BlockOnly
  None = None
  Faults = FALSE
  MaxTruth <- TwoEvents
  MaxRestarts = 1
SPECIFICATION FairSpec
PROPERTIES
  EntryExported
  GoneSeriesDropped
