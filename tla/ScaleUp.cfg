CONSTANTS
  p1 = p1
  p2 = p2
  c1 = c1
  c2 = c2
  Containers = {c1, c2}
  Policies = {p1, p2}
  CPUStepPercent <- Steps
  MaxCPULimit <- Maximums
  InitialResources <- AllKinds
  None = None
  MaxRestarts = 2
SPECIFICATION FairSpec
INVARIANTS
  TypeOK
  WithinMax
PROPERTIES
  LimitsOnlyRaised
  EvictedOnlyAtMax
  ResizesRaise
  Escalates
\* The pod may be gone for good.
CHECK_DEADLOCK FALSE
