CONSTANTS
  settled = settled
  fresh1 = fresh1
  fresh2 = fresh2
  Requests = {r1, r2, r3}
  Cgroups = {settled, fresh1, fresh2}
  Settled = {settled}
  Slots = {s1, s2, s3}
  None = None
  StartMax = 2
  StatsMax = 2
  NumCpus = 2
  MaxIssues <- Issues
SPECIFICATION Spec
SYMMETRY Symmetry
INVARIANTS
  TypeOK
  SettledExact
  IssuesAccounted
  NoStampLeak
PROPERTIES
  ImplementsBpfMap
CHECK_DEADLOCK FALSE
