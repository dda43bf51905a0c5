CONSTANTS
  p1 = p1
  p2 = p2
  i1 = i1
  i2 = i2
  t1 = t1
  t2 = t2
  t3 = t3
  root = root
  pod = pod
  Cpus = {p1, p2}
  Tasks = {i1, i2, t1, t2, t3}
  IdleOf <- IdleTasks
  Pid <- Pids
  CgroupOf <- CgroupIds
  Cgroups = {root, pod}
  Settled = {root}
  Slots = {s1, s2, s3}
  None = None
  StartMax = 3
  StatsMax = 2
  MaxSwitches = 3
SPECIFICATION Spec
SYMMETRY Symmetry
INVARIANTS
  TypeOK
  MeasuresOwnWait
  NonPreemptiveStamped
  LeakOnlyFromRunning
  SettledExact
PROPERTIES
  ImplementsBpfMap
CHECK_DEADLOCK FALSE
