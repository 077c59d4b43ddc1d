\* A queue of one task and a Release build: a Commit finds room or not, and
\* one that races ShutDown goes on without the assertions.
SPECIFICATION Spec
CONSTANTS
  t1 = t1
  t2 = t2
  t3 = t3
  Tasks = {t1, t2, t3}
  MaxPoolSize = 2
  CorePoolSize = 1
  MaxTaskSize = 1
  MaxThreads = 3
  Tids = {1, 2}
  Debug = FALSE
  None = None
  Owner = Owner
  Monitor = Monitor
SYMMETRY TaskSymmetry
INVARIANTS
  TypeOK
  CountersExact
  SizeWithinBounds
  AcceptedTasksRan
  MonitorJoinsRetired
