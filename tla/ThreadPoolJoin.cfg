\* ~ThreadPool against the monitor: may both join the same Thread?
SPECIFICATION Spec
CONSTANTS
  t1 = t1
  t2 = t2
  Tasks = {t1}
  MaxPoolSize = 2
  CorePoolSize = 1
  MaxTaskSize = 0
  MaxThreads = 2
  Tids = {1, 2}
  Debug = TRUE
  None = None
  Owner = Owner
  Monitor = Monitor
INVARIANT JoinedOnce
