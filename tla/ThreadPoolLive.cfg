\* Liveness: every runnable thread runs, nothing else is assumed.
SPECIFICATION FairSpec
CONSTANTS
  t1 = t1
  t2 = t2
  Tasks = {t1, t2}
  MaxPoolSize = 2
  CorePoolSize = 1
  MaxTaskSize = 1
  MaxThreads = 2
  Tids = {1, 2}
  Debug = FALSE
  None = None
  Owner = Owner
  Monitor = Monitor
PROPERTIES
  AcceptedTaskRuns
  DestructorReturns
  RetiredIsReaped
