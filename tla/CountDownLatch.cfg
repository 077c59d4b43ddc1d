\* Three threads, a count of two; two calls each: more CountDowns than the count,
\* waits before and after the latch opens.
SPECIFICATION Spec
CONSTANTS
  p = p
  q = q
  r = r
  Thread = {p, q, r}
  NoThread = NoThread
  Count = 2
  MaxCalls = 2
INVARIANTS
  HolderIsOwner
  NoLostWakeup
  DestroyedUnused
PROPERTY LatchSpec
CHECK_DEADLOCK FALSE
