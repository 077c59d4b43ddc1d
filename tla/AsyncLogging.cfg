\* Buffers of 3 bytes: messages of 1 and 2 bytes share a buffer or not, one of
\* 3 bytes fits none.  More than 2 buffers are too many to write.  Release
\* build, so the logger can be restarted.  The back end runs and its waits end;
\* nothing else is assumed of the scheduler.
SPECIFICATION FairSpec
CONSTANTS
  Capacity = 3
  Lengths = {1, 2, 3}
  DropLimit = 2
  MaxMessages = 5
  MaxRuns = 2
  Debug = FALSE
  None = None
  Notice = Notice
INVARIANTS
  TypeOK
  AssertionsHold
  RunningAtBegin
PROPERTIES
  SinkSpec
  MessageLeaves
  StopReturns
