\* Two descriptors, one of them reused; both builds; epoll_ctl works or may
\* fail; an event list that two events fill; channels with and
\* without callbacks.
SPECIFICATION Spec
CONSTANTS
  c1 = c1
  c2 = c2
  c3 = c3
  Channel = {c1, c2, c3}
  NoChannel = NoChannel
  Fd = {1, 2}
  FdOf <- Descriptors
  InitListSize = 2
  MaxListSize = 4
  Reported <- SomeReported
  CallBackSets <- SomeCallBackSets
INVARIANTS
  TypeOK
  InterestInSync
  NoDanglingPointer
  MapExact
PROPERTY
  PollFindsWork
SYMMETRY SameDescriptor
