\* Two descriptors and a failed one, two ports that are each other's bytes swapped,
\* both families.
SPECIFICATION SocketSpec
CONSTANTS
  Fd = {3, 4}
  Port = {80, 20480}
  Given <- SomeGiven
  Remote <- SomeRemote
  MaxQueue = 1
INVARIANTS
  EndpointsExact
  SelfConnectExact
