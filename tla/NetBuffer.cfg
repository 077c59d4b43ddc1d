\* A prepend area of 1 byte and 2 more to start with, growing to 5; strings of
\* up to 4 bytes of two values: readv fills the buffer and overflows into
\* extra_buf, which PushBack then appends.
SPECIFICATION Spec
CONSTANTS
  CheapPrepend = 1
  InitialSize = 2
  ExtraSize = 4
  SizeLimit = 32
  MaxSize = 5
  Byte = {0, 1, 2}
  Data <- Strings
  MaxData = 4
  Debug = TRUE
INVARIANTS
  TypeOK
  SpaceAssertions
PROPERTY QueueSpec
