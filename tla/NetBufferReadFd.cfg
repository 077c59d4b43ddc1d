\* A read reaches the end of the storage, and perhaps extra_buf, but is shorter
\* than the storage: does MakeSpace hold what it asserts?
SPECIFICATION Spec
CONSTANTS
  CheapPrepend = 1
  InitialSize = 2
  ExtraSize = 2
  SizeLimit = 32
  MaxSize = 6
  Byte = {0, 1, 2}
  Data <- Strings
  MaxData = 2
  Debug = TRUE
INVARIANT ReadFdMakesSpace
