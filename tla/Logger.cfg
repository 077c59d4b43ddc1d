\* Two threads, three lines of one piece after the header, a clock that goes back.
SPECIFICATION Spec
CONSTANTS
  p = p
  q = q
  Thread = {p, q}
  NoThread = NoThread
  BufferSize = 10
  MaxNumericSize = 5
  TimeLen = 2
  Pieces <- SomePieces
  Place <- SomePlace
  ErrorText <- SomeError
  MaxClock = 2
  Macros <- SomeMacros
  LogLevels = {"WARN"}
  MaxPieces = 1
  MaxLines = 3
SYMMETRY Symmetric
INVARIANTS
  LineFits
  NumbersReadBack
  OwnTimeUnlessRaced
  FatalIsWritten
