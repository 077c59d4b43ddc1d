\* Six seconds of four-second days, a clock that may be set back at any time,
\* messages of 1 or 3 bytes, files of 3; local time falls back at second 5;
\* other threads format a line of second 3.
SPECIFICATION Spec
CONSTANTS
  RollSize = 3
  FlushInterval = 1
  CheckEveryN = 2
  DaySeconds = 4
  IntMax = 4
  Lengths = {1, 3}
  ZoneChange = 5
  ZoneShift = 2
  OtherTimes = {3}
  MaxClock = 6
  MaxWritten = 7
INVARIANTS
  TypeOK
  TooLongOnlyUpToRoll
  FlushedInTime
  FileOfOneDay
  FileNameIsNew
