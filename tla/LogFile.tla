------------------------------- MODULE LogFile -------------------------------
(***************************************************************************)
(* turbo::LogFile and turbo::FileUtil (src/src/logger/log_file.{h,cpp},    *)
(* file_util.{h,cpp}): the file the logging thread writes to.  It starts a *)
(* new file when the current one is too long or a new day has begun, and   *)
(* flushes stdio's buffer from time to time.  Each call is one step: the   *)
(* object has a mutex or a single user.                                    *)
(*                                                                         *)
(* Of the bytes in stdio's buffer only the age matters.                    *)
(***************************************************************************)
EXTENDS Integers

CONSTANTS
  RollSize,        \* roll_size_
  FlushInterval,   \* flush_interval_, in seconds
  CheckEveryN,     \* check_every_n_
  DaySeconds,      \* the seconds of a day
  IntMax,          \* the largest int: count_ is never reset
  Lengths,         \* the lengths of the messages
  ZoneChange,      \* when local time falls back (end of summer time),
  ZoneShift,       \* and by how many seconds
  OtherTimes,      \* the seconds that a race with other threads may show
  MaxClock,        \* bound: the last second
  MaxWritten       \* bound: the longest file within one second

ASSUME LogFileAssumption ==
  /\ RollSize \in Nat /\ FlushInterval \in Nat /\ CheckEveryN \in Nat
  /\ DaySeconds \in Nat \ {0} /\ IntMax \in Nat /\ Lengths \subseteq Nat
  /\ ZoneChange \in Nat /\ ZoneShift \in 0 .. ZoneChange /\ OtherTimes \subseteq Nat
  /\ MaxClock \in Nat /\ MaxWritten \in Nat

VARIABLES
  clock,                     \* Timestamp::Now(), in seconds
  count,                     \* count_
  start_period,              \* start_period_, in days
  last_roll, last_flush,     \* last_roll_, last_flush_
  file_name,                 \* the name of file_
  written_bytes,             \* file_->written_bytes_
  oldest,                    \* when the oldest unflushed byte came; 0: none
  last_append,               \* history: when Append was last called
  earlier,                   \* history: the files before it, and when they were opened
  went_back                  \* history: the clock was set back

vars == <<clock, count, start_period, last_roll, last_flush, file_name, written_bytes,
          oldest, last_append, earlier, went_back>>

\* Mutant: off by one.
DayBefore(t) == (t \div DaySeconds) - 1

\* TimeSinceEpochDays.
Day(t) == t \div DaySeconds

LocalTime(t) == IF t >= ZoneChange THEN t - ZoneShift ELSE t

\* What ToFormatString may write, down to the second: the local time, or that of
\* a line which another thread formats between std::localtime and the use of its
\* static buffer, or a mixture.
ToFormatString(t) == {LocalTime(s) : s \in {t} \union OtherTimes}

\* Base name, host and pid do not vary.
GetLogFileName(t) == ToFormatString(t)

-----------------------------------------------------------------------------

\* The constructor's RollFile opens the first file.
Init ==
  /\ clock \in 1 .. MaxClock
  /\ count = 0 /\ start_period = Day(clock)
  /\ last_roll = clock /\ last_flush = clock
  /\ file_name \in GetLogFileName(clock) /\ earlier = {}
  /\ written_bytes = 0 /\ oldest = 0 /\ last_append = clock
  /\ went_back = FALSE

\* Mutant: a file may be opened twice in a second.
MayRollAgain == clock >= last_roll

\* RollFile acts only in a later second than the last time.
MayRoll == clock > last_roll

\* RollFile, when w bytes are in the file and the oldest unflushed came at o;
\* ~FileUtil closes the old file, which flushes it.
RollFile(w, o) ==
  IF MayRoll
  THEN /\ start_period' = Day(clock)
       /\ last_roll' = clock /\ last_flush' = clock
       /\ file_name' \in GetLogFileName(clock)
       /\ earlier' = earlier \union {[name |-> file_name, at |-> last_roll]}
       /\ written_bytes' = 0 /\ oldest' = 0
  ELSE /\ written_bytes' = w /\ oldest' = o
       /\ UNCHANGED <<start_period, last_roll, last_flush, file_name, earlier>>

\* ++count_ (signed overflow has no defined result; the builds wrap).
Increment(n) == IF n = IntMax THEN -IntMax - 1 ELSE n + 1

\* Mutant: the length is compared with the limit before this message.
TooLongBefore(w) == written_bytes > RollSize

\* The file is too long after this message.
TooLong(w) == w > RollSize

\* Mutant: the time of the last flush is compared with the interval.
FlushDueSwapped == last_flush > FlushInterval + clock

\* Is a periodic flush due?
FlushDue == clock - last_flush > FlushInterval

\* Mutant: a day late.
NewDayLate == Day(clock) > start_period + 1

\* Has a day begun since the file was opened?
NewDay == Day(clock) > start_period

\* FileUtil::Append: written_bytes_ afterwards.  The whole message counts even
\* if fwrite took only a part of it.
FileAppend(len) == written_bytes + len

\* AppendUnLocked.
Append(len) ==
  LET w == FileAppend(len)
      o == IF oldest = 0 THEN clock ELSE oldest
  IN
  /\ w <= MaxWritten
  /\ last_append' = clock
  /\ UNCHANGED <<clock, went_back>>
  /\ \/ TooLong(w) /\ RollFile(w, o) /\ UNCHANGED count
     \/ /\ ~TooLong(w)
        /\ count' = Increment(count)
        /\ \/ count' >= CheckEveryN /\ NewDay /\ RollFile(w, o)
           \/ /\ count' >= CheckEveryN /\ ~NewDay /\ FlushDue
              /\ last_flush' = clock /\ oldest' = 0 /\ written_bytes' = w
              /\ UNCHANGED <<start_period, last_roll, file_name, earlier>>
           \/ /\ count' < CheckEveryN \/ ~(NewDay \/ FlushDue)
              /\ written_bytes' = w /\ oldest' = o
              /\ UNCHANGED <<start_period, last_roll, last_flush, file_name, earlier>>

\* Flush by the logging thread does not count as a periodic flush.
Flush ==
  /\ oldest' = 0
  /\ UNCHANGED <<clock, count, start_period, last_roll, last_flush, file_name,
                 written_bytes, last_append, earlier, went_back>>

\* Time passes; the system clock may also be set back.
Tick ==
  /\ \E t \in 1 .. MaxClock : clock' = t /\ went_back' = (went_back \/ t < clock)
  /\ UNCHANGED <<count, start_period, last_roll, last_flush, file_name, written_bytes,
                 oldest, last_append, earlier>>

Next == (\E len \in Lengths : Append(len)) \/ Flush \/ Tick

Spec == Init /\ [][Next]_vars

-----------------------------------------------------------------------------
(* Properties.                                                             *)

TypeOK ==
  /\ clock \in Nat \ {0} /\ count \in Int
  /\ start_period \in Nat /\ last_roll \in Nat /\ last_flush \in Nat
  /\ written_bytes \in Nat /\ oldest \in Nat /\ last_append \in Nat
  /\ file_name \in Nat /\ earlier \subseteq [name : Nat, at : Nat] /\ went_back \in BOOLEAN

\* Rolling does not reopen a file that exists, whose bytes the new count would
\* leave out, even when the clock is set back; except when local time has fallen
\* back in between, or one of the two was named after another thread's second
\* (log_file.cpp:37-43, 51, timestamp.cpp:28-37).
FileNameIsNew ==
  \A f \in earlier : f.name = file_name =>
    \/ f.at < ZoneChange /\ ZoneChange <= last_roll
    \/ f.name # LocalTime(f.at) \/ file_name # LocalTime(last_roll)

\* A file stays too long only until the clock is past the second it was opened
\* in: an Append in a later second ends with a file of at most roll_size_ bytes.
\* (A clock that is set back puts that off: log_file.cpp:39, 58-62.)
TooLongOnlyUpToRoll == written_bytes > RollSize => last_append <= last_roll

\* While count_ is at least check_every_n_ (that is, until it overflows), an Append
\* leaves nothing in stdio's buffer that is older than the flush interval, whichever
\* of its branches ran, as long as the clock does not go back (log_file.cpp:58-75).
FlushedInTime ==
  ~went_back /\ count >= CheckEveryN /\ oldest # 0 => last_append - oldest <= FlushInterval

\* While count_ is at least check_every_n_ (that is, until it overflows), no Append
\* leaves a file open that was opened on an earlier day (log_file.cpp:60-68).
FileOfOneDay ==
  count >= CheckEveryN => Day(last_append) <= Day(last_roll)
=============================================================================
