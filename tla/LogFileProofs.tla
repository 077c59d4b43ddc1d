----------------------------- MODULE LogFileProofs -----------------------------
(***************************************************************************)
(* Proofs about LogFile for every roll size, interval, message length and  *)
(* width of int: long files and files of another day are rolled, to names  *)
(* that are new, and bytes are flushed in time.                            *)
(***************************************************************************)
EXTENDS LogFile, TLAPS

\* Until the clock is set back: the order of the recorded times, and
\* that what is in stdio's buffer came after the last periodic flush.
TimesInOrder ==
  /\ last_roll <= last_flush /\ last_flush <= clock /\ last_append <= clock
  /\ oldest # 0 => last_flush <= oldest /\ oldest <= clock

\* The inductive invariant.
IInv ==
  /\ TypeOK
  /\ TooLongOnlyUpToRoll
  /\ (~went_back => TimesInOrder) /\ FlushedInTime

\* The day of a second is a natural number.
LEMMA DayType == ASSUME NEW t \in Nat PROVE Day(t) \in Nat
BY LogFileAssumption DEF Day

\* The name of a file is a local time, whichever thread's.
LEMMA NameType == ASSUME NEW t \in Nat, NEW n \in GetLogFileName(t) PROVE n \in Nat
<1>1. PICK s \in {t} \union OtherTimes : n = LocalTime(s)
  BY DEF GetLogFileName, ToFormatString
<1>2. s \in Nat
  BY LogFileAssumption
<1> QED
  BY <1>1, <1>2, LogFileAssumption DEF LocalTime

\* The constructor establishes the invariant.
LEMMA InitInv == Init => IInv
<1> SUFFICES ASSUME Init PROVE IInv
  OBVIOUS
<1> USE LogFileAssumption
<1>1. clock \in Nat \ {0}
  BY DEF Init
<1>2. TypeOK
  <2>1. went_back \in BOOLEAN
    BY Zenon DEF Init
  <2>2. Day(clock) \in Nat
    BY <1>1, DayType
  <2>3. file_name \in Nat
    BY <1>1, NameType DEF Init
  <2> QED
    BY <1>1, <2>1, <2>2, <2>3 DEF Init, TypeOK
<1>3. TimesInOrder
  BY <1>1 DEF Init, TimesInOrder
<1>4. TooLongOnlyUpToRoll /\ FlushedInTime
  BY <1>1 DEF Init, TooLongOnlyUpToRoll, FlushedInTime
<1> QED
  BY <1>2, <1>3, <1>4 DEF IInv

\* What RollFile does, seen from Append.
LEMMA RollFileEffect ==
  ASSUME TypeOK, NEW w \in Nat, NEW o \in Nat, RollFile(w, o)
  PROVE  /\ start_period' \in Nat /\ file_name' \in Nat /\ earlier' \subseteq [name : Nat, at : Nat]
         /\ \/ /\ clock > last_roll /\ last_roll' = clock /\ last_flush' = clock
               /\ written_bytes' = 0 /\ oldest' = 0
            \/ /\ clock <= last_roll /\ last_roll' = last_roll /\ last_flush' = last_flush
               /\ written_bytes' = w /\ oldest' = o
<1>0. /\ clock \in Nat /\ last_roll \in Nat /\ start_period \in Nat
      /\ file_name \in Nat /\ earlier \subseteq [name : Nat, at : Nat]
  BY DEF TypeOK
<1>1. CASE MayRoll
  <2>1. /\ start_period' = Day(clock) /\ file_name' \in GetLogFileName(clock)
        /\ earlier' = earlier \union {[name |-> file_name, at |-> last_roll]}
        /\ last_roll' = clock /\ last_flush' = clock
        /\ written_bytes' = 0 /\ oldest' = 0
    BY <1>1 DEF RollFile
  <2>2. clock > last_roll
    BY <1>1 DEF MayRoll
  <2>3. start_period' \in Nat /\ file_name' \in Nat /\ earlier' \subseteq [name : Nat, at : Nat]
    BY <1>0, <2>1, DayType, NameType
  <2> QED
    BY <2>1, <2>2, <2>3
<1>2. CASE ~MayRoll
  <2>1. /\ start_period' = start_period /\ file_name' = file_name /\ earlier' = earlier
        /\ last_roll' = last_roll /\ last_flush' = last_flush
        /\ written_bytes' = w /\ oldest' = o
    BY <1>2 DEF RollFile
  <2>2. clock <= last_roll
    BY <1>0, <1>2 DEF MayRoll
  <2> QED
    BY <1>0, <2>1, <2>2
<1> QED
  BY <1>1, <1>2

\* Append keeps the invariant, whichever branch it takes.
LEMMA AppendInv ==
  ASSUME IInv, NEW len \in Lengths, Append(len)
  PROVE  IInv'
<1> DEFINE w == FileAppend(len)
           o == IF oldest = 0 THEN clock ELSE oldest
<1>0. /\ TypeOK /\ TooLongOnlyUpToRoll /\ len \in Nat
      /\ (~went_back => TimesInOrder) /\ FlushedInTime
  BY LogFileAssumption DEF IInv
<1>1. /\ w \in Nat /\ o \in Nat /\ last_append' = clock /\ clock' = clock /\ went_back' = went_back
      /\ ~went_back => last_flush <= o /\ o <= clock
  BY <1>0 DEF TypeOK, Append, FileAppend, TimesInOrder
<1>2. \/ TooLong(w) /\ RollFile(w, o) /\ count' = count
      \/ ~TooLong(w) /\ count' = Increment(count) /\ RollFile(w, o)
      \/ /\ ~TooLong(w) /\ count' = Increment(count)
         /\ last_flush' = clock /\ oldest' = 0 /\ written_bytes' = w
         /\ UNCHANGED <<start_period, last_roll, file_name, earlier>>
      \/ /\ ~TooLong(w) /\ count' = Increment(count)
         /\ count' < CheckEveryN \/ ~FlushDue
         /\ written_bytes' = w /\ oldest' = o
         /\ UNCHANGED <<start_period, last_roll, last_flush, file_name, earlier>>
  BY DEF Append
<1> HIDE DEF w, o
<1>3. Increment(count) \in Int
  BY <1>0, LogFileAssumption DEF Increment, TypeOK
<1>4. CASE TooLong(w) /\ RollFile(w, o) /\ count' = count
  <2>1. TypeOK'
    BY <1>0, <1>1, <1>4, RollFileEffect DEF TypeOK
  <2>2. TooLongOnlyUpToRoll'
    BY <1>0, <1>1, <1>4, RollFileEffect DEF TypeOK, TooLongOnlyUpToRoll
  <2>3. (~went_back' => TimesInOrder') /\ FlushedInTime'
    BY <1>0, <1>1, <1>4, RollFileEffect, LogFileAssumption
    DEF TypeOK, TimesInOrder, FlushedInTime
  <2> QED
    BY <2>1, <2>2, <2>3 DEF IInv
<1>5. CASE ~TooLong(w) /\ count' = Increment(count) /\ RollFile(w, o)
  <2>1. TypeOK'
    BY <1>0, <1>1, <1>3, <1>5, RollFileEffect DEF TypeOK
  <2>2. TooLongOnlyUpToRoll'
    BY <1>0, <1>1, <1>5, RollFileEffect DEF TypeOK, TooLongOnlyUpToRoll
  <2>3. (~went_back' => TimesInOrder') /\ FlushedInTime'
    BY <1>0, <1>1, <1>3, <1>5, RollFileEffect, LogFileAssumption
    DEF TypeOK, TimesInOrder, FlushedInTime
  <2> QED
    BY <2>1, <2>2, <2>3 DEF IInv
<1>6. CASE /\ ~TooLong(w) /\ count' = Increment(count)
           /\ last_flush' = clock /\ oldest' = 0 /\ written_bytes' = w
           /\ UNCHANGED <<start_period, last_roll, file_name, earlier>>
  BY <1>0, <1>1, <1>3, <1>6, LogFileAssumption
  DEF IInv, TypeOK, TooLongOnlyUpToRoll, TooLong, TimesInOrder, FlushedInTime
<1>7. CASE /\ ~TooLong(w) /\ count' = Increment(count)
           /\ count' < CheckEveryN \/ ~FlushDue
           /\ written_bytes' = w /\ oldest' = o
           /\ UNCHANGED <<start_period, last_roll, last_flush, file_name, earlier>>
  <2>1. TypeOK' /\ TooLongOnlyUpToRoll'
    BY <1>0, <1>1, <1>3, <1>7, LogFileAssumption
    DEF TypeOK, TooLongOnlyUpToRoll, TooLong
  <2>2. (~went_back' => TimesInOrder') /\ FlushedInTime'
    BY <1>0, <1>1, <1>3, <1>7, LogFileAssumption
    DEF TypeOK, TimesInOrder, FlushedInTime, FlushDue
  <2> QED
    BY <2>1, <2>2 DEF IInv
<1> QED
  BY <1>2, <1>4, <1>5, <1>6, <1>7

\* Every step keeps the invariant.
LEMMA NextInv == IInv /\ [Next]_vars => IInv'
<1> SUFFICES ASSUME IInv, [Next]_vars PROVE IInv'
  OBVIOUS
<1>1. ASSUME NEW len \in Lengths, Append(len) PROVE IInv'
  BY <1>1, AppendInv
<1>2. CASE Flush
  BY <1>2 DEF Flush, IInv, TypeOK, TooLongOnlyUpToRoll, TimesInOrder, FlushedInTime
<1>3. CASE Tick
  <2>1. clock' \in Nat \ {0} /\ went_back' = (went_back \/ clock' < clock)
    BY <1>3, LogFileAssumption DEF Tick
  <2>2. TypeOK'
    <3>1. went_back' \in BOOLEAN
      BY <2>1 DEF IInv, TypeOK
    <3> QED
      BY <1>3, <2>1, <3>1 DEF Tick, IInv, TypeOK
  <2>3. TooLongOnlyUpToRoll' /\ FlushedInTime'
    BY <1>3, <2>1 DEF Tick, IInv, TooLongOnlyUpToRoll, FlushedInTime
  <2>4. ~went_back' => TimesInOrder'
    <3> SUFFICES ASSUME ~went_back' PROVE TimesInOrder'
      OBVIOUS
    <3>1. ~went_back /\ ~(clock' < clock)
      BY <2>1, Zenon
    <3>2. TimesInOrder /\ TypeOK
      BY <3>1 DEF IInv
    <3>3. /\ UNCHANGED <<last_roll, last_flush, last_append, oldest>>
          /\ clock \in Nat /\ last_roll \in Nat /\ last_flush \in Nat
          /\ last_append \in Nat /\ oldest \in Nat
      BY <1>3, <3>2 DEF Tick, TypeOK
    <3> QED
      BY <2>1, <3>1, <3>2, <3>3 DEF TimesInOrder
  <2> QED
    BY <2>2, <2>3, <2>4 DEF IInv
<1>4. CASE UNCHANGED vars
  BY <1>4 DEF vars, IInv, TypeOK, TooLongOnlyUpToRoll, TimesInOrder, FlushedInTime
<1> QED
  BY <1>1, <1>2, <1>3, <1>4 DEF Next

\* The invariant holds in every reachable state.
THEOREM Invariance == Spec => []IInv
BY InitInv, NextInv, PTL DEF Spec

\* The recorded times, counts and names keep their types.
THEOREM TypeCorrect == Spec => []TypeOK
<1>1. IInv => TypeOK
  BY DEF IInv
<1> QED
  BY <1>1, Invariance, PTL

\* A file is longer than roll_size_ only until the clock is past the second it was
\* opened in, which a clock that is set back puts off (log_file.cpp:39, 58-62).
THEOREM LongFilesRoll == Spec => []TooLongOnlyUpToRoll
<1>1. IInv => TooLongOnlyUpToRoll
  BY DEF IInv
<1> QED
  BY <1>1, Invariance, PTL

\* While count_ is at least check_every_n_ no Append leaves bytes unflushed for
\* longer than the interval, until the clock is set back (log_file.cpp:58-75).
THEOREM FlushesInTime == Spec => []FlushedInTime
<1>1. IInv => FlushedInTime
  BY DEF IInv
<1> QED
  BY <1>1, Invariance, PTL

-----------------------------------------------------------------------------
(* Days and files.                                                         *)

\* start_period_ is the day of the last roll, and the other files were opened
\* before it.
PeriodOfRoll == start_period = Day(last_roll)
OpenedBefore == \A f \in earlier : f.at < last_roll
FileInv == PeriodOfRoll /\ OpenedBefore /\ FileOfOneDay

\* A later second is not on an earlier day.
LEMMA DayMonotone ==
  ASSUME NEW a \in Nat, NEW b \in Nat, a <= b
  PROVE  Day(a) <= Day(b)
<1> DEFINE d == DaySeconds
<1>1. d \in Nat /\ d > 0
  BY LogFileAssumption
<1>2. \A t \in Nat : /\ Day(t) \in Nat
                     /\ d * Day(t) <= t /\ t < d * (Day(t) + 1)
  BY <1>1 DEF Day
<1> HIDE DEF d
<1>3. \A p, q \in Nat : p > q => d * p >= d * (q + 1)
  <2> SUFFICES ASSUME NEW p \in Nat, NEW q \in Nat, p > q PROVE d * p >= d * (q + 1)
    OBVIOUS
  <2>1. PICK k \in Nat : p = (q + 1) + k
    <3>1. p - (q + 1) \in Nat /\ p = (q + 1) + (p - (q + 1))
      OBVIOUS
    <3> QED
      BY <3>1
  <2>2. d * p = d * (q + 1) + d * k /\ d * k >= 0 /\ d * k \in Nat /\ d * (q + 1) \in Nat
    BY <1>1, <2>1
  <2> QED
    BY <2>2
<1>4. ASSUME Day(a) > Day(b) PROVE FALSE
  <2>1. /\ d * Day(a) \in Nat /\ d * (Day(b) + 1) \in Nat
        /\ d * Day(a) >= d * (Day(b) + 1)
        /\ d * Day(a) <= a /\ b < d * (Day(b) + 1)
    BY <1>1, <1>2, <1>3, <1>4
  <2> HIDE DEF d
  <2> QED
    BY <2>1
<1> QED
  BY <1>2, <1>4

\* Append opens no file that is not the newest, and notices a new day.
LEMMA AppendFile ==
  ASSUME IInv, FileInv, NEW len \in Lengths, Append(len)
  PROVE  FileInv'
<1>0. /\ TypeOK /\ PeriodOfRoll /\ OpenedBefore /\ FileOfOneDay
      /\ clock \in Nat /\ last_roll \in Nat /\ earlier \subseteq [name : Nat, at : Nat]
      /\ Day(clock) \in Nat /\ Day(last_roll) \in Nat /\ last_append' = clock
      /\ CheckEveryN \in Nat /\ count \in Int
  BY LogFileAssumption, DayType DEF IInv, TypeOK, FileInv, Append
<1>1. ASSUME NEW w, NEW o, RollFile(w, o) PROVE FileInv'
  <2>1. CASE MayRoll
    <3>1. /\ start_period' = Day(clock) /\ last_roll' = clock /\ clock > last_roll
          /\ earlier' = earlier \union {[name |-> file_name, at |-> last_roll]}
      BY <1>1, <2>1 DEF RollFile, MayRoll
    <3>2. PeriodOfRoll' /\ FileOfOneDay'
      BY <1>0, <3>1 DEF PeriodOfRoll, FileOfOneDay, Day
    <3>3. OpenedBefore'
      BY <1>0, <3>1 DEF OpenedBefore
    <3> QED
      BY <3>2, <3>3 DEF FileInv
  <2>2. CASE ~MayRoll
    <3>1. UNCHANGED <<start_period, last_roll, earlier>> /\ clock <= last_roll
      BY <1>0, <1>1, <2>2 DEF RollFile, MayRoll
    <3>2. PeriodOfRoll' /\ OpenedBefore'
      BY <1>0, <3>1 DEF PeriodOfRoll, OpenedBefore, Day
    <3>3. Day(clock) <= Day(last_roll)
      BY <1>0, <3>1, DayMonotone
    <3>4. FileOfOneDay'
      BY <1>0, <3>1, <3>3 DEF FileOfOneDay, Day
    <3> QED
      BY <3>2, <3>4 DEF FileInv
  <2> QED
    BY <2>1, <2>2
<1>2. CASE /\ UNCHANGED <<start_period, last_roll, earlier>>
           /\ count' < CheckEveryN \/ ~NewDay
           /\ count' \in Int
  <2>1. PeriodOfRoll' /\ OpenedBefore'
    BY <1>0, <1>2 DEF PeriodOfRoll, OpenedBefore, Day
  <2>2. ~NewDay => Day(clock) <= Day(last_roll)
    BY <1>0 DEF NewDay, PeriodOfRoll
  <2>3. Day(last_append)' = Day(clock) /\ Day(last_roll)' = Day(last_roll)
    BY <1>0, <1>2 DEF Day
  <2>4. FileOfOneDay'
    BY <1>0, <1>2, <2>2, <2>3 DEF FileOfOneDay
  <2> QED
    BY <2>1, <2>4 DEF FileInv
<1>3. Increment(count) \in Int
  BY <1>0, LogFileAssumption DEF Increment
<1> QED
  BY <1>1, <1>2, <1>3 DEF Append

\* Every step keeps it: only Append touches the files.
LEMMA NextFile == IInv /\ FileInv /\ [Next]_vars => FileInv'
<1>1. ASSUME UNCHANGED <<count, start_period, last_roll, last_append, earlier>>, FileInv
      PROVE  FileInv'
  BY <1>1 DEF FileInv, PeriodOfRoll, OpenedBefore, FileOfOneDay, Day
<1> QED
  BY <1>1, AppendFile DEF Next, Flush, Tick, vars

\* The constructor opens the first file.
LEMMA InitFile == Init => FileInv
<1> SUFFICES ASSUME Init PROVE FileInv
  OBVIOUS
<1>1. clock \in Nat /\ last_roll = clock /\ last_append = clock /\ earlier = {}
      /\ start_period = Day(clock)
  BY LogFileAssumption DEF Init
<1>2. Day(clock) \in Nat
  BY <1>1, DayType
<1> QED
  BY <1>1, <1>2 DEF FileInv, PeriodOfRoll, OpenedBefore, FileOfOneDay

\* Both parts of the invariant hold in every reachable state.
THEOREM FileInvariance == Spec => [](IInv /\ FileInv)
<1>1. Init => IInv /\ FileInv
  BY InitInv, InitFile
<1>2. IInv /\ FileInv /\ [Next]_vars => (IInv /\ FileInv)'
  BY NextInv, NextFile
<1> QED
  BY <1>1, <1>2, PTL DEF Spec

\* While count_ is at least check_every_n_, no Append leaves a file of an earlier
\* day open, also when the clock is set back (log_file.cpp:60-68).
THEOREM FilesAreOfOneDay == Spec => []FileOfOneDay
<1>1. IInv /\ FileInv => FileOfOneDay
  BY DEF FileInv
<1> QED
  BY <1>1, FileInvariance, PTL

\* Two seconds have the same local time only across its fall back.
LEMMA SameName ==
  ASSUME NEW t \in Nat, NEW r \in Nat, t < r, LocalTime(t) = LocalTime(r)
  PROVE  t < ZoneChange /\ ZoneChange <= r
<1>1. ZoneChange \in Nat /\ ZoneShift \in Nat
  BY LogFileAssumption
<1> QED
  BY <1>1 DEF LocalTime

\* A file is opened under a name that no earlier file has, unless the local time
\* has fallen back between the two or another thread's time got into the name of
\* one of them (log_file.cpp:37-43, 51, timestamp.cpp:28-37).
THEOREM FileNamesAreNew == Spec => []FileNameIsNew
<1>1. IInv /\ FileInv => FileNameIsNew
  <2> SUFFICES ASSUME IInv, FileInv, NEW f \in earlier, f.name = file_name,
                      f.name = LocalTime(f.at), file_name = LocalTime(last_roll)
               PROVE  f.at < ZoneChange /\ ZoneChange <= last_roll
    BY DEF FileNameIsNew
  <2>1. f.at \in Nat /\ last_roll \in Nat /\ f.at < last_roll
    BY DEF IInv, TypeOK, FileInv, OpenedBefore
  <2>2. LocalTime(f.at) = LocalTime(last_roll)
    OBVIOUS
  <2> QED
    BY <2>1, <2>2, SameName
<1> QED
  BY <1>1, FileInvariance, PTL
=============================================================================
