----------------------------- MODULE LoggerProofs -----------------------------
(***************************************************************************)
(* Proofs about Logger for any number of threads, lines and pieces and any *)
(* buffer size: a line stays inside its buffer, shows its own time unless  *)
(* localtime was raced, and a FATAL one is written before the process ends;*)
(* a number in it reads back as what was streamed.                         *)
(***************************************************************************)
EXTENDS Logger, SequenceTheorems, WellFoundedInduction, TLAPS

\* A LogStream that has room for one more byte.
Streams == [len : 0 .. BufferSize - 1, kept : Seq(Piece)]

Logs == [pc : {"idle", "format", "stream", "output", "flush", "abort"}, level : Level,
         second : Nat, shown : Nat, stream : Streams, pieces : Nat]
Caches == [last : Nat, str : Nat, raced : BOOLEAN]
Lines == [by : Thread, level : Level]

TypeInv ==
  /\ clock \in Nat /\ tm \in [second : Nat, by : Thread \cup {NoThread}]
  /\ cache \in [Thread -> Caches] /\ log \in [Thread -> Logs]
  /\ stdout \in [buffered : SUBSET Lines, written : SUBSET Lines]
  /\ memory \in SUBSET Lines

\* A line that could not be ended has used all bytes but one.
Ended == \A t \in Thread :
  log[t].pc = "output" /\ Last(log[t].stream.kept) # End => log[t].stream.len = BufferSize - 1

\* Between localtime and the use of its result the thread's own call, if it is the
\* last one, was for the second of its line; else the cached text belongs to the
\* cached second.
TimesMatch == \A t \in Thread :
  IF log[t].pc = "format"
  THEN cache[t].last = log[t].second /\ (tm.by = t => tm.second = log[t].second)
  ELSE ~cache[t].raced => cache[t].str = cache[t].last

\* A FATAL line is on its way to where it can be seen.
FatalLine(t) == [by |-> t, level |-> "FATAL"]
FatalOnItsWay == \A t \in Thread :
  log[t].pc = "flush" => FatalLine(t) \in stdout.buffered \cup stdout.written \cup memory

\* The inductive invariant.
IInv == /\ TypeInv /\ Ended /\ TimesMatch /\ OwnTimeUnlessRaced
        /\ FatalOnItsWay /\ FatalIsWritten

-----------------------------------------------------------------------------
(* The stream.                                                             *)

\* A number or text that fits leaves a byte free.
LEMMA PutType ==
  ASSUME NEW s \in Streams, NEW p \in Piece
  PROVE  Put(s, p) \in Streams
<1> USE LogStreamAssumption
<1>1. /\ s.len \in 0 .. BufferSize - 1 /\ s.kept \in Seq(Piece)
      /\ Len(p.text) \in Nat /\ p.kind \in {"integer", "pointer"} => Len(p.text) < MaxNumericSize
  BY DEF Streams, Piece
<1>2. CASE Fits(s, p)
  <2>1. s.len + Len(p.text) \in 0 .. BufferSize - 1
    BY <1>1, <1>2 DEF Fits, Avail
  <2>2. Append(s.kept, p) \in Seq(Piece)
    BY <1>1
  <2> QED
    BY <1>2, <2>1, <2>2 DEF Put, Streams
<1>3. CASE ~Fits(s, p)
  BY <1>3 DEF Put
<1> QED
  BY <1>2, <1>3

\* The newline is kept unless only one byte is left.
LEMMA PutEnd ==
  ASSUME NEW s \in Streams
  PROVE  /\ End \in Piece
         /\ Last(Put(s, End).kept) # End => Put(s, End).len = BufferSize - 1
<1> USE LogStreamAssumption
<1>1. s.len \in 0 .. BufferSize - 1 /\ s.kept \in Seq(Piece)
  BY DEF Streams
<1>2. End.kind = "end" /\ Len(End.text) = 1 /\ End.text \in Seq(Nat) /\ End.val = 0
  BY DEF End, NewLine
<1>3. End \in Piece
  BY <1>2 DEF End, Piece
<1>4. CASE Fits(s, End)
  <2>1. Put(s, End).kept = Append(s.kept, End)
    BY <1>4 DEF Put
  <2>2. Last(Append(s.kept, End)) = End
    BY <1>1, <1>3 DEF Last
  <2> QED
    BY <1>3, <2>1, <2>2
<1>5. CASE ~Fits(s, End)
  <2>1. Put(s, End) = s /\ ~(BufferSize - s.len > 1)
    BY <1>2, <1>5 DEF Put, Fits, Avail
  <2> QED
    BY <1>1, <1>3, <2>1
<1> QED
  BY <1>4, <1>5

\* Every non-empty set of naturals has a least element.
LEMMA LeastNat ==
  ASSUME NEW S \in SUBSET Nat, S # {}
  PROVE  \E m \in S : \A i \in S : m <= i
<1>1. PICK x \in S : \A y \in S : ~(<<y, x>> \in OpToRel(<, Nat))
  BY WFMin, NatLessThanWellFounded
<1>2. \A y \in S : ~(y < x)
  BY <1>1 DEF OpToRel
<1> QED
  BY <1>2

\* f gives the stream after each piece: the recursive function of PutAll, up to n.
After(s, pieces, n, f) ==
  f = [i \in 0 .. n |-> IF i = 0 THEN s ELSE Put(f[i - 1], pieces[i])]

\* There is such a function for every n.
LEMMA AfterExists ==
  ASSUME NEW s, NEW pieces, NEW n \in Nat
  PROVE  \E f : After(s, pieces, n, f)
<1> DEFINE S == {k \in Nat : ~\E f : After(s, pieces, k, f)}
<1>1. SUFFICES ASSUME S # {} PROVE FALSE
  OBVIOUS
<1>2. PICK m \in S : \A k \in S : m <= k
  BY <1>1, LeastNat
<1>3. m # 0
  <2> DEFINE f == [i \in 0 .. 0 |-> s]
  <2>1. After(s, pieces, 0, f)
    BY DEF After
  <2> QED
    BY <1>2, <2>1
<1>4. m - 1 \in Nat /\ m \in Nat /\ m - 1 \notin S
  BY <1>2, <1>3
<1>5. PICK f : After(s, pieces, m - 1, f)
  BY <1>4
<1>6. PICK g : g = [i \in 0 .. m |-> IF i = m THEN Put(f[m - 1], pieces[m]) ELSE f[i]]
  OBVIOUS
<1>7. \A j \in 0 .. m - 1 : g[j] = f[j]
  <2>1. \A j \in 0 .. m - 1 : j \in 0 .. m /\ j # m
    BY <1>4
  <2> QED
    BY <1>6, <2>1
<1>8. ASSUME NEW i \in 0 .. m PROVE g[i] = IF i = 0 THEN s ELSE Put(g[i - 1], pieces[i])
  <2>1. CASE i = m
    <3>1. m \in 0 .. m /\ m - 1 \in 0 .. m - 1
      BY <1>3, <1>4
    <3>2. g[m] = Put(f[m - 1], pieces[m]) /\ g[m - 1] = f[m - 1]
      BY <1>6, <1>7, <3>1
    <3> QED
      BY <1>3, <2>1, <3>2
  <2>2. CASE i # m
    <3>1. i \in 0 .. m - 1 /\ (i # 0 => i - 1 \in 0 .. m - 1)
      BY <1>4, <2>2
    <3>2. f[i] = IF i = 0 THEN s ELSE Put(f[i - 1], pieces[i])
      BY <1>5, <3>1 DEF After
    <3> QED
      BY <1>7, <3>1, <3>2
  <2> QED
    BY <2>1, <2>2
<1>9. After(s, pieces, m, g)
  <2>1. g = [i \in 0 .. m |-> IF i = 0 THEN s ELSE Put(g[i - 1], pieces[i])]
    BY <1>6, <1>8
  <2> QED
    BY <2>1 DEF After
<1> QED
  BY <1>2, <1>9

\* A header of any length leaves a byte free.
LEMMA PutAllType ==
  ASSUME NEW s \in Streams, NEW pieces \in Seq(Piece)
  PROVE  PutAll(s, pieces) \in Streams
<1>1. PICK n \in Nat : n = Len(pieces) /\ \A i \in 1 .. n : pieces[i] \in Piece
  BY LenProperties, ElementOfSeq
<1>2. \E f : f = [i \in 0 .. n |-> IF i = 0 THEN s ELSE Put(f[i - 1], pieces[i])]
  <2>1. \E f : After(s, pieces, n, f)
    BY <1>1, AfterExists
  <2> QED
    BY <2>1 DEF After
<1>3. PICK f : /\ f = [i \in 0 .. n |-> IF i = 0 THEN s ELSE Put(f[i - 1], pieces[i])]
               /\ PutAll(s, pieces) = f[n]
  BY <1>1, <1>2 DEF PutAll
<1> DEFINE S == {i \in 0 .. n : f[i] \notin Streams}
<1>4. ASSUME S # {} PROVE FALSE
  <2>1. S \in SUBSET Nat
    OBVIOUS
  <2>2. PICK m \in S : \A i \in S : m <= i
    BY <1>4, <2>1, LeastNat
  <2>3. m \in 0 .. n /\ f[m] \notin Streams
    BY <2>2
  <2>4. f[m] = IF m = 0 THEN s ELSE Put(f[m - 1], pieces[m])
    BY <1>3, <2>3
  <2>5. m # 0 /\ m \in 1 .. n /\ m - 1 \in 0 .. n /\ ~(m <= m - 1)
    BY <2>3, <2>4
  <2>6. f[m - 1] \in Streams
    BY <2>2, <2>5
  <2> QED
    BY <1>1, <2>3, <2>4, <2>5, <2>6, PutType
<1>5. n \in 0 .. n
  BY <1>1
<1> QED
  BY <1>3, <1>4, <1>5

-----------------------------------------------------------------------------
(* The header.                                                             *)

LEMMA HeaderType ==
  ASSUME NEW macro \in Macros
  PROVE  /\ LevelOf(macro) \in Level
         /\ \A header \in Headers(macro) : PutAll(Empty, header) \in Streams
<1>1. macro \in {"LOG_DEBUG", "LOG_INFO", "LOG_WARN", "LOG_ERROR", "LOG_FATAL",
                 "LOG_SYS_ERROR", "LOG_SYS_FATAL"}
  BY LoggerAssumption
<1>2. LevelOf(macro) \in Level
  BY <1>1 DEF LevelOf, SysLevel, Level
<1>3. Text(TimeLen) \in Piece
  <2>1. TimeLen \in Int /\ [i \in 1 .. TimeLen |-> LetterX] \in Seq(Nat)
    BY LoggerAssumption DEF LetterX
  <2> QED
    BY <2>1 DEF Text, Piece
<1>4. Headers(macro) \subseteq Seq(Piece)
  <2>1. PICK plain : plain = <<Text(TimeLen)>> \o Place
    OBVIOUS
  <2>2. plain \in Seq(Piece)
    BY <1>3, <2>1, PiecesAssumption
  <2>3. plain \o ErrorText \in Seq(Piece)
    BY <2>2, PiecesAssumption
  <2> QED
    BY <2>1, <2>2, <2>3 DEF Headers
<1>5. Empty \in Streams
  BY LogStreamAssumption DEF Empty, Streams
<1> QED
  BY <1>2, <1>4, <1>5, PutAllType

-----------------------------------------------------------------------------
(* The invariant.                                                          *)

LEMMA IdleType == Idle \in Logs /\ \A t \in Thread : [Idle EXCEPT !.pc = AfterOutput(t)] \in Logs
<1>1. Empty \in Streams
  BY LogStreamAssumption DEF Empty, Streams
<1>2. \A t \in Thread : AfterOutput(t) \in {"flush", "idle"}
  BY DEF AfterOutput
<1> QED
  BY <1>1, <1>2 DEF Idle, Logs, Level

LEMMA InitInv == Init => IInv
<1> SUFFICES ASSUME Init PROVE IInv
  OBVIOUS
<1>1. \A t \in Thread : log[t] = Idle /\ log[t].pc = "idle"
  BY DEF Init, Idle
<1>2. \A t \in Thread : cache[t] = [last |-> 0, str |-> 0, raced |-> FALSE]
  BY DEF Init
<1>3. TypeInv
  BY IdleType DEF Init, TypeInv, Caches, Lines
<1>4. TimesMatch
  BY <1>1, <1>2 DEF TimesMatch
<1> QED
  BY <1>1, <1>3, <1>4 DEF IInv, Ended, OwnTimeUnlessRaced, FatalOnItsWay, FatalIsWritten

\* A LOG_ statement shows the cached time of this second, or has the static buffer
\* filled and takes it from whoever waits to read it.
LEMMA LogInv ==
  ASSUME IInv, NEW t \in Thread, NEW macro \in Macros, Log(t, macro)
  PROVE  IInv'
<1> USE DEF IInv
<1>1. PICK stream \in Streams :
        log' = [log EXCEPT ![t] =
          [pc |-> IF TimeChanged(t) THEN "format" ELSE "stream", level |-> LevelOf(macro),
           second |-> clock, shown |-> cache[t].str, stream |-> stream, pieces |-> 0]]
  BY HeaderType DEF Log
<1>2. /\ log \in [Thread -> Logs] /\ cache \in [Thread -> Caches] /\ clock \in Nat
      /\ cache[t].str \in Nat /\ cache[t].last \in Nat /\ log[t].pc = "idle"
      /\ tm \in [second : Nat, by : Thread \cup {NoThread}]
  BY DEF TypeInv, Log, Caches
<1>3. /\ log'[t] = [pc |-> IF TimeChanged(t) THEN "format" ELSE "stream",
                    level |-> LevelOf(macro), second |-> clock, shown |-> cache[t].str,
                    stream |-> stream, pieces |-> 0]
      /\ \A u \in Thread : u # t => log'[u] = log[u]
  BY <1>1, <1>2
<1>4. \A u \in Thread : u # t => cache'[u] = cache[u]
  BY <1>2 DEF Log
<1>5. TypeInv'
  <2>1. log'[t] \in Logs
    BY <1>2, <1>3, HeaderType DEF Logs
  <2>2. log' \in [Thread -> Logs]
    BY <1>1, <1>2, <1>3, <2>1
  <2>3. cache' \in [Thread -> Caches]
    BY <1>2 DEF Log, Caches
  <2>4. tm' \in [second : Nat, by : Thread \cup {NoThread}]
    BY <1>2 DEF Log
  <2> QED
    BY <2>2, <2>3, <2>4 DEF TypeInv, Log
<1>6. Ended'
  BY <1>3 DEF Ended
<1>7. TimesMatch' /\ OwnTimeUnlessRaced'
  <2>1. CASE TimeChanged(t)
    <3>1. cache'[t].last = clock /\ tm' = [second |-> clock, by |-> t]
      BY <1>2, <2>1 DEF Log, Caches
    <3> QED
      BY <1>3, <1>4, <2>1, <3>1 DEF TimesMatch, OwnTimeUnlessRaced
  <2>2. CASE ~TimeChanged(t)
    <3>1. cache' = cache /\ tm' = tm /\ cache[t].last = clock
      BY <2>2 DEF Log, TimeChanged
    <3> QED
      <4>1. cache[t].raced \in BOOLEAN /\ log[t].pc # "format"
        BY <1>2 DEF Caches
      <4>2. ~cache[t].raced => cache[t].str = clock
        BY <3>1, <4>1 DEF TimesMatch
      <4>3. log'[t].pc = "stream" /\ log'[t].second = clock /\ log'[t].shown = cache[t].str
        BY <1>3, <2>2
      <4> QED
        BY <1>3, <3>1, <4>1, <4>2, <4>3 DEF TimesMatch, OwnTimeUnlessRaced
  <2> QED
    BY <2>1, <2>2
<1>8. FatalOnItsWay' /\ FatalIsWritten'
  BY <1>3 DEF Log, FatalOnItsWay, FatalIsWritten
<1> QED
  BY <1>5, <1>6, <1>7, <1>8

\* The others touch the line of one thread, and move lines on their way out.
LEMMA FormatInv ==
  ASSUME IInv, NEW t \in Thread, Format(t)
  PROVE  IInv'
<1> USE DEF IInv
<1>1. /\ log \in [Thread -> Logs] /\ cache \in [Thread -> Caches] /\ log[t].pc = "format"
      /\ tm.second \in Nat
  BY DEF TypeInv, Format
<1>2. /\ log'[t] = [log[t] EXCEPT !.pc = "stream", !.shown = tm.second]
      /\ \A u \in Thread : u # t => log'[u] = log[u] /\ cache'[u] = cache[u]
      /\ cache'[t] = [cache[t] EXCEPT !.str = tm.second, !.raced = (tm.by # t)]
  BY <1>1 DEF Format, Logs, Caches
<1>3. /\ log'[t].pc = "stream" /\ log'[t].shown = tm.second
      /\ log'[t].second = log[t].second
  BY <1>1, <1>2 DEF Logs
<1>4. /\ cache'[t].str = tm.second /\ cache'[t].raced = (tm.by # t)
      /\ cache'[t].last = cache[t].last
  BY <1>1, <1>2 DEF Caches
<1>5. TypeInv'
  <2>1. log'[t] \in Logs /\ cache'[t] \in Caches
    BY <1>1, <1>2 DEF Logs, Caches
  <2> QED
    BY <1>1, <1>2, <2>1 DEF TypeInv, Format
<1>6. Ended'
  BY <1>2, <1>3 DEF Ended
<1>7. TimesMatch' /\ OwnTimeUnlessRaced'
  <2>1. cache[t].last = log[t].second /\ (tm.by = t => tm.second = log[t].second)
    BY <1>1 DEF TimesMatch
  <2>2. ~cache'[t].raced => cache'[t].str = cache'[t].last /\ log'[t].shown = log'[t].second
    BY <1>3, <1>4, <2>1
  <2>3. tm' = tm
    BY DEF Format
  <2>4. \A u \in Thread : u # t => log'[u] = log[u] /\ cache'[u] = cache[u]
    BY <1>2
  <2>5. TimesMatch'
    BY <1>3, <2>2, <2>3, <2>4 DEF TimesMatch
  <2>6. OwnTimeUnlessRaced'
    BY <2>2, <2>4 DEF OwnTimeUnlessRaced
  <2> QED
    BY <2>5, <2>6
<1>8. FatalOnItsWay' /\ FatalIsWritten'
  BY <1>2, <1>3 DEF Format, FatalOnItsWay, FatalIsWritten
<1> QED
  BY <1>5, <1>6, <1>7, <1>8

LEMMA StreamInv ==
  ASSUME IInv, NEW t \in Thread, NEW piece \in Pieces, Stream(t, piece)
  PROVE  IInv'
<1> USE DEF IInv
<1>1. log \in [Thread -> Logs] /\ log[t] \in Logs /\ log[t].pc = "stream"
  BY DEF TypeInv, Stream
<1>2. Put(log[t].stream, piece) \in Streams /\ log[t].pieces + 1 \in Nat
  <2>1. log[t].stream \in Streams /\ piece \in Piece /\ log[t].pieces \in Nat
    BY <1>1, PiecesAssumption DEF Logs
  <2> QED
    BY <2>1, PutType
<1>3. /\ log'[t] = [log[t] EXCEPT !.stream = Put(log[t].stream, piece),
                                  !.pieces = log[t].pieces + 1]
      /\ \A u \in Thread : u # t => log'[u] = log[u]
      /\ log' = [log EXCEPT ![t] = log'[t]]
  BY <1>1 DEF Stream
<1>4. /\ log'[t].pc = "stream" /\ log'[t].shown = log[t].shown
      /\ log'[t].second = log[t].second /\ log'[t] \in Logs
  BY <1>1, <1>2, <1>3 DEF Logs
<1>5. TypeInv'
  BY <1>1, <1>3, <1>4 DEF TypeInv, Stream
<1>6. Ended'
  BY <1>3, <1>4 DEF Ended
<1>7. TimesMatch' /\ OwnTimeUnlessRaced'
  BY <1>1, <1>3, <1>4 DEF TimesMatch, OwnTimeUnlessRaced, Stream
<1>8. FatalOnItsWay' /\ FatalIsWritten'
  BY <1>3, <1>4 DEF Stream, FatalOnItsWay, FatalIsWritten
<1> QED
  BY <1>5, <1>6, <1>7, <1>8

LEMMA FinishInv ==
  ASSUME IInv, NEW t \in Thread, Finish(t)
  PROVE  IInv'
<1> USE DEF IInv
<1>1. log \in [Thread -> Logs] /\ log[t] \in Logs /\ log[t].pc = "stream"
  BY DEF TypeInv, Finish
<1> DEFINE line == Put(log[t].stream, End)
<1>2. line \in Streams /\ (Last(line.kept) # End => line.len = BufferSize - 1)
  BY <1>1, PutType, PutEnd DEF Logs
<1>3. /\ log'[t] = [log[t] EXCEPT !.pc = "output", !.stream = line]
      /\ \A u \in Thread : u # t => log'[u] = log[u]
      /\ log' = [log EXCEPT ![t] = log'[t]]
  BY <1>1 DEF Finish
<1>4. /\ log'[t].pc = "output" /\ log'[t].shown = log[t].shown /\ log'[t].stream = line
      /\ log'[t].second = log[t].second /\ log'[t] \in Logs
  BY <1>1, <1>2, <1>3 DEF Logs
<1>5. TypeInv'
  BY <1>1, <1>3, <1>4 DEF TypeInv, Finish
<1>6. Ended'
  BY <1>2, <1>3, <1>4 DEF Ended
<1>7. TimesMatch' /\ OwnTimeUnlessRaced'
  BY <1>1, <1>3, <1>4 DEF TimesMatch, OwnTimeUnlessRaced, Finish
<1>8. FatalOnItsWay' /\ FatalIsWritten'
  BY <1>3, <1>4 DEF Finish, FatalOnItsWay, FatalIsWritten
<1> QED
  BY <1>5, <1>6, <1>7, <1>8

\* A FATAL line that leaves its Logger is in stdout's buffer or in memory.
LEMMA OutputInv ==
  ASSUME IInv, NEW t \in Thread, Output(t)
  PROVE  IInv'
<1> USE DEF IInv
<1>1. /\ log \in [Thread -> Logs] /\ log[t] \in Logs /\ log[t].pc = "output"
      /\ stdout \in [buffered : SUBSET Lines, written : SUBSET Lines] /\ memory \in SUBSET Lines
  BY DEF TypeInv, Output
<1> DEFINE line == [by |-> t, level |-> log[t].level]
<1>2. /\ log'[t] = [Idle EXCEPT !.pc = AfterOutput(t)] /\ log'[t] \in Logs
      /\ \A u \in Thread : u # t => log'[u] = log[u]
      /\ log' = [log EXCEPT ![t] = log'[t]]
  BY <1>1, IdleType DEF Output
<1>3. log'[t].pc = IF log[t].level = "FATAL" THEN "flush" ELSE "idle"
  BY <1>2 DEF Idle, AfterOutput
<1>4. line \in Lines
  BY <1>1 DEF Lines, Logs
<1>5. /\ stdout'.written = stdout.written /\ stdout.buffered \subseteq stdout'.buffered
      /\ memory \subseteq memory' /\ line \in stdout'.buffered \cup memory'
      /\ stdout' \in [buffered : SUBSET Lines, written : SUBSET Lines]
      /\ memory' \in SUBSET Lines
  BY <1>1, <1>4 DEF Output
<1>6. TypeInv'
  BY <1>1, <1>2, <1>5 DEF TypeInv, Output
<1>7. Ended'
  BY <1>2, <1>3 DEF Ended
<1>8. TimesMatch' /\ OwnTimeUnlessRaced'
  BY <1>1, <1>2, <1>3 DEF TimesMatch, OwnTimeUnlessRaced, Output
<1>9. FatalOnItsWay'
  <2>1. log'[t].pc = "flush" => FatalLine(t) = line
    BY <1>3 DEF FatalLine
  <2> QED
    BY <1>2, <1>5, <2>1 DEF FatalOnItsWay, FatalLine
<1>10. FatalIsWritten'
  BY <1>2, <1>3, <1>5 DEF FatalIsWritten
<1> QED
  BY <1>6, <1>7, <1>8, <1>9, <1>10

\* What is flushed is written.
LEMMA FlushedLines ==
  ASSUME TypeInv, stdout' = Flushed
  PROVE  /\ stdout' \in [buffered : SUBSET Lines, written : SUBSET Lines]
         /\ stdout.buffered \cup stdout.written \subseteq stdout'.written
BY DEF TypeInv, Flushed

LEMMA FlushInv ==
  ASSUME IInv, NEW t \in Thread, Flush(t)
  PROVE  IInv'
<1> USE DEF IInv
<1>1. log \in [Thread -> Logs] /\ log[t] \in Logs /\ log[t].pc = "flush"
  BY DEF TypeInv, Flush
<1>2. /\ log'[t] = [log[t] EXCEPT !.pc = "abort"]
      /\ \A u \in Thread : u # t => log'[u] = log[u]
      /\ log' = [log EXCEPT ![t] = log'[t]]
  BY <1>1 DEF Flush
<1>3. log'[t].pc = "abort" /\ log'[t] \in Logs
  BY <1>1, <1>2 DEF Logs
<1>4. /\ stdout' \in [buffered : SUBSET Lines, written : SUBSET Lines]
      /\ stdout.buffered \cup stdout.written \subseteq stdout'.written /\ memory' = memory
  BY FlushedLines DEF Flush
<1>5. TypeInv'
  BY <1>1, <1>2, <1>3, <1>4 DEF TypeInv, Flush
<1>6. Ended'
  BY <1>2, <1>3 DEF Ended
<1>7. TimesMatch' /\ OwnTimeUnlessRaced'
  BY <1>1, <1>2, <1>3 DEF TimesMatch, OwnTimeUnlessRaced, Flush
<1>8. FatalOnItsWay'
  BY <1>2, <1>3, <1>4 DEF FatalOnItsWay
<1>9. FatalIsWritten'
  <2>1. FatalLine(t) \in stdout'.written \cup memory'
    BY <1>1, <1>4 DEF FatalOnItsWay
  <2> QED
    BY <1>2, <1>4, <2>1 DEF FatalIsWritten, FatalLine
<1> QED
  BY <1>5, <1>6, <1>7, <1>8, <1>9

\* What happens around the loggers leaves them alone.
LEMMA AroundInv ==
  ASSUME IInv,
         \/ \E t \in Thread : Abort(t)
         \/ SetLogLevel \/ SetDefaultSingletonAsyncLogging \/ StdioWrites \/ Tick
         \/ UNCHANGED vars
  PROVE  IInv'
<1> USE DEF IInv
<1>1. /\ tm' = tm /\ cache' = cache /\ log' = log /\ memory' = memory
      /\ clock' = clock \/ clock' \in 1 .. MaxClock
      /\ stdout' = stdout \/ stdout' = Flushed
  BY DEF Abort, SetLogLevel, SetDefaultSingletonAsyncLogging, StdioWrites, Tick, vars
<1>2. /\ stdout' \in [buffered : SUBSET Lines, written : SUBSET Lines]
      /\ stdout.written \subseteq stdout'.written
      /\ stdout.buffered \cup stdout.written \subseteq stdout'.buffered \cup stdout'.written
  BY <1>1, FlushedLines DEF TypeInv
<1>3. TypeInv'
  BY <1>1, <1>2, LoggerAssumption DEF TypeInv
<1>4. Ended' /\ TimesMatch' /\ OwnTimeUnlessRaced'
  BY <1>1 DEF Ended, TimesMatch, OwnTimeUnlessRaced
<1>5. FatalOnItsWay' /\ FatalIsWritten'
  BY <1>1, <1>2 DEF FatalOnItsWay, FatalIsWritten
<1> QED
  BY <1>3, <1>4, <1>5

\* The invariant holds in every state that is reached.
THEOREM Invariance == Spec => []IInv
<1>1. ASSUME IInv, [Next]_vars PROVE IInv'
  BY <1>1, LogInv, FormatInv, StreamInv, FinishInv, OutputInv, FlushInv, AroundInv
     DEF Next, Over
<1> QED
  BY <1>1, InitInv, PTL DEF Spec

-----------------------------------------------------------------------------
(* The theorems.                                                           *)

\* A line never fills the buffer to its last byte, and one whose newline was left
\* out has used all bytes but that one (fixed_buffer.h:22-29, log_stream.cpp:74, 99,
\* 133, logger.cpp:176).
THEOREM LinesFit == Spec => []LineFits
<1>1. IInv => LineFits
  <2> SUFFICES ASSUME IInv, NEW t \in Thread
               PROVE  /\ log[t].stream.len < BufferSize
                      /\ log[t].pc = "output" /\ Last(log[t].stream.kept) # End
                           => log[t].stream.len = BufferSize - 1
    BY DEF LineFits
  <2>1. log[t].stream.len \in 0 .. BufferSize - 1
    BY DEF IInv, TypeInv, Logs, Streams
  <2> QED
    BY <2>1, LogStreamAssumption DEF IInv, Ended
<1> QED
  BY <1>1, Invariance, PTL

\* A line shows the second its timestamp was taken in unless another thread called
\* localtime before the result was used, however the clock is set
\* (logger.cpp:161-173, timestamp.cpp:28-37).
THEOREM LinesShowTheirTime == Spec => []OwnTimeUnlessRaced
<1>1. IInv => OwnTimeUnlessRaced
  BY DEF IInv
<1> QED
  BY <1>1, Invariance, PTL

\* A FATAL line is written, or handed to AsyncLogging, before the process is aborted,
\* whoever exchanges the output or flushes meanwhile (logger.cpp:89-97).
THEOREM FatalLinesAreWritten == Spec => []FatalIsWritten
<1>1. IInv => FatalIsWritten
  BY DEF IInv
<1> QED
  BY <1>1, Invariance, PTL

-----------------------------------------------------------------------------
(* Numbers.                                                                *)

Abs(n) == IF n < 0 THEN -n ELSE n

\* Division towards zero gives a digit, and comes nearer to 0, on both sides of 0.
LEMMA Division ==
  ASSUME NEW base \in {10, 16}, NEW n \in Int
  PROVE  /\ Quot(n, base) \in Int /\ Zero(Rem(n, base)) \in 0 .. base - 1
         /\ Abs(n) \in Nat /\ Abs(Quot(n, base)) \in Nat
         /\ Abs(n) = base * Abs(Quot(n, base)) + Zero(Rem(n, base))
         /\ Quot(n, base) # 0 => Abs(Quot(n, base)) < Abs(n)
<1>1. CASE base = 10
  BY <1>1 DEF Quot, Rem, Zero, Abs
<1>2. CASE base = 16
  BY <1>2 DEF Quot, Rem, Zero, Abs
<1> QED
  BY <1>1, <1>2

\* f gives the digits of the numbers up to k, lowest first: the loop's recursion.
Step(n, base, rest) ==
  <<Zero(Rem(n, base))>> \o (IF Quot(n, base) = 0 THEN <<>> ELSE rest)
Digits(base, k, f) == f = [n \in -k .. k |-> Step(n, base, f[Quot(n, base)])]

\* Two such functions agree where both are defined.
LEMMA DigitsSame ==
  ASSUME NEW base \in {10, 16}, NEW k \in Nat, NEW m \in Nat, NEW f, NEW g,
         Digits(base, k, f), Digits(base, m, g), NEW n \in Int, Abs(n) <= k, Abs(n) <= m
  PROVE  f[n] = g[n]
<1> DEFINE S == {i \in Nat : \E j \in Int : /\ Abs(j) = i /\ i <= k /\ i <= m
                                            /\ f[j] # g[j]}
<1>1. SUFFICES ASSUME S # {} PROVE FALSE
  BY Division
<1>2. PICK i \in S : \A j \in S : i <= j
  BY <1>1, LeastNat
<1>3. PICK j \in Int : Abs(j) = i /\ i <= k /\ i <= m /\ f[j] # g[j]
  BY <1>2
<1>4. i \in Nat /\ j \in -k .. k /\ j \in -m .. m
  BY <1>2, <1>3 DEF Abs
<1>5. f[j] = Step(j, base, f[Quot(j, base)]) /\ g[j] = Step(j, base, g[Quot(j, base)])
  BY <1>4 DEF Digits
<1>6. Quot(j, base) # 0
  BY <1>3, <1>5 DEF Step
<1>7. PICK q \in Int : q = Quot(j, base) /\ Abs(q) \in Nat /\ Abs(q) < i
  BY <1>3, <1>6, Division
<1>8. Abs(q) \notin S
  BY <1>2, <1>4, <1>7
<1>9. f[q] = g[q]
  BY <1>3, <1>4, <1>7, <1>8
<1> QED
  BY <1>3, <1>5, <1>7, <1>9

\* There is such a function for every k.
LEMMA DigitsExist ==
  ASSUME NEW base \in {10, 16}, NEW k \in Nat
  PROVE  \E f : Digits(base, k, f)
<1> DEFINE S == {i \in Nat : ~\E f : Digits(base, i, f)}
<1>1. SUFFICES ASSUME S # {} PROVE FALSE
  OBVIOUS
<1>2. PICK m \in S : \A i \in S : m <= i
  BY <1>1, LeastNat
<1>3. m # 0
  <2> DEFINE f == [n \in -0 .. 0 |-> Step(0, base, <<>>)]
  <2>1. \A n \in -0 .. 0 : n = 0 /\ Quot(n, base) = 0
    BY Division DEF Abs
  <2>2. \A n \in -0 .. 0 : Step(n, base, f[Quot(n, base)]) = Step(0, base, <<>>)
    BY <2>1 DEF Step
  <2>3. f = [n \in -0 .. 0 |-> Step(n, base, f[Quot(n, base)])]
    BY <2>2
  <2>4. Digits(base, 0, f)
    BY <2>3 DEF Digits
  <2> QED
    BY <1>2, <2>4
<1>4. m \in Nat /\ m - 1 \in Nat /\ m - 1 \notin S
  BY <1>2, <1>3
<1>5. PICK f : Digits(base, m - 1, f)
  BY <1>4
<1>6. PICK g : g = [n \in -m .. m |-> IF n \in -(m - 1) .. m - 1 THEN f[n]
                                     ELSE Step(n, base, f[Quot(n, base)])]
  OBVIOUS
<1>7. ASSUME NEW n \in -m .. m PROVE g[n] = Step(n, base, g[Quot(n, base)])
  <2>1. g[n] = Step(n, base, f[Quot(n, base)])
    BY <1>5, <1>6 DEF Digits
  <2>2. PICK q \in Int : q = Quot(n, base) /\ Abs(q) \in Nat /\ (q # 0 => Abs(q) < Abs(n))
    <3>1. n \in Int
      BY <1>4
    <3> QED
      BY <3>1, Division
  <2>3. q # 0 => q \in -(m - 1) .. m - 1 /\ q \in -m .. m
    BY <1>4, <2>2 DEF Abs
  <2>4. q # 0 => g[q] = f[q]
    BY <1>6, <2>3
  <2> QED
    BY <2>1, <2>2, <2>4 DEF Step
<1>8. g = [n \in -m .. m |-> Step(n, base, g[Quot(n, base)])]
  BY <1>6, <1>7
<1> QED
  BY <1>2, <1>8 DEF Digits

\* The digits of a number are its lowest and the digits of the quotient.
LEMMA LowFirstRule ==
  ASSUME NEW base \in {10, 16}, NEW n \in Int
  PROVE  LowFirst(n, base) = Step(n, base, LowFirst(Quot(n, base), base))
<1> DEFINE d(i) == CHOOSE f : Digits(base, Abs(i), f)
<1>1. ASSUME NEW i \in Int PROVE Abs(i) \in Nat /\ Digits(base, Abs(i), d(i))
  BY Division, DigitsExist
<1> HIDE DEF d
<1>2. PICK g : g = [i \in Int |-> d(i)[i]]
  OBVIOUS
<1>3. ASSUME NEW i \in Int PROVE g[i] = Step(i, base, g[Quot(i, base)])
  <2>1. i \in -Abs(i) .. Abs(i)
    BY DEF Abs
  <2>2. d(i)[i] = Step(i, base, d(i)[Quot(i, base)])
    BY <1>1, <2>1 DEF Digits
  <2>3. PICK q \in Int : q = Quot(i, base) /\ Abs(q) \in Nat /\ (q # 0 => Abs(q) <= Abs(i))
    <3>1. /\ Quot(i, base) \in Int /\ Abs(Quot(i, base)) \in Nat /\ Abs(i) \in Nat
          /\ Quot(i, base) # 0 => Abs(Quot(i, base)) < Abs(i)
      BY Division
    <3>2. \A a, b \in Nat : a < b => a <= b
      OBVIOUS
    <3> QED
      BY <3>1, <3>2
  <2>4. q # 0 => d(i)[q] = d(q)[q]
    BY <1>1, <2>3, DigitsSame
  <2> QED
    BY <1>2, <2>2, <2>3, <2>4 DEF Step
<1>4. g = [i \in Int |-> Step(i, base, g[Quot(i, base)])]
  BY <1>2, <1>3
<1>5. \E f : f = [i \in Int |-> <<Zero(Rem(i, base))>>
                    \o (IF Quot(i, base) = 0 THEN <<>> ELSE f[Quot(i, base)])]
  BY <1>4 DEF Step
<1>6. PICK f : /\ f = [i \in Int |-> <<Zero(Rem(i, base))>>
                    \o (IF Quot(i, base) = 0 THEN <<>> ELSE f[Quot(i, base)])]
               /\ \A i \in Int : LowFirst(i, base) = f[i]
  BY <1>5 DEF LowFirst
<1>7. Quot(n, base) \in Int
  BY Division
<1>8. LowFirst(n, base) = f[n] /\ LowFirst(Quot(n, base), base) = f[Quot(n, base)]
  BY <1>6, <1>7
<1>9. f[n] = <<Zero(Rem(n, base))>> \o (IF Quot(n, base) = 0 THEN <<>> ELSE f[Quot(n, base)])
  BY <1>6
<1> QED
  BY <1>8, <1>9 DEF Step

\* f gives the values of the beginnings of s: the recursive function of Value.
Values(s, base, n, f) == f = [i \in 0 .. n |-> IF i = 0 THEN 0 ELSE base * f[i - 1] + s[i]]

LEMMA ValuesExist ==
  ASSUME NEW s, NEW base, NEW n \in Nat
  PROVE  \E f : Values(s, base, n, f)
<1> DEFINE S == {k \in Nat : ~\E f : Values(s, base, k, f)}
<1>1. SUFFICES ASSUME S # {} PROVE FALSE
  OBVIOUS
<1>2. PICK m \in S : \A k \in S : m <= k
  BY <1>1, LeastNat
<1>3. m # 0
  <2> DEFINE f == [i \in 0 .. 0 |-> 0]
  <2>1. Values(s, base, 0, f)
    BY DEF Values
  <2> QED
    BY <1>2, <2>1
<1>4. m - 1 \in Nat /\ m \in Nat /\ m - 1 \notin S
  BY <1>2, <1>3
<1>5. PICK f : Values(s, base, m - 1, f)
  BY <1>4
<1>6. PICK g : g = [i \in 0 .. m |-> IF i = m THEN base * f[m - 1] + s[m] ELSE f[i]]
  OBVIOUS
<1>7. \A j \in 0 .. m - 1 : g[j] = f[j]
  <2>1. \A j \in 0 .. m - 1 : j \in 0 .. m /\ j # m
    BY <1>4
  <2> QED
    BY <1>6, <2>1
<1>8. ASSUME NEW i \in 0 .. m PROVE g[i] = IF i = 0 THEN 0 ELSE base * g[i - 1] + s[i]
  <2>1. CASE i = m
    <3>1. m \in 0 .. m /\ m - 1 \in 0 .. m - 1
      BY <1>3, <1>4
    <3>2. g[m] = base * f[m - 1] + s[m] /\ g[m - 1] = f[m - 1]
      BY <1>6, <1>7, <3>1
    <3> QED
      BY <1>3, <2>1, <3>2
  <2>2. CASE i # m
    <3>1. i \in 0 .. m - 1 /\ (i # 0 => i - 1 \in 0 .. m - 1)
      BY <1>4, <2>2
    <3>2. f[i] = IF i = 0 THEN 0 ELSE base * f[i - 1] + s[i]
      BY <1>5, <3>1 DEF Values
    <3> QED
      BY <1>7, <3>1, <3>2
  <2> QED
    BY <2>1, <2>2
<1>9. Values(s, base, m, g)
  <2>1. g = [i \in 0 .. m |-> IF i = 0 THEN 0 ELSE base * g[i - 1] + s[i]]
    BY <1>6, <1>8
  <2> QED
    BY <2>1 DEF Values
<1> QED
  BY <1>2, <1>9

\* Value is the last of these values.
LEMMA ValueFcn ==
  ASSUME NEW s, NEW base, NEW n \in Nat, Len(s) = n
  PROVE  \E f : Values(s, base, n, f) /\ Value(s, base) = f[n]
<1>1. \E f : f = [i \in 0 .. n |-> IF i = 0 THEN 0 ELSE base * f[i - 1] + s[i]]
  <2>1. \E f : Values(s, base, n, f)
    BY ValuesExist
  <2> QED
    BY <2>1 DEF Values
<1>2. \E f : /\ f = [i \in 0 .. n |-> IF i = 0 THEN 0 ELSE base * f[i - 1] + s[i]]
             /\ Value(s, base) = f[n]
  BY <1>1 DEF Value
<1> QED
  BY <1>2 DEF Values

\* Sequences that begin alike have the same values there.
LEMMA ValuesSame ==
  ASSUME NEW s, NEW t, NEW base, NEW n \in Nat, NEW m \in Nat, n <= m, NEW f, NEW g,
         Values(s, base, n, f), Values(t, base, m, g), \A i \in 1 .. n : s[i] = t[i]
  PROVE  f[n] = g[n]
<1> DEFINE S == {i \in 0 .. n : f[i] # g[i]}
<1>1. ASSUME S # {} PROVE FALSE
  <2>1. S \in SUBSET Nat
    OBVIOUS
  <2>2. PICK k \in S : \A i \in S : k <= i
    BY <1>1, <2>1, LeastNat
  <2>3. k \in 0 .. n /\ k \in 0 .. m /\ f[k] # g[k]
    BY <2>2
  <2>4. /\ f[k] = IF k = 0 THEN 0 ELSE base * f[k - 1] + s[k]
        /\ g[k] = IF k = 0 THEN 0 ELSE base * g[k - 1] + t[k]
    BY <2>3 DEF Values
  <2>5. k # 0 /\ k \in 1 .. n /\ k - 1 \in 0 .. n /\ ~(k <= k - 1)
    BY <2>3, <2>4
  <2>6. f[k - 1] = g[k - 1]
    BY <2>2, <2>5
  <2> QED
    BY <2>3, <2>4, <2>5, <2>6
<1>2. n \in 0 .. n
  OBVIOUS
<1> QED
  BY <1>1, <1>2

\* The value of no digits, and of one digit more.
LEMMA ValueRules ==
  ASSUME NEW base
  PROVE  /\ Value(<<>>, base) = 0
         /\ \A s \in Seq(Nat), d \in Nat : Value(Append(s, d), base) = base * Value(s, base) + d
<1>1. Value(<<>>, base) = 0
  <2>1. Len(<<>>) = 0
    OBVIOUS
  <2>2. PICK f : Values(<<>>, base, 0, f) /\ Value(<<>>, base) = f[0]
    BY <2>1, ValueFcn
  <2> QED
    BY <2>2 DEF Values
<1>2. ASSUME NEW s \in Seq(Nat), NEW d \in Nat
      PROVE  Value(Append(s, d), base) = base * Value(s, base) + d
  <2>1. PICK u : u = Append(s, d)
    OBVIOUS
  <2>2. PICK n \in Nat : n = Len(s)
    BY LenProperties
  <2>3. /\ Len(u) = n + 1 /\ u[n + 1] = d
        /\ \A i \in 1 .. n : s[i] = u[i]
    BY <2>1, <2>2, AppendProperties
  <2>4. PICK f : Values(s, base, n, f) /\ Value(s, base) = f[n]
    BY <2>2, ValueFcn
  <2>5. PICK g : Values(u, base, n + 1, g) /\ Value(u, base) = g[n + 1]
    BY <2>3, ValueFcn
  <2>6. f[n] = g[n]
    BY <2>3, <2>4, <2>5, ValuesSame
  <2>7. g[n + 1] = base * g[n] + d
    <3>1. n + 1 \in 0 .. n + 1 /\ n + 1 # 0 /\ (n + 1) - 1 = n
      OBVIOUS
    <3>2. g[n + 1] = base * g[(n + 1) - 1] + u[n + 1]
      BY <2>5, <3>1 DEF Values
    <3> QED
      BY <2>3, <3>1, <3>2
  <2> QED
    BY <2>1, <2>4, <2>5, <2>6, <2>7
<1> QED
  BY <1>1, <1>2

\* A sequence is the function of its elements.
LEMMA SeqIsFcn ==
  ASSUME NEW s \in Seq(Nat), NEW n \in Nat, Len(s) = n
  PROVE  s = [i \in 1 .. n |-> s[i]]
<1>1. s \in [1 .. n -> Nat]
  BY LenProperties
<1> QED
  BY <1>1

\* What is first is last when everything is turned round, and the other way round.
LEMMA ReverseRules ==
  ASSUME NEW s \in Seq(Nat), NEW d \in Nat
  PROVE  /\ Reverse(s) \in Seq(Nat) /\ Len(Reverse(s)) = Len(s)
         /\ \A i \in 1 .. Len(s) : \E j \in 1 .. Len(s) : Reverse(s)[i] = s[j]
         /\ Reverse(<<d>> \o s) = Append(Reverse(s), d)
         /\ Reverse(s \o <<d>>) = <<d>> \o Reverse(s)
<1>1. PICK n \in Nat : n = Len(s) /\ \A i \in 1 .. n : s[i] \in Nat
  BY LenProperties, ElementOfSeq
<1>2. PICK r : r = [i \in 1 .. n |-> s[(n - i) + 1]]
  OBVIOUS
<1>3. \A i \in 1 .. n : (n - i) + 1 \in 1 .. n
  OBVIOUS
<1>4. r = Reverse(s) /\ r \in Seq(Nat) /\ Len(r) = n /\ \A i \in 1 .. n : r[i] = s[(n - i) + 1]
  BY <1>1, <1>2, <1>3 DEF Reverse
<1>5. Reverse(<<d>> \o s) = Append(r, d)
  <2>1. PICK u : u = <<d>> \o s
    OBVIOUS
  <2>2. /\ u \in Seq(Nat) /\ Len(u) = n + 1
        /\ u[1] = d /\ \A i \in 1 .. n : u[i + 1] = s[i]
    BY <1>1, <2>1
  <2>3. \A i \in 1 .. n + 1 : u[((n + 1) - i) + 1] = Append(r, d)[i]
    <3> SUFFICES ASSUME NEW i \in 1 .. n + 1 PROVE u[((n + 1) - i) + 1] = Append(r, d)[i]
      OBVIOUS
    <3>1. CASE i = n + 1
      <4>1. ((n + 1) - i) + 1 = 1 /\ Append(r, d)[i] = d
        BY <1>4, <3>1
      <4> QED
        BY <2>2, <4>1
    <3>2. CASE i # n + 1
      <4>1. i \in 1 .. n /\ (n - i) + 1 \in 1 .. n
            /\ ((n + 1) - i) + 1 = ((n - i) + 1) + 1
        BY <3>2
      <4>2. Append(r, d)[i] = s[(n - i) + 1]
        BY <1>4, <4>1
      <4> QED
        BY <2>2, <4>1, <4>2
    <3> QED
      BY <3>1, <3>2
  <2>4. Append(r, d) = [i \in 1 .. n + 1 |-> Append(r, d)[i]]
    <3>1. Append(r, d) \in Seq(Nat) /\ Len(Append(r, d)) = n + 1 /\ n + 1 \in Nat
      BY <1>4, AppendProperties
    <3> QED
      BY <3>1, SeqIsFcn
  <2>5. Reverse(u) = [i \in 1 .. n + 1 |-> u[((n + 1) - i) + 1]]
    BY <2>2 DEF Reverse
  <2> QED
    BY <2>1, <2>3, <2>4, <2>5
<1>6. Reverse(s \o <<d>>) = <<d>> \o r
  <2>1. PICK u : u = s \o <<d>>
    OBVIOUS
  <2>2. /\ u \in Seq(Nat) /\ Len(u) = n + 1
        /\ u[n + 1] = d /\ \A i \in 1 .. n : u[i] = s[i]
    BY <1>1, <2>1
  <2>3. PICK v : v = <<d>> \o r
    OBVIOUS
  <2>4. /\ v = [i \in 1 .. n + 1 |-> v[i]]
        /\ v[1] = d /\ \A i \in 1 .. n : v[i + 1] = r[i]
    <3>1. v \in Seq(Nat) /\ Len(v) = n + 1
      BY <1>4, <2>3
    <3>2. v = [i \in 1 .. n + 1 |-> v[i]]
      BY <3>1, SeqIsFcn
    <3>3. v[1] = d /\ \A i \in 1 .. n : v[i + 1] = r[i]
      BY <1>4, <2>3
    <3> QED
      BY <3>2, <3>3
  <2>5. \A i \in 1 .. n + 1 : u[((n + 1) - i) + 1] = v[i]
    <3> SUFFICES ASSUME NEW i \in 1 .. n + 1 PROVE u[((n + 1) - i) + 1] = v[i]
      OBVIOUS
    <3>1. CASE i = 1
      <4>1. ((n + 1) - i) + 1 = n + 1
        BY <3>1
      <4> QED
        BY <2>2, <2>4, <3>1, <4>1
    <3>2. CASE i # 1
      <4>1. PICK j \in 1 .. n : i = j + 1
        <5>1. i - 1 \in 1 .. n /\ i = (i - 1) + 1
          BY <3>2
        <5> QED
          BY <5>1
      <4>2. ((n + 1) - i) + 1 = (n - j) + 1 /\ (n - j) + 1 \in 1 .. n
        BY <4>1
      <4>3. u[(n - j) + 1] = s[(n - j) + 1]
        BY <2>2, <4>2
      <4>4. v[i] = r[j] /\ r[j] = s[(n - j) + 1]
        BY <1>4, <2>4, <4>1
      <4> QED
        BY <4>2, <4>3, <4>4
    <3> QED
      BY <3>1, <3>2
  <2>6. Reverse(u) = [i \in 1 .. n + 1 |-> u[((n + 1) - i) + 1]]
    BY <2>2 DEF Reverse
  <2> QED
    BY <2>1, <2>3, <2>4, <2>5, <2>6
<1> QED
  BY <1>1, <1>3, <1>4, <1>5, <1>6

\* The digits turned round stand for the number without its sign.
LEMMA DigitsReadBack ==
  ASSUME NEW base \in {10, 16}, NEW n \in Int
  PROVE  /\ LowFirst(n, base) \in Seq(Nat) /\ Len(LowFirst(n, base)) > 0
         /\ \A i \in 1 .. Len(LowFirst(n, base)) : LowFirst(n, base)[i] < base
         /\ Value(Reverse(LowFirst(n, base)), base) = Abs(n)
<1> DEFINE Good(i) == /\ LowFirst(i, base) \in Seq(Nat) /\ Len(LowFirst(i, base)) > 0
                      /\ \A j \in 1 .. Len(LowFirst(i, base)) : LowFirst(i, base)[j] < base
                      /\ Value(Reverse(LowFirst(i, base)), base) = Abs(i)
           S == {k \in Nat : \E i \in Int : Abs(i) = k /\ ~Good(i)}
<1>1. SUFFICES ASSUME S # {} PROVE FALSE
  <2>1. Abs(n) \in Nat
    BY Division
  <2>2. ASSUME S = {} PROVE Good(n)
    BY <2>1, <2>2
  <2> QED
    BY <2>2
<1>2. PICK k \in S : \A i \in S : k <= i
  BY <1>1, LeastNat
<1>3. PICK m \in Int : Abs(m) = k /\ ~Good(m)
  BY <1>2
<1>4. PICK q \in Int, d \in Nat :
        /\ q = Quot(m, base) /\ d = Zero(Rem(m, base)) /\ d < base /\ Abs(q) \in Nat
        /\ Abs(m) = base * Abs(q) + d /\ (q # 0 => Abs(q) < k)
  <2>1. PICK d \in 0 .. base - 1 : d = Zero(Rem(m, base))
    BY Division
  <2>2. d \in Nat /\ d < base
    OBVIOUS
  <2>3. PICK q \in Int : q = Quot(m, base)
    BY Division
  <2>4. /\ Abs(q) \in Nat /\ Abs(m) = base * Abs(q) + d
        /\ q # 0 => Abs(q) < k
    BY <1>3, <2>1, <2>3, Division
  <2> QED
    BY <2>1, <2>2, <2>3, <2>4
<1>5. CASE q = 0
  <2>1. LowFirst(m, base) = <<d>> \o <<>>
    BY <1>4, <1>5, LowFirstRule DEF Step
  <2>2. Reverse(<<d>> \o <<>>) = Append(Reverse(<<>>), d) /\ Reverse(<<>>) = <<>>
    <3>1. <<>> \in Seq(Nat)
      OBVIOUS
    <3>2. Reverse(<<>>) = <<>>
      BY DEF Reverse
    <3> QED
      BY <3>1, <3>2, ReverseRules
  <2>3. Value(Append(<<>>, d), base) = base * Value(<<>>, base) + d /\ Value(<<>>, base) = 0
    <3>1. <<>> \in Seq(Nat)
      OBVIOUS
    <3> QED
      BY <3>1, ValueRules
  <2>4. base * 0 = 0 /\ Abs(q) = 0
    BY <1>5 DEF Abs
  <2>5. Abs(m) = d
    BY <1>4, <2>4
  <2>6. Value(Reverse(LowFirst(m, base)), base) = Abs(m)
    BY <2>1, <2>2, <2>3, <2>4, <2>5
  <2>7. LowFirst(m, base) = <<d>>
    BY <2>1
  <2> QED
    BY <1>3, <1>4, <2>6, <2>7
<1>6. CASE q # 0
  <2>1. Abs(q) \notin S
    BY <1>2, <1>4, <1>6
  <2>2. Good(q)
    BY <1>4, <2>1
  <2>3. PICK r \in Seq(Nat) : r = LowFirst(q, base)
    BY <2>2
  <2>4. LowFirst(m, base) = <<d>> \o r
    BY <1>4, <1>6, <2>3, LowFirstRule DEF Step
  <2>5. Reverse(<<d>> \o r) = Append(Reverse(r), d) /\ Reverse(r) \in Seq(Nat)
    BY ReverseRules
  <2>6. Value(Append(Reverse(r), d), base) = base * Value(Reverse(r), base) + d
    BY <2>5, ValueRules
  <2>7. Value(Reverse(LowFirst(m, base)), base) = Abs(m)
    BY <1>4, <2>2, <2>3, <2>4, <2>5, <2>6
  <2>8. /\ <<d>> \o r \in Seq(Nat) /\ Len(<<d>> \o r) > 0
        /\ \A j \in 1 .. Len(<<d>> \o r) : (<<d>> \o r)[j] < base
    <3>1. \A j \in 1 .. Len(r) : r[j] < base
      BY <2>2, <2>3
    <3>2. PICK w : w = <<d>> \o r
      OBVIOUS
    <3>3. /\ w \in Seq(Nat) /\ Len(w) = Len(r) + 1 /\ Len(r) \in Nat /\ w[1] = d
          /\ \A i \in 1 .. Len(r) : w[i + 1] = r[i]
      BY <3>2
    <3>4. ASSUME NEW j \in 1 .. Len(w) PROVE w[j] < base
      <4>1. j = 1 \/ (j - 1 \in 1 .. Len(r) /\ j = (j - 1) + 1)
        BY <3>3
      <4> QED
        BY <1>4, <3>1, <3>3, <4>1
    <3> QED
      BY <3>2, <3>3, <3>4
  <2> QED
    BY <1>3, <2>4, <2>7, <2>8
<1> QED
  BY <1>5, <1>6

\* The text of a number reads back as the number: of every integer, and of
\* every pointer.
LEMMA TextReadsBack ==
  /\ \A v \in Int : ReadBack(Integer(v)) = v
  /\ \A v \in Nat : ReadBack(Pointer(v)) = v
<1>1. ASSUME NEW v \in Int PROVE ReadBack(Integer(v)) = v
  <2>1. PICK s \in Seq(Nat) : /\ s = LowFirst(v, 10) /\ Len(s) > 0
                              /\ \A i \in 1 .. Len(s) : s[i] < 10
                              /\ Value(Reverse(s), 10) = Abs(v)
    BY DigitsReadBack
  <2>2. PICK r : r = Reverse(s)
    OBVIOUS
  <2>3. /\ r \in Seq(Nat) /\ Len(r) = Len(s)
        /\ \A i \in 1 .. Len(s) : \E j \in 1 .. Len(s) : r[i] = s[j]
        /\ Reverse(s \o <<16>>) = <<16>> \o r
    BY <2>2, ReverseRules
  <2>4. CASE v < 0
    <3>1. PICK t : t = <<16>> \o r
      OBVIOUS
    <3>2. Integer(v).text = t /\ Integer(v).kind = "integer"
      BY <2>1, <2>3, <2>4, <3>1 DEF Integer, FormatInteger, Minus
    <3>3. /\ t \in Seq(Nat) /\ t # <<>> /\ Len(t) = Len(r) + 1 /\ Head(t) = 16
          /\ \A i \in 1 .. Len(r) : t[i + 1] = r[i]
      BY <2>3, <3>1
    <3>4. Tail(t) = r
      <4>1. /\ Tail(t) \in Seq(Nat) /\ Len(Tail(t)) = Len(r)
            /\ \A i \in 1 .. Len(Tail(t)) : Tail(t)[i] = t[i + 1]
        BY <2>3, <3>3, HeadTailProperties
      <4>2. \A i \in 1 .. Len(r) : Tail(t)[i] = r[i]
        BY <3>3, <4>1
      <4> QED
        BY <2>3, <4>1, <4>2, SeqEqual
    <3>5. ReadBack(Integer(v)) = -Value(r, 10)
      BY <3>2, <3>3, <3>4 DEF ReadBack, Minus
    <3>6. Value(r, 10) = -v
      BY <2>1, <2>2, <2>4 DEF Abs
    <3> QED
      BY <3>5, <3>6
  <2>5. CASE ~(v < 0)
    <3>1. s \o <<>> = s
      BY ConcatEmptySeq
    <3>2. Integer(v).text = r /\ Integer(v).kind = "integer"
      BY <2>1, <2>2, <2>5, <3>1 DEF Integer, FormatInteger
    <3>3. Head(r) # 16
      <4>1. 1 \in 1 .. Len(s) /\ Head(r) = r[1]
        BY <2>1, <2>3
      <4>2. PICK j \in 1 .. Len(s) : r[1] = s[j]
        BY <2>3, <4>1
      <4>3. s[j] \in Nat /\ s[j] < 10
        BY <2>1, ElementOfSeq
      <4> QED
        BY <4>1, <4>2, <4>3
    <3>4. Abs(v) = v
      BY <2>5 DEF Abs
    <3> QED
      BY <2>1, <2>2, <3>2, <3>3, <3>4 DEF ReadBack, Minus
  <2> QED
    BY <2>4, <2>5
<1>2. ASSUME NEW v \in Nat PROVE ReadBack(Pointer(v)) = v
  <2>1. PICK s \in Seq(Nat) : s = LowFirst(v, 16) /\ Value(Reverse(s), 16) = Abs(v)
    BY DigitsReadBack
  <2>2. PICK r \in Seq(Nat) : r = Reverse(s)
    BY ReverseRules
  <2>3. PICK t : t = <<0, LetterX>> \o r
    OBVIOUS
  <2>4. Pointer(v).text = t /\ Pointer(v).kind = "pointer"
    BY <2>1, <2>2, <2>3 DEF Pointer, FormatPointer
  <2>5. SubSeq(t, 3, Len(t)) = r
    <3>1. Len(t) = Len(r) + 2 /\ \A i \in 1 .. Len(r) : t[i + 2] = r[i]
      BY <2>3
    <3>2. \A i \in 3 .. Len(t) : t[i] \in Nat
      BY <2>3 DEF LetterX
    <3>3. PICK u : u = SubSeq(t, 3, Len(t))
      OBVIOUS
    <3>4. u \in Seq(Nat) /\ Len(u) = Len(r) /\ \A i \in 1 .. Len(r) : u[i] = r[i]
      BY <3>1, <3>2, <3>3, SubSeqProperties
    <3>5. u = r
      BY <3>4, SeqEqual
    <3> QED
      BY <3>3, <3>5
  <2>6. Abs(v) = v
    BY DEF Abs
  <2> QED
    BY <2>1, <2>2, <2>4, <2>5, <2>6 DEF ReadBack
<1> QED
  BY <1>1, <1>2

\* Every number in a line, of any size and sign, reads back as the number that was
\* streamed (log_stream.cpp:7-11, 98-150).
THEOREM NumbersAreReadBack == Spec => []NumbersReadBack
<1>1. IInv => NumbersReadBack
  <2> SUFFICES ASSUME IInv, NEW t \in Thread, NEW i \in DOMAIN log[t].stream.kept,
                      NEW piece, piece = log[t].stream.kept[i],
                      piece.kind \in {"integer", "pointer"}
               PROVE  ReadBack(piece) = piece.val
    BY DEF NumbersReadBack
  <2>1. log[t].stream.kept \in Seq(Piece)
    BY DEF IInv, TypeInv, Logs, Streams
  <2>2. piece \in Piece
    BY <2>1, LenProperties, ElementOfSeq
  <2>3. CASE piece.kind = "integer"
    <3>1. piece.val \in Int /\ piece = Integer(piece.val)
      BY <2>2, <2>3 DEF Piece
    <3> QED
      BY <3>1, TextReadsBack
  <2>4. CASE piece.kind = "pointer"
    <3>1. piece.val \in Nat /\ piece = Pointer(piece.val)
      BY <2>2, <2>4 DEF Piece
    <3> QED
      BY <3>1, TextReadsBack
  <2> QED
    BY <2>3, <2>4
<1> QED
  BY <1>1, Invariance, PTL

\* If the numbers below b have at most k digits, those below base times b have at
\* most one more.
ShortBelow(base, b, k) == \A n \in Int : Abs(n) < b => Len(LowFirst(n, base)) <= k

LEMMA OneDigitMore ==
  ASSUME NEW base \in {10, 16}, NEW b \in Nat, NEW k \in Nat, ShortBelow(base, b, k)
  PROVE  ShortBelow(base, base * b, k + 1)
<1> SUFFICES ASSUME NEW n \in Int, Abs(n) < base * b
             PROVE  Len(LowFirst(n, base)) <= k + 1
  BY DEF ShortBelow
<1>1. PICK q \in Int, d \in 0 .. base - 1 :
        q = Quot(n, base) /\ d = Zero(Rem(n, base)) /\ Abs(n) = base * Abs(q) + d /\ Abs(q) \in Nat
  BY Division
<1>2. Abs(q) < b
  <2>1. CASE base = 10
    BY <1>1, <2>1
  <2>2. CASE base = 16
    BY <1>1, <2>2
  <2> QED
    BY <2>1, <2>2
<1>3. PICK r \in Seq(Nat) : r = LowFirst(q, base) /\ Len(r) <= k
  BY <1>2, DigitsReadBack DEF ShortBelow
<1>4. d \in Nat
  OBVIOUS
<1>5. Len(<<d>> \o r) = Len(r) + 1 /\ Len(<<d>> \o <<>>) = 1 /\ Len(r) \in Nat
  BY <1>4
<1>6. LowFirst(n, base) = <<d>> \o r \/ LowFirst(n, base) = <<d>> \o <<>>
  BY <1>1, <1>3, LowFirstRule DEF Step
<1>7. PICK i \in Nat : i = Len(r) /\ i <= k
  BY <1>3, <1>5
<1>8. Len(LowFirst(n, base)) = i + 1 \/ Len(LowFirst(n, base)) = 1
  BY <1>5, <1>6, <1>7
<1>9. i + 1 <= k + 1 /\ 1 <= k + 1
  BY <1>7
<1> QED
  BY <1>8, <1>9

LEMMA FourDigitsMore ==
  ASSUME NEW base \in {10, 16}, NEW b \in Nat, NEW k \in Nat, ShortBelow(base, b, k)
  PROVE  ShortBelow(base, base * (base * (base * (base * b))), k + 4)
<1>0. \A c \in Nat : base * c \in Nat
  OBVIOUS
<1>1. ShortBelow(base, base * b, k + 1)
  BY OneDigitMore
<1>2. ShortBelow(base, base * (base * b), (k + 1) + 1)
  BY <1>0, <1>1, OneDigitMore
<1>3. ShortBelow(base, base * (base * (base * b)), ((k + 1) + 1) + 1)
  BY <1>0, <1>2, OneDigitMore
<1>4. ShortBelow(base, base * (base * (base * (base * b))), (((k + 1) + 1) + 1) + 1)
  BY <1>0, <1>3, OneDigitMore
<1>5. (((k + 1) + 1) + 1) + 1 = k + 4
  OBVIOUS
<1> QED
  BY <1>4, <1>5

\* The room that the code asks for, kMaxNumericSize = 48, is enough for every integer
\* of 64 bits, signed or not, and for every pointer, and leaves a byte
\* (log_stream.h:48, log_stream.cpp:98-150).
THEOREM NumericSizeIsEnough ==
  /\ \A v \in Int : -9223372036854775808 <= v /\ v <= 18446744073709551615
                    => Len(Integer(v).text) < 48
  /\ \A v \in Nat : v <= 18446744073709551615 => Len(Pointer(v).text) < 48
<1>1. ASSUME NEW base \in {10, 16} PROVE ShortBelow(base, 1, 1)
  <2> SUFFICES ASSUME NEW n \in Int, Abs(n) < 1 PROVE Len(LowFirst(n, base)) <= 1
    BY DEF ShortBelow
  <2>1. Quot(n, base) = 0
    BY Division DEF Abs
  <2>2. PICK d : d = Zero(Rem(n, base))
    OBVIOUS
  <2>3. LowFirst(n, base) = <<d>> \o <<>>
    BY <2>1, <2>2, LowFirstRule DEF Step
  <2>4. <<d>> \o <<>> = <<d>>
    OBVIOUS
  <2> QED
    BY <2>3, <2>4
<1>2. ShortBelow(10, 100000000000000000000, 21)
  <2>1. ShortBelow(10, 10000, 5)
    BY <1>1, FourDigitsMore
  <2>2. ShortBelow(10, 100000000, 9)
    BY <2>1, FourDigitsMore
  <2>3. ShortBelow(10, 1000000000000, 13)
    BY <2>2, FourDigitsMore
  <2>4. ShortBelow(10, 10000000000000000, 17)
    BY <2>3, FourDigitsMore
  <2> QED
    BY <2>4, FourDigitsMore
<1>3. ShortBelow(16, 18446744073709551616, 17)
  <2>1. ShortBelow(16, 65536, 5)
    BY <1>1, FourDigitsMore
  <2>2. ShortBelow(16, 4294967296, 9)
    BY <2>1, FourDigitsMore
  <2>3. ShortBelow(16, 281474976710656, 13)
    BY <2>2, FourDigitsMore
  <2> QED
    BY <2>3, FourDigitsMore
<1>4. ASSUME NEW v \in Int, -9223372036854775808 <= v, v <= 18446744073709551615
      PROVE  Len(Integer(v).text) < 48
  <2>1. Abs(v) < 100000000000000000000
    BY <1>4 DEF Abs
  <2>2. PICK s \in Seq(Nat) : s = LowFirst(v, 10) /\ Len(s) <= 21
    BY <1>2, <2>1, DigitsReadBack DEF ShortBelow
  <2>3. PICK t : t = (IF v < 0 THEN <<Minus>> ELSE <<>>)
    OBVIOUS
  <2>4. t \in Seq(Nat) /\ Len(t) \in {0, 1}
    <3>1. CASE v < 0
      <4>1. t = <<16>>
        BY <2>3, <3>1 DEF Minus
      <4> QED
        BY <4>1
    <3>2. CASE ~(v < 0)
      <4>1. t = <<>>
        BY <2>3, <3>2
      <4> QED
        BY <4>1
    <3> QED
      BY <3>1, <3>2
  <2>5. s \o t \in Seq(Nat) /\ Len(s \o t) < 48
    <3>1. PICK a \in Nat : a = Len(s) /\ a <= 21
      BY <2>2, LenProperties
    <3>2. PICK b \in {0, 1} : b = Len(t)
      BY <2>4
    <3>3. s \o t \in Seq(Nat) /\ Len(s \o t) = a + b
      BY <2>2, <2>4, <3>1, <3>2, ConcatProperties
    <3>4. a + b < 48
      BY <3>1
    <3> QED
      BY <3>3, <3>4
  <2>6. Len(Reverse(s \o t)) = Len(s \o t)
    BY <2>5, ReverseRules
  <2> QED
    BY <2>2, <2>3, <2>5, <2>6 DEF Integer, FormatInteger
<1>5. ASSUME NEW v \in Nat, v <= 18446744073709551615 PROVE Len(Pointer(v).text) < 48
  <2>1. v \in Int /\ Abs(v) < 18446744073709551616
    BY <1>5 DEF Abs
  <2>2. PICK s \in Seq(Nat) : s = LowFirst(v, 16) /\ Len(s) <= 17
    BY <1>3, <2>1, DigitsReadBack DEF ShortBelow
  <2>3. PICK r : r = Reverse(s) /\ r \in Seq(Nat) /\ Len(r) <= 17
    BY <2>2, ReverseRules
  <2>4. Len(<<0, LetterX>> \o r) < 48
    BY <2>3 DEF LetterX
  <2> QED
    BY <2>2, <2>3, <2>4 DEF Pointer, FormatPointer
<1> QED
  BY <1>4, <1>5
=============================================================================
