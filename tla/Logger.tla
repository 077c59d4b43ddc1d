------------------------------- MODULE Logger -------------------------------
(***************************************************************************)
(* turbo::Logger (src/src/logger/logger.{h,cpp}) and the formatting of     *)
(* turbo::Timestamp: threads log lines through the LOG_ macros.            *)
(*                                                                         *)
(* A Logger takes the time, puts a header into its LogStream, takes what   *)
(* the user streams, and in its destructor hands the line to s_output_; a  *)
(* FATAL one then calls s_flush_ and aborts.  The formatted time is cached *)
(* per thread and second.  std::localtime returns one static buffer for    *)
(* all threads.                                                            *)
(***************************************************************************)
EXTENDS LogStream

CONSTANTS
  Thread, NoThread,
  Macros,        \* the LOG_ macros used
  LogLevels,     \* the levels that are set
  Pieces,        \* what users stream
  Place,         \* the pieces of the header that show thread, level and place
  ErrorText,     \* and those that show an errno
  TimeLen,       \* the length of the time
  MaxClock,      \* bound: the last second
  MaxPieces,     \* bound: the pieces streamed into one line
  MaxLines       \* bound: the lines logged

Level == {"DEBUG", "INFO", "WARN", "ERROR", "FATAL"}

ASSUME LoggerAssumption ==
  /\ NoThread \notin Thread /\ TimeLen \in Nat /\ LogLevels \subseteq Level
  /\ Macros \subseteq {"LOG_DEBUG", "LOG_INFO", "LOG_WARN", "LOG_ERROR", "LOG_FATAL",
                       "LOG_SYS_ERROR", "LOG_SYS_FATAL"}
  /\ MaxClock \in Nat /\ MaxPieces \in Nat /\ MaxLines \in Nat

ASSUME PiecesAssumption ==
  Pieces \subseteq Piece /\ Place \in Seq(Piece) /\ ErrorText \in Seq(Piece)

VARIABLES
  clock,       \* Timestamp::Now(), in seconds
  tm,          \* localtime's static buffer: the second it shows, and the thread
               \* that had it filled
  cache,       \* t_last_seconds and t_time_str of each thread; raced is history:
               \* t_time_str was read after another thread had tm filled
  log,         \* the Logger each thread constructs or destroys
  log_level,   \* s_log_level_
  output,      \* s_output_
  stdout,      \* the lines in stdout's buffer and those written
  memory,      \* the lines handed to AsyncLogging
  lines,       \* how many lines were logged
  aborted

vars == <<clock, tm, cache, log, log_level, output, stdout, memory, lines, aborted>>

\* No Logger exists.
Idle == [pc |-> "idle", level |-> "DEBUG", second |-> 0, shown |-> 0, stream |-> Empty,
         pieces |-> 0]

Init ==
  /\ clock = 1 /\ tm = [second |-> 0, by |-> NoThread]
  /\ cache = [t \in Thread |-> [last |-> 0, str |-> 0, raced |-> FALSE]]
  /\ log = [t \in Thread |-> Idle]
  /\ log_level = "INFO" /\ output = "stdout"
  /\ stdout = [buffered |-> {}, written |-> {}] /\ memory = {}
  /\ lines = 0 /\ aborted = FALSE

-----------------------------------------------------------------------------
(* The macros and the constructors.                                        *)

\* Only LOG_DEBUG and LOG_INFO look at the level that is set.
Filtered(macro) ==
  \/ macro = "LOG_DEBUG" /\ log_level # "DEBUG"
  \/ macro = "LOG_INFO" /\ log_level \notin {"DEBUG", "INFO"}

\* The two macros that show errno pass is_abort, and the constructor gives the
\* level the other way round.
SysLevel(is_abort) == IF is_abort THEN "ERROR" ELSE "FATAL"

LevelOf(macro) ==
  CASE macro = "LOG_DEBUG" -> "DEBUG" [] macro = "LOG_INFO" -> "INFO"
    [] macro = "LOG_WARN" -> "WARN"   [] macro = "LOG_ERROR" -> "ERROR"
    [] macro = "LOG_FATAL" -> "FATAL"
    [] macro = "LOG_SYS_ERROR" -> SysLevel(FALSE)
    [] macro = "LOG_SYS_FATAL" -> SysLevel(TRUE)

\* The header that Impl's constructor streams.  errno may also be 0.
Headers(macro) ==
  LET plain == <<Text(TimeLen)>> \o Place
  IN IF macro \in {"LOG_SYS_ERROR", "LOG_SYS_FATAL"} THEN {plain, plain \o ErrorText}
                                                     ELSE {plain}

\* Mutant: the cached time is kept when the clock was set back.
TimeChangedForward(t) == cache[t].last < clock

\* FormatTime formats the time anew when the second is another one.
TimeChanged(t) == cache[t].last # clock

\* A LOG_ statement: the constructor takes the time; FormatTime has the static
\* buffer filled or shows the cached time.
Log(t, macro) ==
  /\ log[t].pc = "idle" /\ ~Filtered(macro)
  /\ lines < MaxLines /\ lines' = lines + 1
  /\ \E header \in Headers(macro) :
       log' = [log EXCEPT ![t] =
         [pc |-> IF TimeChanged(t) THEN "format" ELSE "stream", level |-> LevelOf(macro),
          second |-> clock, shown |-> cache[t].str, stream |-> PutAll(Empty, header),
          pieces |-> 0]]
  /\ tm' = IF TimeChanged(t) THEN [second |-> clock, by |-> t] ELSE tm
  /\ cache' = IF TimeChanged(t) THEN [cache EXCEPT ![t].last = clock] ELSE cache
  /\ UNCHANGED <<clock, log_level, output, stdout, memory, aborted>>

\* ToFormatString reads the static buffer.
Format(t) ==
  /\ log[t].pc = "format"
  /\ log' = [log EXCEPT ![t].pc = "stream", ![t].shown = tm.second]
  /\ cache' = [cache EXCEPT ![t].str = tm.second, ![t].raced = (tm.by # t)]
  /\ UNCHANGED <<clock, tm, log_level, output, stdout, memory, lines, aborted>>

-----------------------------------------------------------------------------
(* The stream and the destructor.                                          *)

Stream(t, piece) ==
  /\ log[t].pc = "stream" /\ log[t].pieces < MaxPieces
  /\ log' = [log EXCEPT ![t].stream = Put(@, piece), ![t].pieces = @ + 1]
  /\ UNCHANGED <<clock, tm, cache, log_level, output, stdout, memory, lines, aborted>>

\* ~Logger: Impl::Finish ends the line.
Finish(t) ==
  /\ log[t].pc = "stream"
  /\ log' = [log EXCEPT ![t].pc = "output", ![t].stream = Put(@, End)]
  /\ UNCHANGED <<clock, tm, cache, log_level, output, stdout, memory, lines, aborted>>

\* Mutant: a FATAL line aborts without a flush.
AfterOutputAborts(t) == IF log[t].level = "FATAL" THEN "abort" ELSE "idle"

AfterOutput(t) == IF log[t].level = "FATAL" THEN "flush" ELSE "idle"

\* s_output_: DefaultOutput, or DefaultAsyncLoggingOutput.
Output(t) ==
  LET line == [by |-> t, level |-> log[t].level] IN
  /\ log[t].pc = "output"
  /\ log' = [log EXCEPT ![t] = [Idle EXCEPT !.pc = AfterOutput(t)]]
  /\ IF output = "stdout"
     THEN stdout' = [stdout EXCEPT !.buffered = @ \union {line}] /\ UNCHANGED memory
     ELSE memory' = memory \union {line} /\ UNCHANGED stdout
  /\ UNCHANGED <<clock, tm, cache, log_level, output, lines, aborted>>

\* What fflush does.
Flushed == [buffered |-> {}, written |-> stdout.written \union stdout.buffered]

\* s_flush_: DefaultFlush, whatever the output is.
Flush(t) ==
  /\ log[t].pc = "flush" /\ log' = [log EXCEPT ![t].pc = "abort"]
  /\ stdout' = Flushed
  /\ UNCHANGED <<clock, tm, cache, log_level, output, memory, lines, aborted>>

Abort(t) ==
  /\ log[t].pc = "abort" /\ aborted' = TRUE
  /\ UNCHANGED <<clock, tm, cache, log, log_level, output, stdout, memory, lines>>

-----------------------------------------------------------------------------
(* Around the loggers.                                                     *)

SetLogLevel ==
  /\ \E l \in LogLevels : log_level' = l
  /\ UNCHANGED <<clock, tm, cache, log, output, stdout, memory, lines, aborted>>

\* Sets the output and leaves the flush function.
SetDefaultSingletonAsyncLogging ==
  /\ output' = "async"
  /\ UNCHANGED <<clock, tm, cache, log, log_level, stdout, memory, lines, aborted>>

\* stdio writes its buffer when it likes.
StdioWrites ==
  /\ stdout.buffered # {} /\ stdout' = Flushed
  /\ UNCHANGED <<clock, tm, cache, log, log_level, output, memory, lines, aborted>>

\* Time passes; the clock may be set back.
Tick ==
  /\ \E s \in 1 .. MaxClock : clock' = s
  /\ UNCHANGED <<tm, cache, log, log_level, output, stdout, memory, lines, aborted>>

Over == (aborted \/ lines = MaxLines) /\ UNCHANGED vars

Next ==
  \/ /\ ~aborted
     /\ \/ \E t \in Thread :
             \/ \E macro \in Macros : Log(t, macro)
             \/ Format(t)
             \/ \E piece \in Pieces : Stream(t, piece)
             \/ Finish(t) \/ Output(t) \/ Flush(t) \/ Abort(t)
        \/ SetLogLevel \/ SetDefaultSingletonAsyncLogging \/ StdioWrites \/ Tick
  \/ Over

Spec == Init /\ [][Next]_vars

-----------------------------------------------------------------------------
(* Properties.                                                             *)

\* A line never fills the buffer to its last byte, and a line that could not
\* be ended has used all bytes but that one: the numbers, which are counted only
\* after they were written, included (fixed_buffer.h:22-29, log_stream.cpp:74,
\* 99, 133, logger.cpp:176).
LineFits == \A t \in Thread :
  LET s == log[t].stream IN
  /\ s.len < BufferSize
  /\ log[t].pc = "output" /\ Last(s.kept) # End => s.len = BufferSize - 1

\* The number a text stands for.
Value(digits, base) ==
  LET value[i \in 0 .. Len(digits)] ==
        IF i = 0 THEN 0 ELSE base * value[i - 1] + digits[i]
  IN  value[Len(digits)]

ReadBack(p) ==
  IF p.kind = "pointer" THEN Value(SubSeq(p.text, 3, Len(p.text)), 16)
  ELSE IF Head(p.text) = Minus THEN -Value(Tail(p.text), 10) ELSE Value(p.text, 10)

\* A number in a line reads back as the number that was streamed, the smallest
\* of its type and 0 included (log_stream.cpp:7-11, 98-150).
NumbersReadBack == \A t \in Thread : \A i \in DOMAIN log[t].stream.kept :
  LET piece == log[t].stream.kept[i]
  IN piece.kind \in {"integer", "pointer"} => ReadBack(piece) = piece.val

\* A line shows the second its timestamp was taken in, when the clock was set
\* back and for the cached time too, unless another thread called localtime
\* between the call and the use of its result (logger.cpp:161-173,
\* timestamp.cpp:28-37).
OwnTimeUnlessRaced == \A t \in Thread :
  log[t].pc \in {"stream", "output"} /\ ~cache[t].raced => log[t].shown = log[t].second

\* When a FATAL line ends the process and it went to stdout, it has been written,
\* whoever exchanged the output meanwhile; one that went to AsyncLogging is only in
\* memory (logger.cpp:89-97).
FatalIsWritten ==
  \A t \in Thread : log[t].pc = "abort" =>
    LET line == [by |-> t, level |-> "FATAL"] IN line \in stdout.written \union memory
=============================================================================
