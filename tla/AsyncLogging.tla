----------------------------- MODULE AsyncLogging -----------------------------
(***************************************************************************)
(* turbo::AsyncLogging (src/src/logger/async_logging.{h,cpp}), the front   *)
(* end that any thread appends to and the one back-end thread that writes, *)
(* driven as Logger drives it: Start/StopDefaultSingletonAsyncLogging      *)
(* (src/src/logger/logger.cpp).                                            *)
(*                                                                         *)
(* A FixedBuffer is a record of the messages copied into it and the bytes  *)
(* they use.  Messages are numbered in the order of their Append calls;    *)
(* all that matters of one is its length.  Append runs entirely under      *)
(* mutex_, so it is one step.  The back end gives mutex_ up only while it  *)
(* waits on cond_; what it does after the swap touches only its own        *)
(* buffers and the file.                                                   *)
(***************************************************************************)
EXTENDS Integers, Sequences

CONSTANTS
  Capacity,     \* kLargeBuffer, the size of a FixedBuffer
  Lengths,      \* the lengths a message may have
  DropLimit,    \* 25: more buffers than this are not written
  MaxMessages,  \* bound: Append calls
  MaxRuns,      \* bound: Start calls
  Debug,        \* TRUE: assert() is compiled in
  None,         \* a null unique_ptr
  Notice        \* the "Drop log messages" line in the file

ASSUME LoggingAssumption ==
  /\ Capacity \in Nat \ {0} /\ Lengths \subseteq Nat
  /\ DropLimit \in Nat /\ DropLimit >= 2
  /\ MaxMessages \in Nat /\ MaxRuns \in Nat
  /\ Debug \in BOOLEAN

\* A FixedBuffer's cursor stays inside its array.
Buffer == [data : Seq(1 .. MaxMessages), used : 0 .. Capacity - 1]

ASSUME NoneAssumption == None \notin Buffer

VARIABLES
  current_buffer, next_buffer, buffers,   \* shared, under mutex_
  new_buffer_1, new_buffer_2,             \* locals of ThreadFunc
  buffers_to_write,
  running,                                \* running_
  thread,                                 \* where the back-end thread is
  started,                                \* thread_.started_
  latch,                                  \* latch_ has been counted down
  owner,                                  \* where Start or Stop is
  fault,                                  \* how the process died, or "none"
  file,                                   \* what output has been given
  appended, oversize, runs                \* history: Append calls, those too
                                          \* long for a buffer, Start calls

shared == <<current_buffer, next_buffer, buffers>>
locals == <<new_buffer_1, new_buffer_2, buffers_to_write>>
control == <<running, started, latch, owner, fault, runs>>
vars == <<shared, locals, control, thread, file, appended, oversize>>

-----------------------------------------------------------------------------
(* FixedBuffer.                                                            *)

EmptyBuffer == [data |-> <<>>, used |-> 0]

Avail(b) == Capacity - b.used

\* Mutant: memcpy without looking at Avail().
AppendUnchecked(b, m, len) == [data |-> Append(b.data, m), used |-> b.used + len]

\* FixedBuffer::Append: a message that does not fit leaves no trace.
BufferAppend(b, m, len) ==
  IF Avail(b) > len THEN [data |-> Append(b.data, m), used |-> b.used + len]
                    ELSE b

\* Mutant: the recycled buffer keeps its contents.
NoReset(b) == b

Reset(b) == EmptyBuffer

-----------------------------------------------------------------------------
(* The front end.                                                          *)

\* buffers_.push_back(std::move(current_buffer_)).
PushCurrent == Append(buffers, current_buffer)

\* AsyncLogging::Append.  cond_.Notify() only ends the back end's wait early,
\* and LoggerWake may do that at any time.
LogAppend(len) ==
  LET m == appended + 1 IN
  /\ appended < MaxMessages
  /\ appended' = m
  /\ IF Avail(current_buffer) > len
     THEN /\ current_buffer' = BufferAppend(current_buffer, m, len)
          /\ UNCHANGED <<next_buffer, buffers>>
     ELSE /\ buffers' = PushCurrent
          /\ current_buffer' =
               BufferAppend(IF next_buffer # None THEN next_buffer
                                                  ELSE EmptyBuffer, m, len)
          /\ next_buffer' = None
  /\ oversize' = IF len >= Capacity THEN oversize \cup {m} ELSE oversize
  /\ UNCHANGED <<locals, control, thread, file>>

-----------------------------------------------------------------------------
(* The back end: ThreadFunc.                                               *)

\* Mutant: the spare is handed over even when it is not needed.
AlwaysRefill == TRUE

\* The front end has used its spare buffer up.
NeedsSpare == next_buffer = None

\* Under mutex_: take every buffer, leave two empty ones behind.
SwapBuffers ==
  /\ buffers_to_write' = PushCurrent
  /\ buffers' = <<>>
  /\ current_buffer' = new_buffer_1
  /\ new_buffer_1' = None
  /\ IF NeedsSpare
     THEN next_buffer' = new_buffer_2 /\ new_buffer_2' = None
     ELSE UNCHANGED <<next_buffer, new_buffer_2>>
  /\ thread' = "write"

\* The thread starts: its locals, and the latch Start waits for.
LoggerBegin ==
  /\ thread = "born"
  /\ new_buffer_1' = EmptyBuffer /\ new_buffer_2' = EmptyBuffer
  /\ buffers_to_write' = <<>>
  /\ latch' = TRUE
  /\ thread' = "loop"
  /\ UNCHANGED <<shared, running, started, owner, fault, runs, file, appended,
                 oversize>>

\* while (running_); the thread ends when it finds it false.
LoggerTest ==
  /\ thread = "loop"
  /\ thread' = IF running THEN "lock" ELSE "done"
  /\ UNCHANGED <<shared, locals, control, file, appended, oversize>>

\* Nothing queued: wait, giving mutex_ up.  One wait, not a loop.
LoggerWait ==
  /\ thread = "lock" /\ buffers = <<>>
  /\ thread' = "wait"
  /\ UNCHANGED <<shared, locals, control, file, appended, oversize>>

LoggerSwap ==
  /\ thread = "lock" /\ buffers # <<>>
  /\ SwapBuffers
  /\ UNCHANGED <<control, file, appended, oversize>>

\* Mutant: while (buffers_.empty()) in place of if (buffers_.empty()).
LoggerWakeInLoop ==
  /\ thread = "wait"
  /\ IF buffers = <<>> THEN thread' = "lock" /\ UNCHANGED <<shared, locals>>
                       ELSE SwapBuffers
  /\ UNCHANGED <<control, file, appended, oversize>>

\* Notified, woken spuriously or after flush_interval_ seconds: all the same.
LoggerWake ==
  /\ thread = "wait"
  /\ SwapBuffers
  /\ UNCHANGED <<control, file, appended, oversize>>

\* More than 25 buffers: only the first two are kept.
Trim(s) == IF Len(s) > DropLimit THEN SubSeq(s, 1, 2) ELSE s

\* The line that says messages were dropped, written before the buffers.
DropNotice(s) == IF Len(s) > DropLimit THEN <<Notice>> ELSE <<>>

\* The messages of a list of buffers, in order.
Contents(s) ==
  LET all[i \in 0 .. Len(s)] == IF i = 0 THEN <<>> ELSE all[i - 1] \o s[i].data
  IN  all[Len(s)]

Last(s) == s[Len(s)]
Front(s) == SubSeq(s, 1, Len(s) - 1)

\* Write what was taken, then refill the two spares from its back.
LoggerWrite ==
  LET kept  == Trim(buffers_to_write)
      kept2 == IF new_buffer_1 = None THEN Front(kept) ELSE kept
  IN
  /\ thread = "write"
  /\ file' = file \o DropNotice(buffers_to_write) \o Contents(kept)
  /\ new_buffer_1' = IF new_buffer_1 = None THEN Reset(Last(kept)) ELSE new_buffer_1
  /\ new_buffer_2' = IF new_buffer_2 = None THEN Reset(Last(kept2)) ELSE new_buffer_2
  /\ buffers_to_write' = <<>>
  /\ thread' = "loop"
  /\ UNCHANGED <<shared, control, appended, oversize>>

Logger ==
  \/ LoggerBegin \/ LoggerTest \/ LoggerWait \/ LoggerSwap \/ LoggerWake
  \/ LoggerWrite

-----------------------------------------------------------------------------
(* The owner: the one thread that calls StartDefaultSingletonAsyncLogging  *)
(* and its Stop.                                                           *)

\* running_ = true, then Thread::Start, which asserts !started_.
Start ==
  /\ owner = "stopped" /\ runs < MaxRuns
  /\ runs' = runs + 1
  /\ running' = TRUE
  /\ IF Debug /\ started
     THEN fault' = "Start" /\ UNCHANGED <<started, thread, owner>>
     ELSE /\ started' = TRUE
          /\ thread' = "born"
          /\ owner' = "starting"
          /\ UNCHANGED fault
  /\ UNCHANGED <<shared, locals, latch, file, appended, oversize>>

\* Mutant: Start does not wait for the thread.
LatchIgnored == TRUE

\* latch_.Wait() returns; the latch is never reset.
LatchOpen == latch

StartReturn ==
  /\ owner = "starting" /\ LatchOpen
  /\ owner' = "started"
  /\ UNCHANGED <<shared, locals, running, started, latch, fault, runs, thread,
                 file, appended, oversize>>

\* Mutant: running_ stays true.
KeepRunning == running

\* Stop's first assignment.
StopFlag == FALSE

Stop ==
  /\ owner = "started"
  /\ running' = StopFlag
  /\ owner' = "stopping"
  /\ UNCHANGED <<shared, locals, started, latch, fault, runs, thread, file,
                 appended, oversize>>

\* thread_.Join() returns when ThreadFunc has.
StopReturn ==
  /\ owner = "stopping" /\ thread = "done"
  /\ owner' = "stopped"
  /\ UNCHANGED <<shared, locals, running, started, latch, fault, runs, thread,
                 file, appended, oversize>>

OwnerReturns == StartReturn \/ StopReturn

-----------------------------------------------------------------------------

Init ==
  /\ current_buffer = EmptyBuffer /\ next_buffer = EmptyBuffer /\ buffers = <<>>
  /\ new_buffer_1 = None /\ new_buffer_2 = None /\ buffers_to_write = <<>>
  /\ running = FALSE /\ started = FALSE /\ latch = FALSE
  /\ thread = "none" /\ owner = "stopped" /\ fault = "none"
  /\ file = <<>> /\ appended = 0 /\ oversize = {} /\ runs = 0

\* Nothing left to do within the bounds, or the process is dead.
Over ==
  /\ \/ fault # "none"
     \/ owner = "stopped" /\ runs = MaxRuns /\ appended = MaxMessages
  /\ UNCHANGED vars

Next ==
  \/ fault = "none" /\ \E len \in Lengths : LogAppend(len)
  \/ fault = "none" /\ Logger
  \/ fault = "none" /\ (Start \/ Stop \/ OwnerReturns)
  \/ Over

Spec == Init /\ [][Next]_vars

\* The back end keeps running: its wait ends after flush_interval_ seconds.
\* Start and Stop return when they can; nobody has to log, start or stop.
Fairness ==
  /\ WF_vars(fault = "none" /\ Logger)
  /\ WF_vars(fault = "none" /\ OwnerReturns)

FairSpec == Spec /\ Fairness

-----------------------------------------------------------------------------
(* Properties.                                                             *)

TypeOK ==
  /\ current_buffer \in Buffer
  /\ next_buffer \in Buffer \cup {None}
  /\ buffers \in Seq(Buffer) /\ buffers_to_write \in Seq(Buffer)
  /\ new_buffer_1 \in Buffer \cup {None} /\ new_buffer_2 \in Buffer \cup {None}
  /\ running \in BOOLEAN /\ started \in BOOLEAN /\ latch \in BOOLEAN
  /\ thread \in {"none", "born", "loop", "lock", "wait", "write", "done"}
  /\ owner \in {"stopped", "starting", "started", "stopping"}
  /\ fault \in {"none", "Start"}
  /\ appended \in 0 .. MaxMessages /\ oversize \subseteq 1 .. MaxMessages
  /\ runs \in 0 .. MaxRuns

\* Every assertion of ThreadFunc holds, whatever was appended in the meantime:
\* at the top of the loop both spares are there and empty and nothing is left
\* to write (async_logging.cpp:71-74); after the swap something is, and the
\* refilling of the spares finds a buffer for each (105, 112).
AssertionsHold ==
  /\ thread = "lock" =>
       /\ new_buffer_1 # None /\ new_buffer_1.used = 0
       /\ new_buffer_2 # None /\ new_buffer_2.used = 0
       /\ buffers_to_write = <<>>
  /\ thread = "write" =>
       LET needed == (IF new_buffer_1 = None THEN 1 ELSE 0) +
                     (IF new_buffer_2 = None THEN 1 ELSE 0)
       IN  /\ buffers_to_write # <<>>
           /\ Len(Trim(buffers_to_write)) >= needed

\* The back end never starts with running_ already false (async_logging.cpp:61):
\* Stop cannot overtake Start, because the latch is still closed.  It holds for
\* the first start only: the latch is never closed again, and a Debug build
\* cannot start twice.
RunningAtBegin == runs = 1 /\ thread = "born" => running

\* The messages in the buffers, those taken by the back end first.
InBuffers ==
  (IF thread = "write" THEN Contents(buffers_to_write) ELSE <<>>)
    \o Contents(buffers) \o current_buffer.data

\* The buffers implement one queue in front of the file: no message is lost,
\* duplicated or reordered on the way through the double buffering, except by
\* an announced drop (async_logging.cpp:46-57, 80-102).
Sink == INSTANCE LogSink WITH Messages <- 1 .. MaxMessages, pending <- InBuffers
SinkSpec == Sink!Spec

\* A message that fits a buffer and is still in one when the back end is
\* running reaches the file or is dropped with a notice, unless Stop comes
\* first (async_logging.cpp:69-120).
MessageLeaves ==
  \A m \in 1 .. MaxMessages :
    appended >= m /\ m \notin oversize
      ~> (\A i \in DOMAIN InBuffers : InBuffers[i] # m) \/ ~running

\* Stop returns: the back end comes out of its wait, sees running_ and ends,
\* although Stop notifies without the mutex (async_logging.cpp:38-42).
StopReturns == owner = "stopping" ~> owner = "stopped"
=============================================================================
