# A TLA+ model of TurboNet

TurboNet is a small C++ network library: threads and a thread pool
(`src/src/base`), a logger with an asynchronous back end (`src/src/logger`) and
the beginnings of a reactor on epoll (`src/src/net`).  This directory holds TLA+
modules that model the parts of it that keep state, TLC configurations that
check them on small instances, and TLAPS proofs for every value of the
parameters.  `PROJECT.json` maps each definition to the lines it models.

## 1. Inventory

| Component | State | Operations | Interacts with | What is hard | What makes it correct |
|---|---|---|---|---|---|
| ThreadPool | status, two atomic counters, task queue, list of Threads, list of retired tids, three mutexes, two condition variables | constructor, Commit, AddThread, worker loop, monitor loop, ShutDown, destructor | Thread (Start, Join), MutexLock, Condition | four kinds of thread, two lists under different locks, timeouts that race notifications, a destructor that takes no lock | counters exact, size between core and maximum, every accepted task runs exactly once, retired workers are reaped, the destructor returns |
| Thread | started_, joined_, tid_ | Start, Join, destructor | used by the pool and the logger | detaching in the destructor, joins from two places | each Thread joined once, nobody joins a running worker under a lock |
| MutexLock, Condition, CountDownLatch | the std::mutex, holder_, the sleepers, count_ | Lock, Unlock, guards, Wait, NotifyAll, CountDown, GetCount, destructor | used everywhere; Thread::Start waits on a latch it then destroys | holder_ is a second copy of the lock's state, given up around a wait; a wakeup between test and sleep; destruction right after Wait | holder_ never claims a lock the thread has not; no wakeup is lost; nobody is inside a latch that may be destroyed |
| AsyncLogging | two buffers and a list shared under mutex_, two spares and a list of the back end, running_, latch_ | Append, ThreadFunc, Start, Stop | FixedBuffer, LogFile, Thread; driven by Logger | buffers change hands between rounds, backlog is dropped, Stop notifies without the lock, restart | no message lost, doubled or reordered but by an announced drop; assertions hold; Stop returns |
| LogFile, FileUtil, Timestamp | count_, start_period_, last_roll_, last_flush_, written_bytes_ | Append, RollFile, Flush | the system clock, stdio | a clock that is set back, midnight, several rolls in a second, names in local time from a buffer other threads share | no long or old file stays open, bytes are flushed in time, a roll reopens no file but for summer time and that buffer |
| Logger | level, output and flush functions, per-thread cached time | LOG_ macros, the header, ~Logger, setters | LogStream, AsyncLogging, Timestamp, stdio | a cached time and a clock that goes back, one static tm for all threads, output exchanged while others log, abort after FATAL | a line shows its own time; a fatal line is written before the process ends |
| LogStream, FixedBuffer | bytes used, pieces kept | operator<< | Logger | a full buffer, numbers written in place before they are counted, the smallest integer | no line runs past the buffer, numbers read back |
| Buffer | bytes, reader_index_, write_index | PushBack, PushFront, EnsureWriteableBytes, reads, ReadFd, WriteFd, Swap, FindCRLF | readv, write | compaction, growth, unsigned wrap-around | it is a byte queue; the room it asserts is there |
| Channel, Poller, EpollPoller | events_, revents_, index_, add_to_loop_, event_handing_, four callbacks; channel_map_, event_list_, epoll's own table | Enable/Disable, Set...CallBack, Update, HandleEvent; UpdateChannel, RemoveChannel, Poll | epoll_ctl, epoll_wait, Logger | three copies of the same fact (channel, map, kernel), raw pointers in the kernel, reuse of descriptors, calls from callbacks, failing system calls, side effects in assertions | the three copies agree; no pointer dangles; what is reported is answered |
| EventLoop, CurrentThread | looping_, thread_id_, poller_; t_loop_in_this_thread, t_cached_tid | constructor, destructor, Loop (a stub), UpdateChannel, RemoveChannel, HaveChannel | Poller, Channel | tids are cached and given again, loops outlive threads and are destroyed by others | one thread inside a loop, one loop per thread |
| Socket, socket_ops, InetAddress, inet_endian | a descriptor; a union of two address families in network order | create, bind, listen, accept, connect, shut down, close, ask for addresses and errors | the kernel, peers, Logger | each failure is fatal or not; addresses cross byte orders and a union; a connection to oneself | an address comes out as it went in; self connections are recognised |
| Singleton, public_define | a static | Instance | Logger | none of their own | not modelled |

`PROJECT.json` lists the hazards found while reading, each at its line, with the
properties that would catch it.

## 2. Modules

| Module | Models | Runs |
|---|---|---|
| `ThreadPool` (`MCThreadPool`, `ThreadPoolProofs`) | `thread_pool.{h,cpp}` with Thread, MutexLock and Condition as it uses them | `thread_pool`, `thread_pool_live`, `thread_pool_join` |
| `CountDownLatch` (`MCCountDownLatch`, `CountDownLatchProofs`) | `count_down_latch`, `condition`, `mutex` | `count_down_latch` |
| `Latch` | abstract specification: a gate that opens when it was counted down | property `LatchSpec` |
| `AsyncLogging` (`MCAsyncLogging`, `AsyncLoggingProofs`) | `async_logging.{h,cpp}`, FixedBuffer, the singleton start and stop of `logger.cpp` | `async_logging` |
| `LogSink` | abstract specification: a queue of messages in front of a file | property `SinkSpec` |
| `NetBuffer` (`MCNetBuffer`, `NetBufferProofs`) | `buffer.{h,cpp}` | `net_buffer`, `net_buffer_read_fd` |
| `ByteQueue` | abstract specification: a queue of bytes | property `QueueSpec` |
| `EpollPoller` (`MCEpollPoller`, `EpollPollerProofs`) | `epoll_poller`, `poller`, `channel`, the calls `event_loop` passes on, the level of LOG_SYS messages | `epoll_poller` |
| `EventLoop` (`MCEventLoop`, `NetProofs`) | `event_loop`, `current_thread` | `event_loop` |
| `Socket` (`MCSocket`, `NetProofs`) | `socket`, `socket_ops`, `inet_address`, `inet_endian.h` | `socket` |
| `LogFile` (`LogFileProofs`) | `log_file.{h,cpp}`, `file_util.{h,cpp}` | `log_file` |
| `LogStream` | `log_stream.{h,cpp}`, `fixed_buffer.h` | used by `Logger` |
| `Logger` (`MCLogger`, `LoggerProofs`) | `logger.{h,cpp}`, the formatting of `timestamp.cpp` | `logger` |

Definitions marked "Mutant" in the modules are not part of the model.  Each
stands before the definition it varies and shows that a property notices a
plausible slip in that place.

### ThreadPool

Each thread has a program counter: `owner`, `commit[t]` (one Commit call per
task), `worker[w]`, `monitor`.  A step is what a thread does between two points
where another can see or disturb it.  Three choices deserve a word.

* A worker decides to sleep (`WorkerIdle`) and sleeps (`WorkerSleep`) in two
  steps, because ShutDown and the destructor change what it looked at, and
  notify, without the mutex.  The monitor does the same.
* `WorkerReacquire` chooses freely whether the wait timed out, also for a worker
  that was notified: `wait_for` reports a timeout if the deadline is past when the
  mutex is held again.
* Thread objects are numbered as they are created, so `std::list` order is the
  order of numbers.  Kernel tids come from a smaller set and are reused.

Contracts taken from callers: Commit starts while the pool is RUNNING (it
asserts that), and the pool is destroyed when no Commit is in progress.  A
ShutDown may overlap a Commit.

### CountDownLatch

Where ThreadPool takes a locked section as one step, this module takes every access
to the `std::mutex`, to `holder_` and to the condition variable as a step of its own:
`Lock`, `AssignHolder`, the body, `UnassignHolder`, `Unlock`, and in Wait the
UnAssignGuard around the sleep.  So it is here that the coarser steps of the other
modules are justified.  Any thread calls CountDown, Wait and GetCount in any order,
a sleeper may wake for no reason, and a thread that has returned from Wait may
destroy the latch when no other waits for it or reads it and no more CountDowns are
due, as the owner of a Thread may after Start; it cannot see whether the last
CountDown has returned.  The mapping to `Latch` keeps
the count and forgets locks and sleepers.

### AsyncLogging

Append and the back end's swap run under `mutex_` and are one step each; the back
end's writing touches only what it owns.  Append's Notify only ends a wait that
may end at any time, so `LoggerWake` is always enabled.  A buffer is the sequence
of messages in it and the bytes they use; a message that does not fit leaves no
trace, exactly like `FixedBuffer::Append`.  Start and Stop are called by one thread:
`g_is_default_async_started` is tested and set without a lock, and several threads
that start or stop at once are not modelled.

### NetBuffer

Bytes are kept: the refinement to `ByteQueue` is about them.  `ReadFd` has three
outcomes, according to how far `readv` got.  Where the code's unsigned difference
wraps, the model computes it modulo `SizeLimit` and either names the assertion
that fails or says "undefined".  `ByteQueue!ReceivePart` is what is left of the
promise when a read is at least as long as the buffer: its end may be lost.
PushFront and the reads are called within their asserted bounds.

### EpollPoller

The client constructs channels, sets events, removes and destroys channels,
polls and handles events, in any order, from a callback (`handing`) or not.
`kernel` is epoll's table.  `debug` and `sys_fails` are chosen once, in Init: both
builds, and system calls that work or may fail, are checked in one run.  What
the model takes from the client: RemoveChannel only for a channel that is
disabled and known, destruction only of a channel that is unknown, not active
and not being handled.  It also takes `EventLoop::poller_` as set; no code sets it
at this commit.  The order of the list of active channels is left open.

`callbacks` are the ones of the four that are set; a client may set or clear some
of them at any time (several calls in a row are one step: all happen in one thread), and `CallBacks` gives those that HandleEvent runs: the branch is
taken and the function is not empty.  A channel whose callbacks are not set is
reported by epoll and does nothing, which is what the code does; `PollFindsWork` says
which callbacks are enough.  It also says that a channel is returned only for what it
waits for when it is polled.  When it is handled it may already have been disabled by
another channel's callback, and its old `revents_` still run its callbacks.

### EventLoop

Which thread may use which loop.  A thread has a kernel tid while it runs; the
kernel gives the tid of a thread that has ended to a new one, whose thread-local
variables are new.  A loop may outlive the thread that made it and may be
destroyed in any thread; the destructor then resets the variable of the wrong one,
which the history variable `strayed` records.  A failed check ends the process
(`fault`).  The destructor is called while no call to the loop is in progress.
`Loop` is a five-second poll at this commit: begin, `looping_` set, end.

### Socket

Numbers are the bytes they have in memory on a little-endian machine, so
`HostToNetwork` really reverses them and a forgotten or doubled conversion shows.
`InetAddress` is a record of the fields of the union that can be told apart.  The
kernel (descriptors, endpoints, refused and reset connections, calls that fail) and
the peers are external.  What follows a failed call is what the log macro really does: a message
of LOG_SYS_FATAL is survived, one of LOG_SYS_ERROR aborts (see the findings).

### LogStream and Logger

A stream is the number of bytes used and the pieces kept.  Integers and pointers
are converted by the loop of the code, with C++ division, which rounds towards 0.
A thread's Logger goes through construction (time, header), streaming, Finish,
Output and, for a FATAL line, Flush and Abort, so that other threads, the clock
and the setters come between.  `std::localtime`'s static buffer is `tm`; filling and
reading it are two steps, and the race between them is a wrong time, whoever filled
it last.  A time that went through such a race is marked (`raced`) as long as it is
cached.

### LogFile

`Tick` sets the clock to any second, forwards or backwards.  `written_bytes` and
the age of the oldest unflushed byte stand for the contents.  `count` wraps at
`IntMax`.  Local time falls back at `ZoneChange`.  ToFormatString reads it from the static
buffer of `std::localtime`, which other threads' log lines overwrite: the name it
makes is one of a set, the file's own second or one of `OtherTimes`.  (`Logger` has the
steps of that race; here its outcomes are enough.)  A roll may therefore continue an
existing file, and `FileNameIsNew` says exactly when it may not.

## 3. Runs

Passing runs:

* `thread_pool`: three Commits, queue limit 1, core 1, maximum 2, three Thread
  objects on two tids, Release build (so that a Commit that races ShutDown goes
  on).  Three Commits are enough for a queue with room, a full queue that adds a
  worker, and a full queue at the maximum; one worker more than the maximum lets
  a retired one be replaced while its tid is reused.  Tasks are symmetric.  Shows
  CountersExact, SizeWithinBounds, AcceptedTasksRan and MonitorJoinsRetired.
* `thread_pool_live`: two Commits, two workers, fair scheduling, no symmetry.
  Shows that accepted tasks run, retired workers are reaped and the destructor of
  a pool that was shut down returns.
* `async_logging`: buffers of 3 bytes, messages of 1, 2 and 3 bytes (two share a
  buffer, one does not fit beside another, one fits nowhere), a backlog limit of 2
  in place of 25, five messages, two starts.  Five messages fill more buffers
  than the limit and leave one half full.
* `net_buffer`: 1 byte of prepend area, 2 more to start with, growth to 5, strings
  of up to 4 bytes with two values; every path of MakeSpace and ReadFd occurs.
* `epoll_poller`: channels c1 and c2 share a descriptor number, c3 has another; an
  event list of 2 that both descriptors fill; one set of events for each way through
  HandleEvent; no callback or all four (the theorem is about every combination).  c1
  and c2 are symmetric.
* `log_file`: days of 4 seconds, six seconds, so midnight, the end of summer time
  and every order of roll, flush and append occur, with a count that overflows.  A name
  may show second 3 instead of its own, so that two raced names, and a raced name and
  a right one, meet.
* `count_down_latch`: three threads, two calls each, a count of 2: there are more
  CountDowns than the count, waits that sleep and waits that do not, and several
  sleepers for one NotifyAll.  Shows that `holder_` is right whenever a thread reads
  it, that no sleeper is forgotten, that nobody is inside a destroyed latch, and
  LatchSpec with its liveness.
* `event_loop`: three threads on two tids, so that a tid is given again, and two
  loops, so that a thread may try a second one and a loop may be inherited by a
  namesake.  Threads and loops are symmetric.
* `logger`: two threads, three lines, a buffer of 10 bytes with numbers of at most 5,
  pieces that fill it, the smallest number of an 8-bit type and a null pointer;
  two seconds between which the clock goes back and forth.  Two threads are enough
  for the race in `localtime`, three lines for a time that is cached and used again.
* `socket`: two descriptors, both families, ports 80 and 20480, whose bytes are each
  other's swapped, clients of both families, one of them on the loopback address of
  this machine, one waiting connection.  Two descriptors are one that listens
  and one that is accepted, or one that connects to itself beside another.

Runs that end in a violation, each a disagreement between the code and what an
assertion, a macro or a test of the repository says of it (details under
"findings"):

* `thread_pool_join`: the destructor and the monitor join the same Thread.
* `net_buffer_read_fd`: a read that takes up all writeable bytes, with or without
  going on into `extra_buf`, and is shorter than the whole storage makes `n - write_index`
  in ReadFd wrap; MakeSpace's assertion fails.

Disagreements recorded under "findings" that need no interleaving to see, and have
no run of their own: a pool with a core size of 0, the default on one processor,
never runs an accepted task; FillActiveChannels asserts `<` where Poll handles a
full list; RemoveChannel erases inside an assertion, which a Release build leaves
out; `is_abort ? ERROR : FATAL` is inverted, so a failed EPOLL_CTL_ADD is survived and
a failed DEL is not; GetSocketError passes a length of 0 and always returns 0;
StrErrorR ignores what the GNU strerror_r returns; `Buffer::Swap` does not exchange
the write indices; Resolve does not look at the request's own result.  Where the
code concerned is modelled, the model does what the code does.

Observed while modelling: the destructor of the pool does not join the monitor,
which may still use its mutexes; a logger that is started again fails
`assert(!started_)` in a Debug build; a channel that was ever enabled cannot be
destroyed in a Debug build, because `add_to_loop_` is reset only in the private,
uncalled `Channel::Remove`, whose assertion contradicts that of RemoveChannel;
`Channel::IsReading` and `IsWriting` are exchanged; messages appended after the last
swap before Stop stay in memory, and so does the line of a FATAL message;
kMaxTaskSize_ does not bound the queue.

## 4. Fairness

ThreadPool: weak fairness on the steps of each worker, of each Commit once it has
begun, of the monitor and of the owner once it is in the constructor or
destructor.  That is a scheduler that runs every runnable thread, tasks that
return, and waits that end after `kIdleTimeoutSeconds_`.  Nobody has to commit,
shut down or destroy, and spurious wakeups need not happen.  Strong fairness is
assumed in one place: a retiring worker gets `monitor_mutex_` in the end although
a monitor that kept waking spuriously could take it first every time.

AsyncLogging: weak fairness on the back end, whose wait ends after
`flush_interval_`, and on the return of Start and Stop.  None on Append, Start or
Stop themselves.

CountDownLatch: weak fairness on the steps of each thread once it is in a call, which
is a scheduler that runs every runnable thread and a mutex that is free long enough
to be had, since every thread makes finitely many calls.  Nobody has to call, and a
spurious wakeup need not happen.

The other modules have no liveness properties: nothing in them waits for another
thread.  EventLoop and Logger have threads, but each call of theirs ends by itself.

## 5. Proofs

All theorems are checked by TLAPS for every value of the constants that satisfies
the modules' ASSUMEs.

* **ThreadPoolProofs.**  `CountersExact` alone is not inductive: that a counter
  goes down by one with a worker's exit needs finite cardinalities, and that it
  goes up with a new one needs to know that the next object's number is unused.
  The invariant `IInv` adds Created (objects beyond `created` do not exist), HoldsTask
  (a busy worker has a task), HasTid (a worker that has begun has a tid),
  MonitorHasEntry (a joining monitor has an entry to join) and CoreComing (while
  the constructor runs, the workers it has still to add make up the core).
  CoreComing gives the lower bound of SizeWithinBounds; it is kept because a
  retirement's check and decrement both happen under `tasks_mutex`.  From it:
  TypeCorrect, CountersAreExact, SizeStaysWithinBounds.

  A second layer, proved on top of `IInv`, has three parts.  `TidInv` is about tids,
  which are reused: each entry of `monitor_thread_free` has a retired worker of its
  own with that tid (`EntriesHaveWorkers`, an injection), and all workers with one tid
  but the youngest have exited (`OlderExited`), so the first one that Find meets is
  never a live one: MonitorJoinsOnlyRetired.  `Places` says that a task is in one
  place: not yet queued, queued once, held by one worker, or run once.  `Ending`
  says that no Commit outlives the pool, that what the destructor has walked past has
  exited, and that while an accepted task is queued a worker is left (`Served`): the
  last worker leaves a stopping pool only when it finds the queue empty, and a task
  queued after that is not an accepted one.  Together they give AcceptedTasksAreRun.
  Its hypotheses, CorePoolSize > 0 and MaxPoolSize > 0, are not for the prover's
  sake: a pool without a core may keep a queued task and no worker (see the findings).
* **CountDownLatchProofs.**  None of the properties is inductive alone.  `IInv` adds TypeOK,
  LockExact (who owns the `std::mutex` and who is in `holder_` follow from the program
  counters), CallExact (what a thread may be doing in which call), GateExact (a
  thread goes to sleep only at a closed latch and leaves Wait only at an open one),
  CountExact (the count is the initial one less the CountDowns that have counted: a
  cardinality, since several may be under way) and PassedOpen (once a Wait has
  returned, the latch is open for good).  NoLostWakeup then holds because the test
  and the sleep are under one lock.  ImplementsLatch is the safety part of LatchSpec.
* **NetProofs, EventLoop.**  The module extends EventLoop and Socket, which share no
  state; Socket's specification is therefore called `SocketSpec`.  `LoopInv` is
  TidsExact (running threads have different tids and
  cache their own), InsideExact (a thread inside a loop has the loop's tid),
  MakerExact (a loop has its maker's tid while that runs) and OneLoopPerThread.
  From it: LoopOfOneThread and LoopIsCurrent.
* **NetProofs, Socket.**  The first half is about addresses.  A port is told from
  every other by its two bytes, and reversing them twice gives them back (PortBytes,
  PortBytesTell, ReverseTwo); so an InetAddress, whichever constructor filled the union,
  names to the kernel the endpoint its arguments mean (InetAddressMeans), the address
  the kernel writes prints as its endpoint (AddressPrints), and two addresses of one
  family agree where IsSelfConnect looks just when the endpoints are the same
  (SameAddress).  The second half is the invariant.  EndpointsExact and SelfConnectExact
  are not inductive; `SocketInv` is SocketsExact (a socket is where it was asked to be, both
  its ends have one family once it has two, and `self` is recorded just when they are
  the same), QueuesExact (connections wait only at listening sockets, have their family,
  and none comes from the very endpoint it is accepted at) and AddressExact (the
  InetAddress that Accept fills prints what was put into it last, whatever the union held
  before).  The part about queues is what the attempt to prove SelfConnectExact asked
  for: a client cannot have the endpoint the listening socket has on the loopback
  address, which the kernel sees to and the model at first did not say.
  GivenAssumption says that a port is a uint16_t other than 0 and that a text stands for
  4 or 16 bytes.
* **AsyncLoggingProofs.**  The assertions of ThreadFunc follow from SparesReady (at
  the top of the loop both spares are there and empty), SpareUsedIsQueued (if the
  front end used its spare, it queued a buffer first) and EnoughTaken (after the
  swap there are as many buffers as spares to refill, also after the cut to two,
  as DropLimit >= 2).  ImplementsSink is the whole of SinkSpec: LogSink's queue is
  what the buffers to write, the queued buffers and the current one contain, one
  after the other.  What a list of buffers contains is a recursive function, about
  which the library's induction theorems cannot be used; instead, each fact about
  it is proved by a least counterexample (LeastNat, from the well-foundedness of <):
  the function exists (SumsExist) and is unique (SumsSame), so that the contents of a
  list that grows at its end, is taken over, or is cut are known (ContentsRules).
  SinkInv adds that spares hold no message (SparesClean), which is what makes the swap
  a stutter of the queue.  RunningWhenBegun needs FirstStart: the latch is closed
  until the first thread has begun, so that Start has not returned.
* **NetBufferProofs.**  TypeOK, with ordered indices and a storage that never
  shrinks, is inductive.  The space assertions follow from it.  ImplementsQueue
  maps `Readable` to the queue's content: every operation is a step of ByteQueue or
  a stutter.
* **LogFileProofs.**  `IInv` adds TimesInOrder (last flush, oldest byte and clock are
  in order as long as the clock did not go back).  From it: LongFilesRoll and
  FlushesInTime.  LongFilesRoll bounds the length only up to the second of the roll:
  an Append with a clock that was set back behind it cannot roll.  `FileInv` says that
  `start_period_` is the day of the last roll and that every earlier file was opened in
  an earlier second than the open one, which is true even when the clock goes back,
  because RollFile only rolls forward; with what days and local times are (DayMonotone,
  by integer division, and SameName) it gives FilesAreOfOneDay and FileNamesAreNew.
* **EpollPollerProofs.**  InterestInSync is not inductive: it says nothing of channels
  that share a descriptor number.  `IInv` adds FdUnique (channels that exist have
  different descriptors), NewIsBlank (a channel that does not exist or is not known
  has no events), EntryOfChannel (an entry of epoll's table is a registered channel of
  that descriptor, also when calls fail), AddedIsWatched (the converse, when they do
  not) and MapOfChannels (a Debug build's map).  From it, in both builds:
  InterestStaysInSync, PointersAreAlive, MapStaysExact and the action property
  EventsAreHandled.  The last needs EntryOfChannel and AddedIsWatched, which make the
  events epoll reports those of the channel's own interest, and EventHasBranch, that
  every event takes some branch of HandleEvent.
* **LoggerProofs.**  A stream always has a byte left (PutType), so has a whole header
  (PutAllType, again by a least counterexample), and a newline is left out only when
  one byte is left (PutEnd): LinesFit.  It rests on PiecesAssumption: a number is
  shorter than kMaxNumericSize, as 64 bits and `%.12g` are.  TimesMatch says that a
  thread between localtime and the use of its result either sees its own second in
  the static buffer or finds that another thread filled it, and that a cached text
  that was not raced is that of the cached second: LinesShowTheirTime.  FatalOnItsWay
  says that the line of a thread about to flush is in stdout's buffer, written or in
  memory: FatalLinesAreWritten.

  NumbersAreReadBack is about the loop that converts integers: the digits it leaves,
  read back, are the number, for every integer in base 10 and 16, also for the
  smallest number of a type, which has no positive counterpart, because each digit is
  taken with its own sign.  The digits are a recursive function over all integers, not over an interval;
  that it exists, and what it computes, are proved by a least counterexample on the
  absolute value, which division by the base makes smaller.  NumericSizeIsEnough is
  the other half of PiecesAssumption for integers and pointers: every 64-bit integer,
  with or without a sign, and every address has a text shorter than the 48 bytes of
  kMaxNumericSize.

Checked by TLC only: the liveness properties, that of LatchSpec included, which are
out of the prover's reach, and the two violations.  Every invariant and every action
property of the passing runs is a theorem.

## 6. Not modelled

* Singleton (std::call_once and atexit) and public_define (casts and macros): no
  protocol of their own.
* `Channel::Remove`, `Buffer::Swap` and `FixedBuffer::BZero`, which nothing calls;
  `Buffer::FindCRLF`, a call of std::search.
* Text: the wording of log lines, thread names, doubles (snprintf), file names
  without their directory.
* Socket options whose result the code ignores, GetTcpInfo, and `InetAddress::Resolve`,
  which waits for a name server and keeps no state.
* `EventLoop::Loop` beyond the stub it is, and therefore what happens when a callback
  removes another channel of the list of active ones: no loop calls the handlers yet.
* A failing `fopen`: the code goes on with a null FILE pointer.  Exceptions in thread
  functions.
* Binding to port 0, for which the kernel picks a port: GivenAssumption excludes it.
* Big-endian machines.

## 7. Plan

The order was: the pool and the logger's back end first, as the concurrent core;
the buffer and the poller, the core of the network part; the file; then the
primitives below them (latch, mutex, condition), the event loop's thread affinity,
the front end of the logger and the sockets.  These stand.  What is left:

1. AsyncLogging composed with LogFile: the age of a message in the file.
2. `EventLoop::Loop`, once the repository has it.
