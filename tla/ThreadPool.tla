------------------------------ MODULE ThreadPool ------------------------------
(***************************************************************************)
(* turbo::ThreadPool (src/src/base/thread_pool.{h,cpp}) with the parts of  *)
(* turbo::Thread it leans on (Start, Join).                                *)
(*                                                                         *)
(* Four kinds of thread run: the owner, which constructs the pool, may     *)
(* call ShutDown and destroys it; one Commit call per task; the workers;   *)
(* and the monitor, which joins workers that retired after an idle         *)
(* timeout.  Each has a program counter.  A step is what a thread does     *)
(* between two points at which another thread can observe or disturb it:   *)
(* taking a mutex, sleeping on a condition variable, joining a thread.     *)
(*                                                                         *)
(* Thread objects are numbered in the order AddThread creates them, so the *)
(* std::list thread_pool_ (always appended to at the back) is the set of   *)
(* numbers in it, read in increasing order.                                *)
(***************************************************************************)
EXTENDS Integers, Sequences, FiniteSets

CONSTANTS
  Tasks,         \* the tasks given to Commit, one call each
  MaxPoolSize,   \* kMaxPoolSize_
  CorePoolSize,  \* kCorePoolSize_
  MaxTaskSize,   \* kMaxTaskSize_
  MaxThreads,    \* bound: how many Thread objects AddThread may create
  Tids,          \* kernel thread ids; reused once their thread has exited
  Debug,         \* TRUE: assert() is compiled in; FALSE: NDEBUG (Release)
  None,          \* an unlocked mutex, an absent task
  Owner, Monitor \* the two threads that are neither a worker nor a Commit

Workers == 1 .. MaxThreads

\* ThreadPool sizes are unsigned; the sizes may be 0 (hardware_concurrency()
\* may return 0 or 1, and the default core size is half of it).
ASSUME PoolAssumption ==
  /\ MaxPoolSize \in Nat /\ CorePoolSize \in Nat /\ MaxTaskSize \in Nat
  /\ MaxThreads \in Nat
  /\ Tids \subseteq Nat \ {0}
  /\ Debug \in BOOLEAN

ASSUME NamesAssumption ==
  /\ None \notin Tasks \cup Workers \cup {Owner, Monitor}
  /\ Owner \notin Tasks \cup Workers \cup {Monitor}
  /\ Monitor \notin Tasks \cup Workers
  /\ Tasks \cap Workers = {}

VARIABLES
  thread_pool_status,                              \* thread_pool_status_
  idle_thread_num, now_thread_num,                 \* the atomic counters
  tasks,                                           \* tasks_
  monitor_thread_free,                             \* tids of retired workers
  tasks_mutex, thread_pool_mutex, monitor_mutex,   \* holder, or None
  thread_pool, created, tid, joined,               \* Thread objects
  worker, holding,                                 \* workers and their task
  commit, size,                                    \* Commit calls; AddThread's size
  owner, it,                                       \* the owner; ~ThreadPool's iterator
  monitor,                                         \* TP_Monitor
  fault,                                           \* how the process died, or "none"
  ran, accepted                                    \* history: runs per task;
                                                   \* tasks queued while RUNNING

counters == <<idle_thread_num, now_thread_num>>
vars == <<thread_pool_status, counters, tasks, monitor_thread_free,
          tasks_mutex, thread_pool_mutex, monitor_mutex, thread_pool, created,
          tid, joined, worker, holding, commit, size, owner, it, monitor,
          fault, ran, accepted>>

\* What the steps of a worker, of Commit and AddThread, of the monitor and of
\* the owner never change.
notWorker  == <<thread_pool_mutex, thread_pool, created, joined, commit, size,
                owner, it, fault, accepted>>
notCommit  == <<thread_pool_status, monitor_thread_free, monitor_mutex, tid,
                joined, holding, it, monitor, ran>>
notMonitor == <<thread_pool_status, counters, tasks, tasks_mutex, created, tid,
                worker, holding, commit, size, owner, it, ran, accepted>>
notOwner   == <<counters, tasks, monitor_thread_free, tasks_mutex,
                thread_pool_mutex, monitor_mutex, thread_pool, created, tid,
                holding, commit, size, ran, accepted>>

-----------------------------------------------------------------------------
(* Thread, MutexLock and Condition as the pool uses them.                  *)

\* MutexLock::Lock by thread p; blocks while the mutex has a holder.
Lock(mutex, p) == mutex = None /\ mutex' = p

UnLock(mutex) == mutex' = None

\* std::list order: the first Thread object behind position n, 0 for end().
ListNext(n) ==
  LET behind == {v \in thread_pool : v > n}
  IN  IF behind = {} THEN 0 ELSE CHOOSE v \in behind : \A u \in behind : v <= u

\* A worker's kernel thread exists from Start until its function returned.
Alive(w) == worker[w] \notin {"none", "exited"}

\* Thread::Start's child side: cache the tid, count the latch down, run
\* the thread function.  The kernel hands out any tid no live thread has.
ThreadStart(w) ==
  /\ worker[w] = "born"
  /\ \E i \in Tids :
       /\ \A v \in Workers : Alive(v) => tid[v] # i
       /\ tid' = [tid EXCEPT ![w] = i]
  /\ worker' = [worker EXCEPT ![w] = "top"]
  /\ UNCHANGED <<notWorker, thread_pool_status, counters, tasks,
                 monitor_thread_free, tasks_mutex, monitor_mutex, holding,
                 monitor, ran>>

\* task_cv_.Notify() wakes one sleeping worker, if there is one.
TaskNotify ==
  LET asleep == {w \in Workers : worker[w] = "wait"}
  IN  \/ asleep = {} /\ UNCHANGED worker
      \/ \E w \in asleep : worker' = [worker EXCEPT ![w] = "woken"]

\* Mutant: the notification of the monitor is left out.
MonitorNotNotified == UNCHANGED monitor

\* monitor_cv_.Notify(): the monitor is the only thread that sleeps on it.
MonitorNotify == monitor' = IF monitor = "wait" THEN "woken" ELSE monitor

-----------------------------------------------------------------------------
(* The worker loop: the lambda in AddThread.                               *)

\* Mutant: the loop condition forgets the status.
KeepWaitingAnyStatus == tasks = <<>>

\* The condition of the inner while loop.
KeepWaiting == thread_pool_status = "RUNNING" /\ tasks = <<>>

\* Mutant: the exiting worker forgets --now_thread_num_.
LeaveIdleOnly == idle_thread_num' = idle_thread_num - 1 /\ UNCHANGED now_thread_num

\* A worker that exits takes itself out of both counters.
LeaveCounters ==
  /\ idle_thread_num' = idle_thread_num - 1
  /\ now_thread_num' = now_thread_num - 1

\* Mutant: ++idle_thread_num_ is left out.
TaskDoneUncounted == UNCHANGED idle_thread_num

\* Back from task(): the worker is idle again.
TaskDone == idle_thread_num' = idle_thread_num + 1

\* Mutant: a worker exits on ShutDown without draining the queue.
TerminateUndrained == thread_pool_status # "RUNNING"

\* A worker that has left the inner loop exits once the queue is drained.
MayTerminate == thread_pool_status # "RUNNING" /\ tasks = <<>>

\* Mutant: off by one, the last core worker may retire too.
MayRetireAtCore == now_thread_num >= CorePoolSize

\* A timed-out worker may retire only if the pool is above its core size.
MayRetire == now_thread_num > CorePoolSize

WorkerLock(w) ==
  /\ worker[w] = "top"
  /\ Lock(tasks_mutex, w)
  /\ worker' = [worker EXCEPT ![w] = "loop"]
  /\ UNCHANGED <<notWorker, thread_pool_status, counters, tasks,
                 monitor_thread_free, monitor_mutex, tid, holding, monitor,
                 ran>>

\* Nothing to do: go to sleep.  The decision and the sleep are two steps,
\* because ShutDown and ~ThreadPool do not take tasks_mutex_.
WorkerIdle(w) ==
  /\ worker[w] = "loop" /\ KeepWaiting
  /\ worker' = [worker EXCEPT ![w] = "towait"]
  /\ UNCHANGED <<notWorker, thread_pool_status, counters, tasks,
                 monitor_thread_free, tasks_mutex, monitor_mutex, tid,
                 holding, monitor, ran>>

WorkerSleep(w) ==
  /\ worker[w] = "towait"
  /\ UnLock(tasks_mutex)
  /\ worker' = [worker EXCEPT ![w] = "wait"]
  /\ UNCHANGED <<notWorker, thread_pool_status, counters, tasks,
                 monitor_thread_free, monitor_mutex, tid, holding, monitor,
                 ran>>

\* The wait ends without a notification: kIdleTimeoutSeconds_ have passed,
\* or the wakeup is spurious.
WorkerWake(w) ==
  /\ worker[w] = "wait"
  /\ worker' = [worker EXCEPT ![w] = "woken"]
  /\ UNCHANGED <<notWorker, thread_pool_status, counters, tasks,
                 monitor_thread_free, tasks_mutex, monitor_mutex, tid,
                 holding, monitor, ran>>

\* wait_for reports a timeout when the deadline is past once the mutex is
\* held again, so even a worker that was notified can come back timed out.
WorkerReacquire(w, timedout) ==
  /\ worker[w] = "woken"
  /\ Lock(tasks_mutex, w)
  /\ IF timedout /\ MayRetire
     THEN /\ LeaveCounters
          /\ worker' = [worker EXCEPT ![w] = "retire"]
     ELSE /\ UNCHANGED counters
          /\ worker' = [worker EXCEPT ![w] = "loop"]
  /\ UNCHANGED <<notWorker, thread_pool_status, tasks, monitor_thread_free,
                 monitor_mutex, tid, holding, monitor, ran>>

\* Under monitor_mutex_, still holding tasks_mutex_: leave the tid for the
\* monitor and notify it.
WorkerRetire(w) ==
  /\ worker[w] = "retire"
  /\ monitor_mutex = None
  /\ monitor_thread_free' = Append(monitor_thread_free, tid[w])
  /\ MonitorNotify
  /\ worker' = [worker EXCEPT ![w] = "leave"]
  /\ UNCHANGED <<notWorker, thread_pool_status, counters, tasks, tasks_mutex,
                 monitor_mutex, tid, holding, ran>>

WorkerLeave(w) ==
  /\ worker[w] = "leave"
  /\ UnLock(tasks_mutex)
  /\ worker' = [worker EXCEPT ![w] = "exited"]
  /\ UNCHANGED <<notWorker, thread_pool_status, counters, tasks,
                 monitor_thread_free, monitor_mutex, tid, holding, monitor,
                 ran>>

WorkerTerminate(w) ==
  /\ worker[w] = "loop" /\ MayTerminate
  /\ thread_pool_status' = "TERMINATED"
  /\ LeaveCounters
  /\ UnLock(tasks_mutex)
  /\ worker' = [worker EXCEPT ![w] = "exited"]
  /\ UNCHANGED <<notWorker, tasks, monitor_thread_free, monitor_mutex, tid,
                 holding, monitor, ran>>

WorkerPop(w) ==
  /\ worker[w] = "loop" /\ ~KeepWaiting /\ ~MayTerminate
  /\ holding' = [holding EXCEPT ![w] = Head(tasks)]
  /\ tasks' = Tail(tasks)
  /\ UnLock(tasks_mutex)
  /\ worker' = [worker EXCEPT ![w] = "popped"]
  /\ UNCHANGED <<notWorker, thread_pool_status, counters, monitor_thread_free,
                 monitor_mutex, tid, monitor, ran>>

WorkerBegin(w) ==
  /\ worker[w] = "popped"
  /\ idle_thread_num' = idle_thread_num - 1
  /\ worker' = [worker EXCEPT ![w] = "busy"]
  /\ UNCHANGED <<notWorker, thread_pool_status, now_thread_num, tasks,
                 monitor_thread_free, tasks_mutex, monitor_mutex, tid,
                 holding, monitor, ran>>

WorkerFinish(w) ==
  /\ worker[w] = "busy"
  /\ ran' = [ran EXCEPT ![holding[w]] = @ + 1]
  /\ holding' = [holding EXCEPT ![w] = None]
  /\ TaskDone
  /\ worker' = [worker EXCEPT ![w] = "top"]
  /\ UNCHANGED <<notWorker, thread_pool_status, now_thread_num, tasks,
                 monitor_thread_free, tasks_mutex, monitor_mutex, tid,
                 monitor>>

WorkerStep(w) ==
  \/ ThreadStart(w) \/ WorkerLock(w) \/ WorkerIdle(w) \/ WorkerSleep(w)
  \/ WorkerWake(w) \/ \E timedout \in BOOLEAN : WorkerReacquire(w, timedout)
  \/ WorkerRetire(w) \/ WorkerLeave(w) \/ WorkerTerminate(w)
  \/ WorkerPop(w) \/ WorkerBegin(w) \/ WorkerFinish(w)

-----------------------------------------------------------------------------
(* Commit and AddThread.  AddThread runs in the constructor (owner) and in *)
(* a Commit that finds the queue full; p is the thread that runs it.       *)

HasRoom == MaxTaskSize > Len(tasks)

\* The loop condition of AddThread.
MayGrow == now_thread_num < MaxPoolSize /\ size > 0

Adding(p, at) == IF p = Owner THEN owner = at ELSE commit[p] = at

\* AddThread's caller p goes on at the given point.
AddGoto(p, at) ==
  IF p = Owner THEN owner' = at /\ UNCHANGED commit
               ELSE commit' = [commit EXCEPT ![p] = at] /\ UNCHANGED owner

\* tasks_.emplace_back; a task queued while the pool is RUNNING is accepted.
Enqueue(t) ==
  /\ tasks' = Append(tasks, t)
  /\ accepted' = IF thread_pool_status = "RUNNING" THEN accepted \cup {t}
                                                   ELSE accepted

\* A caller keeps to the contract Commit asserts: the pool exists and is
\* RUNNING when the call starts.
CommitCall(t) ==
  /\ commit[t] = "new" /\ owner = "ready"
  /\ thread_pool_status = "RUNNING"
  /\ commit' = [commit EXCEPT ![t] = "lock"]
  /\ UNCHANGED <<notCommit, counters, tasks, tasks_mutex, thread_pool_mutex,
                 thread_pool, created, worker, size, owner, fault, accepted>>

CommitLock(t) ==
  /\ commit[t] = "lock"
  /\ tasks_mutex = None
  /\ IF HasRoom
     THEN /\ Enqueue(t)
          /\ commit' = [commit EXCEPT ![t] = "notify"]
          /\ UNCHANGED <<tasks_mutex, size>>
     ELSE /\ tasks_mutex' = t
          /\ size' = 1
          /\ commit' = [commit EXCEPT ![t] = "add"]
          /\ UNCHANGED <<tasks, accepted>>
  /\ UNCHANGED <<notCommit, counters, thread_pool_mutex, thread_pool, created,
                 worker, owner, fault>>

\* The task is queued even when AddThread could not add a worker.
CommitEnqueueFull(t) ==
  /\ commit[t] = "added"
  /\ Enqueue(t)
  /\ UnLock(tasks_mutex)
  /\ commit' = [commit EXCEPT ![t] = "notify"]
  /\ UNCHANGED <<notCommit, counters, thread_pool_mutex, thread_pool, created,
                 worker, size, owner, fault>>

CommitNotify(t) ==
  /\ commit[t] = "notify"
  /\ TaskNotify
  /\ commit' = [commit EXCEPT ![t] = "done"]
  /\ UNCHANGED <<notCommit, counters, tasks, tasks_mutex, thread_pool_mutex,
                 thread_pool, created, size, owner, fault, accepted>>

\* AddThread asserts RUNNING again: a ShutDown since Commit's own assert
\* kills a Debug build here.
AddThreadEnter(p) ==
  /\ Adding(p, "add")
  /\ IF Debug /\ thread_pool_status # "RUNNING"
     THEN fault' = "AddThread" /\ UNCHANGED <<owner, commit>>
     ELSE AddGoto(p, "addlock") /\ UNCHANGED fault
  /\ UNCHANGED <<notCommit, counters, tasks, tasks_mutex, thread_pool_mutex,
                 thread_pool, created, worker, size, accepted>>

AddThreadLock(p) ==
  /\ Adding(p, "addlock")
  /\ Lock(thread_pool_mutex, p)
  /\ AddGoto(p, "spawn")
  /\ UNCHANGED <<notCommit, counters, tasks, tasks_mutex, thread_pool, created,
                 worker, size, fault, accepted>>

\* One iteration: a new Thread object at the back of the list, both counters,
\* Thread::Start, which then waits for the child's latch.
AddThreadSpawn(p) ==
  /\ Adding(p, "spawn") /\ MayGrow
  /\ created < MaxThreads
  /\ created' = created + 1
  /\ thread_pool' = thread_pool \cup {created'}
  /\ idle_thread_num' = idle_thread_num + 1
  /\ now_thread_num' = now_thread_num + 1
  /\ worker' = [worker EXCEPT ![created'] = "born"]
  /\ size' = size - 1
  /\ AddGoto(p, "latch")
  /\ UNCHANGED <<notCommit, tasks, tasks_mutex, thread_pool_mutex, fault,
                 accepted>>

\* Thread::Start returns once the child has counted the latch down.
AddThreadStarted(p) ==
  /\ Adding(p, "latch") /\ tid[created] # 0
  /\ AddGoto(p, "spawn")
  /\ UNCHANGED <<notCommit, counters, tasks, tasks_mutex, thread_pool_mutex,
                 thread_pool, created, worker, size, fault, accepted>>

AddThreadReturn(p) ==
  /\ Adding(p, "spawn") /\ ~MayGrow
  /\ UnLock(thread_pool_mutex)
  /\ AddGoto(p, IF p = Owner THEN "ready" ELSE "added")
  /\ UNCHANGED <<notCommit, counters, tasks, tasks_mutex, thread_pool, created,
                 worker, size, fault, accepted>>

AddThread(p) ==
  \/ AddThreadEnter(p) \/ AddThreadLock(p) \/ AddThreadSpawn(p)
  \/ AddThreadStarted(p) \/ AddThreadReturn(p)

\* What a started Commit call does.
CommitStep(t) ==
  CommitLock(t) \/ CommitEnqueueFull(t) \/ CommitNotify(t) \/ AddThread(t)

-----------------------------------------------------------------------------
(* The monitor: the lambda in InitThreadMonitor.                           *)

WithTid(i) == {w \in thread_pool : tid[w] = i}

\* Mutant: the list is searched from the back.
FindLast(i) == CHOOSE w \in WithTid(i) : \A v \in WithTid(i) : w >= v

\* find_if over thread_pool_: the first object that has the given tid.
Find(i) == CHOOSE w \in WithTid(i) : \A v \in WithTid(i) : w <= v

MonitorLock ==
  /\ monitor = "top"
  /\ Lock(monitor_mutex, Monitor)
  /\ monitor' = "test"
  /\ UNCHANGED <<notMonitor, monitor_thread_free, thread_pool_mutex,
                 thread_pool, joined, fault>>

MonitorTest ==
  /\ monitor = "test"
  /\ monitor' = IF monitor_thread_free = <<>> THEN "towait" ELSE "reap"
  /\ UNCHANGED <<notMonitor, monitor_thread_free, monitor_mutex,
                 thread_pool_mutex, thread_pool, joined, fault>>

MonitorSleep ==
  /\ monitor = "towait"
  /\ UnLock(monitor_mutex)
  /\ monitor' = "wait"
  /\ UNCHANGED <<notMonitor, monitor_thread_free, thread_pool_mutex,
                 thread_pool, joined, fault>>

MonitorSpuriousWake ==
  /\ monitor = "wait"
  /\ monitor' = "woken"
  /\ UNCHANGED <<notMonitor, monitor_thread_free, monitor_mutex,
                 thread_pool_mutex, thread_pool, joined, fault>>

\* Back from Wait() with the mutex; the only place the status is read.
MonitorReacquire ==
  /\ monitor = "woken" /\ monitor_mutex = None
  /\ IF thread_pool_status # "RUNNING"
     THEN monitor' = "returned" /\ UNCHANGED monitor_mutex
     ELSE monitor' = "test" /\ monitor_mutex' = Monitor
  /\ UNCHANGED <<notMonitor, monitor_thread_free, thread_pool_mutex,
                 thread_pool, joined, fault>>

\* Take thread_pool_mutex_ and join the retired worker; joining an object
\* that is already joined is an assertion (Debug) or a std::system_error
\* that ends in abort() (Release).
MonitorFind ==
  /\ monitor = "reap" /\ monitor_thread_free # <<>>
  /\ thread_pool_mutex = None
  /\ IF WithTid(Head(monitor_thread_free)) = {}
     THEN /\ monitor_thread_free' = Tail(monitor_thread_free)
          /\ UNCHANGED <<thread_pool_mutex, joined, fault, monitor>>
     ELSE LET w == Find(Head(monitor_thread_free))
          IN  /\ fault' = IF w \in joined THEN "Join" ELSE fault
              /\ joined' = joined \cup {w}
              /\ thread_pool_mutex' = Monitor
              /\ monitor' = "joining"
              /\ UNCHANGED monitor_thread_free
  /\ UNCHANGED <<notMonitor, monitor_mutex, thread_pool>>

\* join() returns when the worker's function has; then erase both entries.
MonitorJoined ==
  /\ monitor = "joining"
  /\ LET w == Find(Head(monitor_thread_free))
     IN  worker[w] = "exited" /\ thread_pool' = thread_pool \ {w}
  /\ monitor_thread_free' = Tail(monitor_thread_free)
  /\ UnLock(thread_pool_mutex)
  /\ monitor' = "reap"
  /\ UNCHANGED <<notMonitor, monitor_mutex, joined, fault>>

MonitorEndRound ==
  /\ monitor = "reap" /\ monitor_thread_free = <<>>
  /\ UnLock(monitor_mutex)
  /\ monitor' = "top"
  /\ UNCHANGED <<notMonitor, monitor_thread_free, thread_pool_mutex,
                 thread_pool, joined, fault>>

MonitorStep ==
  \/ MonitorLock \/ MonitorTest \/ MonitorSleep \/ MonitorReacquire
  \/ MonitorFind \/ MonitorJoined \/ MonitorEndRound

-----------------------------------------------------------------------------
(* The owner.                                                              *)

\* ShutDown only stores the status: it takes no mutex and notifies nobody.
ShutDown ==
  /\ owner = "ready"
  /\ thread_pool_status' = "SHUTDOWN"
  /\ UNCHANGED <<notOwner, joined, worker, owner, it, monitor, fault>>

\* ~ThreadPool: notify everyone, then walk the list without its mutex.  A
\* C++ object is destroyed only when no call on it is in progress.
DestroyBegin ==
  /\ owner = "ready"
  /\ \A t \in Tasks : commit[t] \in {"new", "done"}
  /\ MonitorNotify
  /\ worker' = [w \in Workers |-> IF worker[w] = "wait" THEN "woken"
                                                        ELSE worker[w]]
  /\ it' = ListNext(0)
  /\ owner' = "walk"
  /\ UNCHANGED <<notOwner, thread_pool_status, joined, fault>>

\* it->Join() on the object under the iterator.  If the monitor has erased
\* it the iterator dangles; if the monitor has joined it, as in MonitorFind.
DestroyJoin ==
  /\ owner = "walk" /\ it # 0
  /\ fault' = CASE it \notin thread_pool -> "Dangling"
                [] it \in thread_pool /\ it \in joined -> "Join"
                [] OTHER -> fault
  /\ joined' = joined \cup {it}
  /\ owner' = "joining"
  /\ UNCHANGED <<notOwner, thread_pool_status, worker, it, monitor>>

DestroyJoined ==
  /\ owner = "joining" /\ worker[it] = "exited"
  /\ it' = ListNext(it)
  /\ owner' = "walk"
  /\ UNCHANGED <<notOwner, thread_pool_status, joined, worker, monitor, fault>>

\* The loop is over and the members are destroyed; thread_monitor_ is not
\* joined, ~Thread detaches it.
DestroyEnd ==
  /\ owner = "walk" /\ it = 0
  /\ owner' = "destroyed"
  /\ UNCHANGED <<notOwner, thread_pool_status, joined, worker, it, monitor,
                 fault>>

\* What the owner does once it has entered the constructor or destructor.
OwnerStep == AddThread(Owner) \/ DestroyJoin \/ DestroyJoined \/ DestroyEnd

-----------------------------------------------------------------------------

\* The constructor has started the monitor and is about to add the core
\* threads.
Init ==
  /\ thread_pool_status = "RUNNING"
  /\ idle_thread_num = 0 /\ now_thread_num = 0
  /\ tasks = <<>> /\ monitor_thread_free = <<>>
  /\ tasks_mutex = None /\ thread_pool_mutex = None /\ monitor_mutex = None
  /\ thread_pool = {} /\ created = 0 /\ joined = {}
  /\ tid = [w \in Workers |-> 0]
  /\ worker = [w \in Workers |-> "none"]
  /\ holding = [w \in Workers |-> None]
  /\ commit = [t \in Tasks |-> "new"]
  /\ size = CorePoolSize
  /\ owner = "add" /\ it = 0
  /\ monitor = "top"
  /\ fault = "none"
  /\ ran = [t \in Tasks |-> 0] /\ accepted = {}

\* The pool is in use: no thread has died on a fault and the memory is there.
InUse == fault = "none" /\ owner # "destroyed"

\* The end of the story: the process is dead or the pool is gone.
Over == ~InUse /\ UNCHANGED vars

Next ==
  \/ InUse /\ \E w \in Workers : WorkerStep(w)
  \/ InUse /\ \E t \in Tasks : CommitCall(t) \/ CommitStep(t)
  \/ InUse /\ (MonitorStep \/ MonitorSpuriousWake)
  \/ InUse /\ (OwnerStep \/ ShutDown \/ DestroyBegin)
  \/ Over

Spec == Init /\ [][Next]_vars

\* Every thread that can run does run; task functions return, and an idle
\* wait ends when its time is up.  Callers owe nothing: no fairness on
\* starting a Commit, on ShutDown or on the destructor, and none on spurious
\* wakeups.  Strong fairness in one place: a monitor that kept waking
\* spuriously could otherwise win monitor_mutex_ from a retiring worker every
\* single time.
Fairness ==
  /\ \A w \in Workers : WF_vars(InUse /\ WorkerStep(w))
  /\ \A w \in Workers : SF_vars(InUse /\ WorkerRetire(w))
  /\ \A t \in Tasks : WF_vars(InUse /\ CommitStep(t))
  /\ WF_vars(InUse /\ MonitorStep)
  /\ WF_vars(InUse /\ OwnerStep)

FairSpec == Spec /\ Fairness

-----------------------------------------------------------------------------
(* Properties.                                                             *)

TypeOK ==
  /\ thread_pool_status \in {"RUNNING", "SHUTDOWN", "TERMINATED"}
  /\ idle_thread_num \in Nat /\ now_thread_num \in Nat
  /\ tasks \in Seq(Tasks) /\ monitor_thread_free \in Seq(Tids)
  /\ tasks_mutex \in Workers \cup Tasks \cup {None}
  /\ thread_pool_mutex \in Tasks \cup {Owner, Monitor, None}
  /\ monitor_mutex \in {Monitor, None}
  /\ thread_pool \subseteq Workers /\ joined \subseteq Workers
  /\ created \in 0 .. MaxThreads
  /\ tid \in [Workers -> Tids \cup {0}]
  /\ worker \in [Workers ->
       {"none", "born", "top", "loop", "towait", "wait", "woken", "retire",
        "leave", "popped", "busy", "exited"}]
  /\ holding \in [Workers -> Tasks \cup {None}]
  /\ commit \in [Tasks ->
       {"new", "lock", "add", "addlock", "spawn", "latch", "added", "notify", "done"}]
  /\ size \in Nat
  /\ owner \in {"add", "addlock", "spawn", "latch", "ready", "walk",
                "joining", "destroyed"}
  /\ it \in Workers \cup {0}
  /\ monitor \in {"top", "test", "towait", "wait", "woken", "reap", "joining",
                  "returned"}
  /\ fault \in {"none", "AddThread", "Join", "Dangling"}
  /\ ran \in [Tasks -> Nat] /\ accepted \subseteq Tasks

\* The workers that ThreadCount() and IdleThreadCount() are meant to count.
Counted == {w \in Workers : worker[w] \notin {"none", "retire", "leave", "exited"}}
IdleOnes == {w \in Counted : worker[w] # "busy"}

\* Both atomic counters, changed at six places under three different mutexes
\* or none, always equal the number of workers they stand for; in particular
\* the unsigned counters never wrap below 0 (thread_pool.cpp:50-62, 68-77).
CountersExact ==
  /\ now_thread_num = Cardinality(Counted)
  /\ idle_thread_num = Cardinality(IdleOnes)

\* While the pool is RUNNING, idle timeouts never take it below its core
\* size and Commit never takes it above its maximum, however retirements and
\* AddThread interleave (thread_pool.cpp:40, 49-51).
SizeWithinBounds ==
  /\ now_thread_num <= MaxPoolSize
  /\ owner = "ready" /\ thread_pool_status = "RUNNING"
       => now_thread_num >= CorePoolSize \/ now_thread_num >= MaxPoolSize

\* When ~ThreadPool returns, every task queued while the pool was RUNNING has
\* run exactly once, and no task ever runs twice (thread_pool.cpp:30-35, 59-70).
AcceptedTasksRan ==
  /\ \A t \in Tasks : ran[t] <= 1
  /\ owner = "destroyed" => \A t \in accepted : ran[t] = 1

\* The monitor, holding monitor_mutex_ and thread_pool_mutex_, only ever waits
\* for a worker that has retired or finished, although kernel tids may be
\* reused by younger workers (thread_pool.cpp:95-105).
MonitorJoinsRetired ==
  monitor = "joining" /\ fault = "none" =>
    worker[Find(Head(monitor_thread_free))] \in {"leave", "exited"}

\* Thread::Join asserts started_ && !joined_ (thread.cpp:56): no Thread object
\* is joined by both the monitor and ~ThreadPool.
JoinedOnce == fault # "Join"

\* An accepted task is run eventually: a pool that keeps a core worker loses
\* no wakeup for good (thread_pool.h:113, thread_pool.cpp:47-58).
AcceptedTaskRuns ==
  \A t \in Tasks : t \in accepted ~> ran[t] = 1 \/ fault # "none"

\* After ShutDown, ~ThreadPool returns: every worker comes out of its wait,
\* drains and exits, even if it missed the NotifyAll (thread_pool.cpp:30-35).
DestructorReturns ==
  owner \in {"walk", "joining"} /\ thread_pool_status # "RUNNING"
    ~> ~InUse

\* A retired worker is joined and erased, as long as the pool stays RUNNING
\* (thread_pool.cpp:52-55, 92-109).
RetiredIsReaped ==
  \A w \in Workers :
    w \in thread_pool /\ worker[w] = "leave"
      ~> w \notin thread_pool \/ thread_pool_status # "RUNNING" \/ ~InUse
=============================================================================
