--------------------------- MODULE ThreadPoolProofs ---------------------------
(***************************************************************************)
(* Proofs about ThreadPool for every number of tasks and every size of the *)
(* pool: type correctness, the exactness of the two atomic counters, the   *)
(* bounds of the pool's size, that the monitor joins only retired workers  *)
(* and that every accepted task is run exactly once.                       *)
(***************************************************************************)
EXTENDS ThreadPool, FiniteSetTheorems, WellFoundedInduction, TLAPS

\* The owner is still in the constructor's AddThread.
Constructing == owner \in {"add", "addlock", "spawn", "latch"}

\* Thread objects 1 .. created have a kernel thread, or had one.
Created == \A w \in Workers : worker[w] = "none" <=> w > created

\* A worker between pop_front and the end of the task holds a task.
HoldsTask == \A w \in Workers : worker[w] \in {"popped", "busy"} => holding[w] \in Tasks

\* A worker that runs its function has cached its tid.
HasTid == \A w \in Workers : worker[w] \notin {"none", "born"} => tid[w] \in Tids

\* The monitor joins on behalf of an entry of monitor_thread_free_.
MonitorHasEntry == monitor = "joining" => monitor_thread_free # <<>>

\* Until the constructor returns nobody else uses the pool, and what AddThread
\* still has to do reaches the core size.
CoreComing ==
  Constructing =>
    /\ thread_pool_status = "RUNNING"
    /\ \A t \in Tasks : commit[t] = "new"
    /\ now_thread_num >= CorePoolSize \/ now_thread_num + size >= CorePoolSize

\* The inductive invariant.
IInv ==
  /\ TypeOK /\ CountersExact /\ SizeWithinBounds
  /\ Created /\ HoldsTask /\ HasTid /\ MonitorHasEntry /\ CoreComing

-----------------------------------------------------------------------------
(* Counting workers.                                                       *)

\* The sets the counters stand for are finite.
LEMMA CountedFinite ==
  ASSUME MaxThreads \in Nat
  PROVE  IsFiniteSet(Counted) /\ IsFiniteSet(IdleOnes)
<1>1. IsFiniteSet(Workers)
  BY FS_Interval DEF Workers
<1>2. Counted \subseteq Workers /\ IdleOnes \subseteq Workers
  BY DEF Counted, IdleOnes
<1> QED
  BY <1>1, <1>2, FS_Subset

\* Exact counters are natural numbers, before and after a step.
LEMMA ExactIsNat ==
  ASSUME MaxThreads \in Nat
  PROVE  /\ CountersExact => idle_thread_num \in Nat /\ now_thread_num \in Nat
         /\ CountersExact' => idle_thread_num' \in Nat /\ now_thread_num' \in Nat
<1>1. IsFiniteSet(Workers)
  BY FS_Interval DEF Workers
<1>2. Counted \subseteq Workers /\ IdleOnes \subseteq Workers
      /\ Counted' \subseteq Workers /\ IdleOnes' \subseteq Workers
  BY DEF Counted, IdleOnes
<1>3. IsFiniteSet(Counted) /\ IsFiniteSet(IdleOnes)
      /\ IsFiniteSet(Counted') /\ IsFiniteSet(IdleOnes')
  BY <1>1, <1>2, FS_Subset
<1> QED
  BY <1>3, FS_CardinalityType DEF CountersExact

\* A step that moves no worker in or out of the counted sets keeps the
\* counters exact if it leaves them alone.
LEMMA CountSame ==
  ASSUME CountersExact, UNCHANGED counters,
         Counted' = Counted, IdleOnes' = IdleOnes
  PROVE  CountersExact'
BY DEF CountersExact, counters

\* A worker that exits and decrements both counters.
LEMMA CountLeave ==
  ASSUME MaxThreads \in Nat, CountersExact, NEW w \in IdleOnes,
         Counted' = Counted \ {w}, IdleOnes' = IdleOnes \ {w}, LeaveCounters
  PROVE  CountersExact'
<1>1. w \in Counted
  BY DEF IdleOnes
<1>2. /\ Cardinality(Counted') = Cardinality(Counted) - 1
      /\ Cardinality(IdleOnes') = Cardinality(IdleOnes) - 1
  BY <1>1, CountedFinite, FS_RemoveElement
<1> QED
  BY <1>2 DEF CountersExact, LeaveCounters
\* A step of worker w that stays inside, or outside, both counted sets.
LEMMA CountMove ==
  ASSUME TypeOK, NEW w \in Workers, NEW x,
         worker' = [worker EXCEPT ![w] = x],
         \/ {worker[w], x} \cap {"none", "busy", "retire", "leave", "exited"} = {}
         \/ {worker[w], x} \subseteq {"retire", "leave", "exited"}
  PROVE  Counted' = Counted /\ IdleOnes' = IdleOnes
BY DEF TypeOK, Counted, IdleOnes

-----------------------------------------------------------------------------
(* Each step preserves the invariant.                                      *)

\* What a step has to preserve besides the counters.
Rest == /\ SizeWithinBounds /\ Created /\ HoldsTask /\ HasTid
        /\ MonitorHasEntry /\ CoreComing

\* Every step of a worker keeps the invariant.
LEMMA WorkerStepInv ==
  ASSUME IInv, NEW w \in Workers, WorkerStep(w)
  PROVE  IInv'
<1> USE PoolAssumption, NamesAssumption
<1>t. TypeOK /\ CountersExact /\ Rest
  BY DEF IInv, Rest
<1>q. CountersExact' /\ TypeOK' /\ Rest' => IInv'
  BY DEF IInv, Rest
<1>1. CASE ThreadStart(w)
  <2>1. CountersExact'
    <3>1. worker[w] = "born" /\ worker' = [worker EXCEPT ![w] = "top"]
          /\ UNCHANGED counters
      BY <1>1 DEF ThreadStart
    <3>2. Counted' = Counted /\ IdleOnes' = IdleOnes
      BY <3>1, <1>t, CountMove
    <3> QED
      BY <3>1, <3>2, <1>t, CountSame
  <2>2. TypeOK' /\ Rest'
    BY <1>1, <1>t, <2>1, ExactIsNat, SMTT(30)
    DEF ThreadStart, TypeOK, Rest, SizeWithinBounds, Created, HoldsTask, HasTid,
       MonitorHasEntry, CoreComing, Constructing, notWorker, counters
  <2> QED
    BY <2>1, <2>2, <1>q
<1>2. CASE WorkerLock(w)
  <2>1. CountersExact'
    <3>1. worker[w] = "top" /\ worker' = [worker EXCEPT ![w] = "loop"]
          /\ UNCHANGED counters
      BY <1>2 DEF WorkerLock
    <3>2. Counted' = Counted /\ IdleOnes' = IdleOnes
      BY <3>1, <1>t, CountMove
    <3> QED
      BY <3>1, <3>2, <1>t, CountSame
  <2>2. TypeOK' /\ Rest'
    BY <1>2, <1>t, <2>1, ExactIsNat, SMTT(30)
    DEF WorkerLock, Lock, TypeOK, Rest, SizeWithinBounds, Created, HoldsTask, HasTid,
       MonitorHasEntry, CoreComing, Constructing, notWorker, counters
  <2> QED
    BY <2>1, <2>2, <1>q
<1>3. CASE WorkerIdle(w)
  <2>1. CountersExact'
    <3>1. worker[w] = "loop" /\ worker' = [worker EXCEPT ![w] = "towait"]
          /\ UNCHANGED counters
      BY <1>3 DEF WorkerIdle
    <3>2. Counted' = Counted /\ IdleOnes' = IdleOnes
      BY <3>1, <1>t, CountMove
    <3> QED
      BY <3>1, <3>2, <1>t, CountSame
  <2>2. TypeOK' /\ Rest'
    BY <1>3, <1>t, <2>1, ExactIsNat, SMTT(30)
    DEF WorkerIdle, KeepWaiting, TypeOK, Rest, SizeWithinBounds, Created, HoldsTask, HasTid,
       MonitorHasEntry, CoreComing, Constructing, notWorker, counters
  <2> QED
    BY <2>1, <2>2, <1>q
<1>4. CASE WorkerSleep(w)
  <2>1. CountersExact'
    <3>1. worker[w] = "towait" /\ worker' = [worker EXCEPT ![w] = "wait"]
          /\ UNCHANGED counters
      BY <1>4 DEF WorkerSleep
    <3>2. Counted' = Counted /\ IdleOnes' = IdleOnes
      BY <3>1, <1>t, CountMove
    <3> QED
      BY <3>1, <3>2, <1>t, CountSame
  <2>2. TypeOK' /\ Rest'
    BY <1>4, <1>t, <2>1, ExactIsNat, SMTT(30)
    DEF WorkerSleep, UnLock, TypeOK, Rest, SizeWithinBounds, Created, HoldsTask, HasTid,
       MonitorHasEntry, CoreComing, Constructing, notWorker, counters
  <2> QED
    BY <2>1, <2>2, <1>q
<1>5. CASE WorkerWake(w)
  <2>1. CountersExact'
    <3>1. worker[w] = "wait" /\ worker' = [worker EXCEPT ![w] = "woken"]
          /\ UNCHANGED counters
      BY <1>5 DEF WorkerWake
    <3>2. Counted' = Counted /\ IdleOnes' = IdleOnes
      BY <3>1, <1>t, CountMove
    <3> QED
      BY <3>1, <3>2, <1>t, CountSame
  <2>2. TypeOK' /\ Rest'
    BY <1>5, <1>t, <2>1, ExactIsNat, SMTT(30)
    DEF WorkerWake, TypeOK, Rest, SizeWithinBounds, Created, HoldsTask, HasTid,
       MonitorHasEntry, CoreComing, Constructing, notWorker, counters
  <2> QED
    BY <2>1, <2>2, <1>q
<1>6. CASE WorkerRetire(w)
  <2>1. CountersExact'
    <3>1. worker[w] = "retire" /\ worker' = [worker EXCEPT ![w] = "leave"]
          /\ UNCHANGED counters
      BY <1>6 DEF WorkerRetire
    <3>2. Counted' = Counted /\ IdleOnes' = IdleOnes
      BY <3>1, <1>t, CountMove
    <3> QED
      BY <3>1, <3>2, <1>t, CountSame
  <2>2. TypeOK' /\ Rest'
    BY <1>6, <1>t, <2>1, ExactIsNat, SMTT(30)
    DEF WorkerRetire, MonitorNotify, TypeOK, Rest, SizeWithinBounds, Created, HoldsTask, HasTid,
       MonitorHasEntry, CoreComing, Constructing, notWorker, counters
  <2> QED
    BY <2>1, <2>2, <1>q
<1>7. CASE WorkerLeave(w)
  <2>1. CountersExact'
    <3>1. worker[w] = "leave" /\ worker' = [worker EXCEPT ![w] = "exited"]
          /\ UNCHANGED counters
      BY <1>7 DEF WorkerLeave
    <3>2. Counted' = Counted /\ IdleOnes' = IdleOnes
      BY <3>1, <1>t, CountMove
    <3> QED
      BY <3>1, <3>2, <1>t, CountSame
  <2>2. TypeOK' /\ Rest'
    BY <1>7, <1>t, <2>1, ExactIsNat, SMTT(30)
    DEF WorkerLeave, UnLock, TypeOK, Rest, SizeWithinBounds, Created, HoldsTask, HasTid,
       MonitorHasEntry, CoreComing, Constructing, notWorker, counters
  <2> QED
    BY <2>1, <2>2, <1>q
<1>8. CASE WorkerPop(w)
  <2>1. CountersExact'
    <3>1. worker[w] = "loop" /\ worker' = [worker EXCEPT ![w] = "popped"]
          /\ UNCHANGED counters
      BY <1>8 DEF WorkerPop
    <3>2. Counted' = Counted /\ IdleOnes' = IdleOnes
      BY <3>1, <1>t, CountMove
    <3> QED
      BY <3>1, <3>2, <1>t, CountSame
  <2>2. TypeOK' /\ Rest'
    BY <1>8, <1>t, <2>1, ExactIsNat, SMTT(30)
    DEF WorkerPop, UnLock, KeepWaiting, MayTerminate, TypeOK, Rest, SizeWithinBounds, Created, HoldsTask, HasTid,
       MonitorHasEntry, CoreComing, Constructing, notWorker, counters
  <2> QED
    BY <2>1, <2>2, <1>q
<1>9. ASSUME NEW timedout \in BOOLEAN, WorkerReacquire(w, timedout)
      PROVE  IInv'
  <2> DEFINE Frame == UNCHANGED <<notWorker, thread_pool_status, tasks,
                        monitor_thread_free, monitor_mutex, tid, holding, monitor, ran>>
  <2>1. CASE timedout /\ MayRetire
    <3>1. /\ worker[w] = "woken" /\ worker' = [worker EXCEPT ![w] = "retire"]
          /\ LeaveCounters /\ MayRetire /\ tasks_mutex' = w /\ Frame
      BY <1>9, <2>1 DEF WorkerReacquire, Lock
    <3>2. w \in IdleOnes /\ Counted' = Counted \ {w} /\ IdleOnes' = IdleOnes \ {w}
      BY <3>1, <1>t DEF TypeOK, Counted, IdleOnes
    <3>3. CountersExact'
      BY <3>1, <3>2, <1>t, CountLeave
    <3>4. TypeOK' /\ Rest'
      BY <3>1, <1>t, <3>3, ExactIsNat, SMTT(30)
      DEF MayRetire, LeaveCounters, TypeOK, Rest, SizeWithinBounds, Created, HoldsTask, HasTid,
       MonitorHasEntry, CoreComing, Constructing, notWorker, counters
    <3> QED
      BY <3>3, <3>4, <1>q
  <2>2. CASE ~(timedout /\ MayRetire)
    <3>0. /\ worker[w] = "woken" /\ worker' = [worker EXCEPT ![w] = "loop"]
          /\ UNCHANGED counters /\ tasks_mutex' = w /\ Frame
      BY <1>9, <2>2 DEF WorkerReacquire, Lock
    <3>1. CountersExact'
      <4>1. Counted' = Counted /\ IdleOnes' = IdleOnes
        BY <3>0, <1>t, CountMove
      <4> QED
        BY <3>0, <4>1, <1>t, CountSame
    <3>2. TypeOK' /\ Rest'
      BY <3>0, <1>t, <3>1, ExactIsNat, SMTT(30)
      DEF TypeOK, Rest, SizeWithinBounds, Created, HoldsTask, HasTid,
       MonitorHasEntry, CoreComing, Constructing, notWorker, counters
    <3> QED
      BY <3>1, <3>2, <1>q
  <2> QED
    BY <2>1, <2>2
<1>10. CASE WorkerTerminate(w)
  <2>1. /\ worker[w] = "loop" /\ worker' = [worker EXCEPT ![w] = "exited"]
        /\ LeaveCounters
    BY <1>10 DEF WorkerTerminate
  <2>2. w \in IdleOnes /\ Counted' = Counted \ {w} /\ IdleOnes' = IdleOnes \ {w}
    BY <2>1, <1>t DEF TypeOK, Counted, IdleOnes
  <2>3. CountersExact'
    BY <2>1, <2>2, <1>t, CountLeave
  <2>4. TypeOK' /\ Rest'
    BY <1>10, <1>t, <2>3, ExactIsNat, SMTT(30)
    DEF WorkerTerminate, UnLock, MayTerminate, LeaveCounters, TypeOK, Rest, SizeWithinBounds, Created, HoldsTask, HasTid,
       MonitorHasEntry, CoreComing, Constructing, notWorker, counters
  <2> QED
    BY <2>3, <2>4, <1>q
<1>11. CASE WorkerBegin(w)
  <2>1. /\ w \in IdleOnes /\ Counted' = Counted /\ IdleOnes' = IdleOnes \ {w}
        /\ now_thread_num' = now_thread_num /\ idle_thread_num' = idle_thread_num - 1
    BY <1>11, <1>t DEF WorkerBegin, TypeOK, Counted, IdleOnes
  <2>2. Cardinality(IdleOnes \ {w}) = Cardinality(IdleOnes) - 1
    BY <2>1, CountedFinite, FS_RemoveElement
  <2>3. CountersExact'
    BY <2>1, <2>2, <1>t DEF CountersExact
  <2>4. TypeOK' /\ Rest'
    BY <1>11, <1>t, <2>3, ExactIsNat, SMTT(30)
    DEF WorkerBegin, TypeOK, Rest, SizeWithinBounds, Created, HoldsTask, HasTid,
       MonitorHasEntry, CoreComing, Constructing, notWorker, counters
  <2> QED
    BY <2>3, <2>4, <1>q
<1>12. CASE WorkerFinish(w)
  <2>1. /\ w \notin IdleOnes /\ Counted' = Counted /\ IdleOnes' = IdleOnes \cup {w}
        /\ now_thread_num' = now_thread_num /\ idle_thread_num' = idle_thread_num + 1
    BY <1>12, <1>t DEF WorkerFinish, TaskDone, TypeOK, Counted, IdleOnes
  <2>2. Cardinality(IdleOnes \cup {w}) = Cardinality(IdleOnes) + 1
    BY <2>1, CountedFinite, FS_AddElement
  <2>3. CountersExact'
    BY <2>1, <2>2, <1>t DEF CountersExact
  <2>4. TypeOK' /\ Rest'
    BY <1>12, <1>t, <2>3, ExactIsNat, SMTT(30)
    DEF WorkerFinish, TaskDone, TypeOK, Rest, SizeWithinBounds, Created, HoldsTask, HasTid,
       MonitorHasEntry, CoreComing, Constructing, notWorker, counters
  <2> QED
    BY <2>3, <2>4, <1>q
<1> QED
  BY <1>1, <1>2, <1>3, <1>4, <1>5, <1>6, <1>7, <1>8, <1>9, <1>10, <1>11, <1>12
  DEF WorkerStep

\* task_cv_.Notify moves at most one sleeping worker, inside the counted sets.
NotifyEffect ==
  /\ Counted' = Counted /\ IdleOnes' = IdleOnes
  /\ worker' \in [Workers ->
       {"none", "born", "top", "loop", "towait", "wait", "woken", "retire",
        "leave", "popped", "busy", "exited"}]
  /\ \A w \in Workers : worker'[w] # worker[w] =>
                         worker[w] = "wait" /\ worker'[w] = "woken"

\* A notification moves at most one worker, from its wait to its wakeup.
LEMMA NotifyMoves ==
  ASSUME TypeOK, TaskNotify
  PROVE  NotifyEffect
<1>1. CASE UNCHANGED worker
  BY <1>1 DEF TypeOK, Counted, IdleOnes, NotifyEffect
<1>2. ASSUME NEW v \in Workers, worker[v] = "wait",
             worker' = [worker EXCEPT ![v] = "woken"]
      PROVE  NotifyEffect
  BY <1>2 DEF TypeOK, Counted, IdleOnes, NotifyEffect
<1> QED
  BY <1>1, <1>2 DEF TaskNotify

\* The steps of Commit outside AddThread keep the invariant.
LEMMA CommitStepInv ==
  ASSUME IInv, NEW t \in Tasks,
         CommitCall(t) \/ CommitLock(t) \/ CommitEnqueueFull(t) \/ CommitNotify(t)
  PROVE  IInv'
<1> USE PoolAssumption, NamesAssumption
<1>t. TypeOK /\ CountersExact /\ Rest
  BY DEF IInv, Rest
<1>q. CountersExact' /\ TypeOK' /\ Rest' => IInv'
  BY DEF IInv, Rest
<1>1. CASE CommitCall(t)
  <2>1. CountersExact'
    BY <1>1, <1>t, CountSame DEF CommitCall, notCommit, counters, Counted, IdleOnes
  <2>2. TypeOK' /\ Rest'
    BY <1>1, <1>t, <2>1, ExactIsNat, SMTT(30)
    DEF CommitCall, TypeOK, Rest, SizeWithinBounds, Created, HoldsTask, HasTid,
       MonitorHasEntry, CoreComing, Constructing, notCommit, counters
  <2> QED
    BY <2>1, <2>2, <1>q
<1>2. CASE CommitLock(t)
  <2>1. CountersExact'
    BY <1>2, <1>t, CountSame DEF CommitLock, notCommit, counters, Counted, IdleOnes
  <2>2. TypeOK'
    <3>1. CASE HasRoom
      <4>1. /\ Enqueue(t) /\ commit' = [commit EXCEPT ![t] = "notify"]
            /\ UNCHANGED <<tasks_mutex, size>>
            /\ UNCHANGED <<notCommit, counters, thread_pool_mutex, thread_pool,
                           created, worker, owner, fault>>
        BY <1>2, <3>1 DEF CommitLock
      <4>2. tasks' \in Seq(Tasks) /\ accepted' \subseteq Tasks
        BY <4>1, <1>t DEF Enqueue, TypeOK
      <4> QED
        BY <4>1, <4>2, <1>t, <2>1, ExactIsNat DEF TypeOK, notCommit, counters
    <3>2. CASE ~HasRoom
      BY <1>2, <3>2, <1>t, <2>1, ExactIsNat DEF CommitLock, TypeOK, notCommit, counters
    <3> QED
      BY <3>1, <3>2
  <2>3. Rest'
    BY <1>2, <1>t
    DEF CommitLock, TypeOK, Rest, SizeWithinBounds, Created, HoldsTask, HasTid,
       MonitorHasEntry, CoreComing, Constructing, notCommit, counters
  <2> QED
    BY <2>1, <2>2, <2>3, <1>q
<1>3. CASE CommitEnqueueFull(t)
  <2>1. CountersExact'
    BY <1>3, <1>t, CountSame DEF CommitEnqueueFull, notCommit, counters, Counted, IdleOnes
  <2>2. TypeOK' /\ Rest'
    BY <1>3, <1>t, <2>1, ExactIsNat, SMTT(30)
    DEF CommitEnqueueFull, Enqueue, UnLock, TypeOK, Rest, SizeWithinBounds, Created, HoldsTask, HasTid,
       MonitorHasEntry, CoreComing, Constructing, notCommit, counters
  <2> QED
    BY <2>1, <2>2, <1>q
<1>4. CASE CommitNotify(t)
  <2>0. NotifyEffect
    BY <1>4, <1>t, NotifyMoves DEF CommitNotify
  <2>1. CountersExact'
    BY <1>4, <1>t, <2>0, CountSame DEF CommitNotify, NotifyEffect
  <2>2. TypeOK'
    BY <1>4, <1>t, <2>0, <2>1, ExactIsNat, SMTT(30)
    DEF CommitNotify, NotifyEffect, TypeOK, notCommit, counters
  <2>3. Created' /\ HoldsTask' /\ HasTid'
    BY <1>4, <1>t, <2>0
    DEF CommitNotify, NotifyEffect, Rest, Created, HoldsTask, HasTid, notCommit
  <2>4. SizeWithinBounds' /\ MonitorHasEntry' /\ CoreComing'
    BY <1>4, <1>t
    DEF CommitNotify, TypeOK, Rest, SizeWithinBounds, MonitorHasEntry,
        CoreComing, Constructing, notCommit, counters
  <2> QED
    BY <2>1, <2>2, <2>3, <2>4, <1>q DEF Rest
<1> QED
  BY <1>1, <1>2, <1>3, <1>4

\* AddThread keeps the invariant, called by the owner or by a Commit.
LEMMA AddThreadInv ==
  ASSUME IInv, NEW p \in Tasks \cup {Owner}, AddThread(p)
  PROVE  IInv'
<1> USE PoolAssumption, NamesAssumption
<1>t. TypeOK /\ CountersExact /\ Rest
  BY DEF IInv, Rest
<1>q. CountersExact' /\ TypeOK' /\ Rest' => IInv'
  BY DEF IInv, Rest
<1>1. CASE AddThreadEnter(p)
  <2>1. CountersExact'
    BY <1>1, <1>t, CountSame DEF AddThreadEnter, notCommit, counters, Counted, IdleOnes
  <2>2. TypeOK' /\ Rest'
    BY <1>1, <1>t, <2>1, ExactIsNat, SMTT(30)
    DEF AddThreadEnter, Adding, AddGoto, TypeOK, Rest, SizeWithinBounds, Created, HoldsTask, HasTid,
       MonitorHasEntry, CoreComing, Constructing, notCommit, counters
  <2> QED
    BY <2>1, <2>2, <1>q
<1>2. CASE AddThreadLock(p)
  <2>1. CountersExact'
    BY <1>2, <1>t, CountSame DEF AddThreadLock, notCommit, counters, Counted, IdleOnes
  <2>2. TypeOK' /\ Rest'
    BY <1>2, <1>t, <2>1, ExactIsNat, SMTT(30)
    DEF AddThreadLock, Adding, AddGoto, Lock, TypeOK, Rest, SizeWithinBounds, Created, HoldsTask, HasTid,
       MonitorHasEntry, CoreComing, Constructing, notCommit, counters
  <2> QED
    BY <2>1, <2>2, <1>q
<1>3. CASE AddThreadStarted(p)
  <2>1. CountersExact'
    BY <1>3, <1>t, CountSame DEF AddThreadStarted, notCommit, counters, Counted, IdleOnes
  <2>2. TypeOK' /\ Rest'
    <3>1. CASE p = Owner
      BY <1>3, <3>1, <1>t, <2>1, ExactIsNat, SMTT(30)
      DEF AddThreadStarted, Adding, AddGoto, TypeOK, Rest, SizeWithinBounds, Created, HoldsTask, HasTid,
       MonitorHasEntry, CoreComing, Constructing, notCommit, counters
    <3>2. CASE p \in Tasks /\ p # Owner
      BY <1>3, <3>2, <1>t, <2>1, ExactIsNat, SMTT(30)
      DEF AddThreadStarted, Adding, AddGoto, TypeOK, Rest, SizeWithinBounds, Created, HoldsTask, HasTid,
       MonitorHasEntry, CoreComing, Constructing, notCommit, counters
    <3> QED
      BY <3>1, <3>2
  <2> QED
    BY <2>1, <2>2, <1>q
<1>4. CASE AddThreadReturn(p)
  <2>1. CountersExact'
    BY <1>4, <1>t, CountSame DEF AddThreadReturn, notCommit, counters, Counted, IdleOnes
  <2>2. TypeOK' /\ Rest'
    <3>1. CASE p = Owner
      BY <1>4, <3>1, <1>t, <2>1, ExactIsNat, SMTT(30)
      DEF AddThreadReturn, Adding, AddGoto, UnLock, MayGrow, TypeOK, Rest, SizeWithinBounds, Created, HoldsTask, HasTid,
       MonitorHasEntry, CoreComing, Constructing, notCommit, counters
    <3>2. CASE p \in Tasks /\ p # Owner
      BY <1>4, <3>2, <1>t, <2>1, ExactIsNat, SMTT(30)
      DEF AddThreadReturn, Adding, AddGoto, UnLock, MayGrow, TypeOK, Rest, SizeWithinBounds, Created, HoldsTask, HasTid,
       MonitorHasEntry, CoreComing, Constructing, notCommit, counters
    <3> QED
      BY <3>1, <3>2
  <2> QED
    BY <2>1, <2>2, <1>q
<1>5. CASE AddThreadSpawn(p)
  <2>1. /\ created' = created + 1 /\ created' \in Workers
        /\ worker[created'] = "none"
        /\ worker' = [worker EXCEPT ![created'] = "born"]
        /\ idle_thread_num' = idle_thread_num + 1
        /\ now_thread_num' = now_thread_num + 1
    BY <1>5, <1>t DEF AddThreadSpawn, TypeOK, Rest, Created, Workers
  <2>2. /\ created' \notin Counted /\ Counted' = Counted \cup {created'}
        /\ created' \notin IdleOnes /\ IdleOnes' = IdleOnes \cup {created'}
    BY <2>1, <1>t DEF TypeOK, Counted, IdleOnes
  <2>3. /\ Cardinality(Counted') = Cardinality(Counted) + 1
        /\ Cardinality(IdleOnes') = Cardinality(IdleOnes) + 1
    BY <2>2, CountedFinite, FS_AddElement
  <2>4. CountersExact'
    BY <2>1, <2>3, <1>t DEF CountersExact
  <2>5. TypeOK'
    <3>1. /\ owner' \in {"add", "addlock", "spawn", "latch", "ready", "walk",
                         "joining", "destroyed"}
          /\ commit' \in [Tasks -> {"new", "lock", "add", "addlock", "spawn",
                                    "latch", "added", "notify", "done"}]
      BY <1>5, <1>t DEF AddThreadSpawn, AddGoto, TypeOK
    <3>2. thread_pool' \subseteq Workers
      BY <1>5, <1>t, <2>1 DEF AddThreadSpawn, TypeOK
    <3>4. size' \in Nat
      BY <1>5, <1>t DEF AddThreadSpawn, MayGrow, TypeOK
    <3>5. created' \in 0 .. MaxThreads
      BY <2>1 DEF Workers
    <3>3. worker' \in [Workers ->
              {"none", "born", "top", "loop", "towait", "wait", "woken",
               "retire", "leave", "popped", "busy", "exited"}]
      BY <2>1, <1>t DEF TypeOK
    <3> QED
      BY <1>5, <1>t, <2>4, <3>1, <3>2, <3>3, <3>4, <3>5, ExactIsNat, SMTT(30)
      DEF AddThreadSpawn, TypeOK, notCommit
  <2>6. Created'
    BY <1>5, <1>t, <2>1 DEF AddThreadSpawn, TypeOK, Rest, Created, Workers
  <2>7. HoldsTask' /\ HasTid' /\ MonitorHasEntry'
    BY <1>5, <1>t, <2>1
    DEF AddThreadSpawn, TypeOK, Rest, HoldsTask, HasTid, MonitorHasEntry, notCommit
  <2>8. SizeWithinBounds' /\ CoreComing'
    <3>1. CASE p = Owner
      BY <1>5, <3>1, <1>t DEF AddThreadSpawn, Adding, AddGoto, MayGrow, TypeOK,
         Rest, SizeWithinBounds, CoreComing, Constructing, notCommit
    <3>2. CASE p \in Tasks /\ p # Owner
      BY <1>5, <3>2, <1>t DEF AddThreadSpawn, Adding, AddGoto, MayGrow, TypeOK,
         Rest, SizeWithinBounds, CoreComing, Constructing, notCommit
    <3> QED
      BY <3>1, <3>2
  <2> QED
    BY <2>4, <2>5, <2>6, <2>7, <2>8, <1>q DEF Rest
<1> QED
  BY <1>1, <1>2, <1>3, <1>4, <1>5 DEF AddThread

\* Every non-empty set of thread numbers has a first element.
LEMMA FirstExists ==
  ASSUME NEW S \in SUBSET Nat, S # {}
  PROVE  \E w \in S : \A v \in S : w <= v
<1>1. PICK x \in S : \A y \in S : ~(<<y, x>> \in OpToRel(<, Nat))
  BY WFMin, NatLessThanWellFounded
<1>2. \A y \in S : ~(y < x)
  BY <1>1 DEF OpToRel
<1> QED
  BY <1>2

\* find_if and begin() give an object of the list.
LEMMA FindInPool ==
  ASSUME TypeOK, NEW i, WithTid(i) # {}
  PROVE  Find(i) \in thread_pool /\ tid[Find(i)] = i
<1>0. thread_pool \subseteq Nat
  BY PoolAssumption, 1 .. MaxThreads \subseteq Nat DEF TypeOK, Workers
<1>1. WithTid(i) \in SUBSET Nat
  BY <1>0 DEF WithTid
<1>2. \E w \in WithTid(i) : \A v \in WithTid(i) : w <= v
  BY <1>1, FirstExists
<1>3. Find(i) \in WithTid(i)
  BY <1>2 DEF Find
<1> QED
  BY <1>3 DEF WithTid

\* The iterator of ~ThreadPool points into the list or to its end.
LEMMA ListNextInPool ==
  ASSUME TypeOK, NEW n
  PROVE  ListNext(n) \in thread_pool \cup {0}
<1> DEFINE behind == {v \in thread_pool : v > n}
<1>0. thread_pool \subseteq Nat
  BY PoolAssumption, 1 .. MaxThreads \subseteq Nat DEF TypeOK, Workers
<1>1. behind \in SUBSET Nat
  BY <1>0
<1>2. CASE behind # {}
  <2>1. \E v \in behind : \A u \in behind : v <= u
    BY <1>1, <1>2, FirstExists
  <2>2. ListNext(n) = CHOOSE v \in behind : \A u \in behind : v <= u
    BY <1>2 DEF ListNext
  <2>3. ListNext(n) \in behind
    BY <2>1, <2>2
  <2> QED
    BY <2>3
<1>3. CASE behind = {}
  BY <1>3 DEF ListNext
<1> QED
  BY <1>2, <1>3


\* A step of the monitor changes neither the workers nor the counters.
LEMMA MonitorStepInv ==
  ASSUME IInv, MonitorStep \/ MonitorSpuriousWake
  PROVE  IInv'
<1> USE PoolAssumption, NamesAssumption
<1>t. TypeOK /\ CountersExact /\ Rest
  BY DEF IInv, Rest
<1>q. CountersExact' /\ TypeOK' /\ Rest' => IInv'
  BY DEF IInv, Rest
<1>c. UNCHANGED notMonitor
  BY DEF MonitorStep, MonitorLock, MonitorTest, MonitorSleep, MonitorReacquire,
         MonitorFind, MonitorJoined, MonitorEndRound, MonitorSpuriousWake
<1>x. CountersExact'
  BY <1>c, <1>t, CountSame DEF notMonitor, counters, Counted, IdleOnes
<1>1. CASE MonitorLock
  BY <1>1, <1>t, <1>x, <1>q
  DEF MonitorLock, Lock, TypeOK, Rest, SizeWithinBounds, Created, HoldsTask, HasTid,
        MonitorHasEntry, CoreComing, Constructing, notMonitor, counters
<1>2. CASE MonitorTest
  BY <1>2, <1>t, <1>x, <1>q
  DEF MonitorTest, TypeOK, Rest, SizeWithinBounds, Created, HoldsTask, HasTid,
        MonitorHasEntry, CoreComing, Constructing, notMonitor, counters
<1>3. CASE MonitorSleep
  BY <1>3, <1>t, <1>x, <1>q
  DEF MonitorSleep, UnLock, TypeOK, Rest, SizeWithinBounds, Created, HoldsTask, HasTid,
        MonitorHasEntry, CoreComing, Constructing, notMonitor, counters
<1>4. CASE MonitorSpuriousWake
  BY <1>4, <1>t, <1>x, <1>q
  DEF MonitorSpuriousWake, TypeOK, Rest, SizeWithinBounds, Created, HoldsTask, HasTid,
        MonitorHasEntry, CoreComing, Constructing, notMonitor, counters
<1>5. CASE MonitorReacquire
  BY <1>5, <1>t, <1>x, <1>q
  DEF MonitorReacquire, TypeOK, Rest, SizeWithinBounds, Created, HoldsTask, HasTid,
        MonitorHasEntry, CoreComing, Constructing, notMonitor, counters
<1>6. CASE MonitorEndRound
  BY <1>6, <1>t, <1>x, <1>q
  DEF MonitorEndRound, UnLock, TypeOK, Rest, SizeWithinBounds, Created, HoldsTask, HasTid,
        MonitorHasEntry, CoreComing, Constructing, notMonitor, counters
<1>7. CASE MonitorFind
  <2>1. Head(monitor_thread_free) \in Tids /\ Tail(monitor_thread_free) \in Seq(Tids)
    BY <1>7, <1>t DEF MonitorFind, TypeOK
  <2>2. CASE WithTid(Head(monitor_thread_free)) = {}
    <3>1. /\ monitor_thread_free' = Tail(monitor_thread_free)
          /\ monitor = "reap"
          /\ UNCHANGED <<thread_pool_mutex, joined, fault, monitor, notMonitor,
                         monitor_mutex, thread_pool>>
      BY <1>7, <2>2 DEF MonitorFind
    <3> QED
      BY <3>1, <2>1, <1>t, <1>x, <1>q
      DEF TypeOK, Rest, SizeWithinBounds, Created, HoldsTask, HasTid,
        MonitorHasEntry, CoreComing, Constructing, notMonitor, counters
  <2>3. CASE WithTid(Head(monitor_thread_free)) # {}
    <3> DEFINE w == Find(Head(monitor_thread_free))
    <3>1. w \in thread_pool
      BY <2>3, <2>1, <1>t, FindInPool DEF TypeOK
    <3>2. /\ fault' \in {"Join", fault} /\ joined' = joined \cup {w}
          /\ thread_pool_mutex' = Monitor /\ monitor' = "joining"
          /\ UNCHANGED <<monitor_thread_free, notMonitor, monitor_mutex, thread_pool>>
          /\ monitor_thread_free # <<>>
      BY <1>7, <2>3 DEF MonitorFind
    <3> HIDE DEF w
    <3> QED
      BY <3>1, <3>2, <1>t, <1>x, <1>q
      DEF TypeOK, Rest, SizeWithinBounds, Created, HoldsTask, HasTid,
        MonitorHasEntry, CoreComing, Constructing, notMonitor, counters
  <2> QED
    BY <2>2, <2>3
<1>8. CASE MonitorJoined
  <2>1. monitor_thread_free # <<>>
    BY <1>8, <1>t DEF MonitorJoined, Rest, MonitorHasEntry
  <2>2. Tail(monitor_thread_free) \in Seq(Tids)
    BY <2>1, <1>t DEF TypeOK
  <2> QED
    BY <1>8, <2>2, <1>t, <1>x, <1>q
    DEF MonitorJoined, UnLock, TypeOK, Rest, SizeWithinBounds, Created, HoldsTask, HasTid,
        MonitorHasEntry, CoreComing, Constructing, notMonitor, counters
<1> QED
  BY <1>1, <1>2, <1>3, <1>4, <1>5, <1>6, <1>7, <1>8 DEF MonitorStep

\* ShutDown and the destructor keep the invariant.
LEMMA OwnerStepInv ==
  ASSUME IInv, DestroyJoin \/ DestroyJoined \/ DestroyEnd \/ ShutDown \/ DestroyBegin
  PROVE  IInv'
<1> USE PoolAssumption, NamesAssumption
<1>t. TypeOK /\ CountersExact /\ Rest
  BY DEF IInv, Rest
<1>q. CountersExact' /\ TypeOK' /\ Rest' => IInv'
  BY DEF IInv, Rest
<1>n. \A n : ListNext(n) \in Workers \cup {0}
  BY <1>t, ListNextInPool DEF TypeOK
<1>1. CASE DestroyBegin
  <2>1. \A w \in Workers : worker'[w] = IF worker[w] = "wait" THEN "woken" ELSE worker[w]
    BY <1>1 DEF DestroyBegin
  <2>2. Counted' = Counted /\ IdleOnes' = IdleOnes
    BY <2>1 DEF Counted, IdleOnes
  <2>3. CountersExact'
    BY <1>1, <2>2, <1>t, CountSame DEF DestroyBegin, notOwner
  <2>4. TypeOK'
    BY <1>1, <1>n, <2>3, <1>t, ExactIsNat DEF DestroyBegin, MonitorNotify, TypeOK, notOwner
  <2>5. Created' /\ HoldsTask' /\ HasTid'
    BY <1>1, <2>1, <1>t DEF DestroyBegin, Rest, Created, HoldsTask, HasTid, notOwner
  <2>6. SizeWithinBounds' /\ MonitorHasEntry' /\ CoreComing'
    BY <1>1, <1>t DEF DestroyBegin, MonitorNotify, Rest, SizeWithinBounds,
       MonitorHasEntry, CoreComing, Constructing, notOwner, counters
  <2> QED
    BY <2>3, <2>4, <2>5, <2>6, <1>q DEF Rest
<1>2. CASE DestroyJoin \/ DestroyJoined \/ DestroyEnd \/ ShutDown
  <2>1. UNCHANGED <<notOwner, worker, monitor>>
    BY <1>2 DEF DestroyJoin, DestroyJoined, DestroyEnd, ShutDown
  <2>2. CountersExact'
    BY <2>1, <1>t, CountSame DEF notOwner, counters, Counted, IdleOnes
  <2>3. TypeOK'
    BY <1>2, <1>n, <2>1, <1>t
    DEF DestroyJoin, DestroyJoined, DestroyEnd, ShutDown, TypeOK, notOwner, counters
  <2>4. Rest'
    BY <1>2, <2>1, <1>t
    DEF DestroyJoin, DestroyJoined, DestroyEnd, ShutDown, TypeOK, Rest, SizeWithinBounds, Created, HoldsTask, HasTid,
        MonitorHasEntry, CoreComing, Constructing, notOwner, counters
  <2> QED
    BY <2>2, <2>3, <2>4, <1>q
<1> QED
  BY <1>1, <1>2

-----------------------------------------------------------------------------
(* The theorems.                                                           *)

\* The constructor starts in the invariant.
LEMMA InitInv ==
  ASSUME Init
  PROVE  IInv
<1> USE PoolAssumption, NamesAssumption
<1>1. Counted = {} /\ IdleOnes = {}
  BY DEF Init, Counted, IdleOnes
<1>2. CountersExact
  BY <1>1, FS_EmptySet DEF Init, CountersExact
<1>3. TypeOK
  BY DEF Init, TypeOK
<1>4. Created
  BY DEF Init, Created, Workers
<1>5. Rest
  BY <1>4 DEF Init, Rest, SizeWithinBounds, HoldsTask, HasTid, MonitorHasEntry,
     CoreComing, Constructing
<1> QED
  BY <1>2, <1>3, <1>5 DEF IInv, Rest

\* Steps that change nothing keep the invariant.
LEMMA StutterInv ==
  ASSUME IInv, UNCHANGED vars
  PROVE  IInv'
BY DEF IInv, vars, counters, TypeOK, CountersExact, Counted, IdleOnes,
   SizeWithinBounds, Created, HoldsTask, HasTid, MonitorHasEntry, CoreComing,
   Constructing

\* Every step keeps the invariant.
LEMMA NextInv ==
  ASSUME IInv, [Next]_vars
  PROVE  IInv'
<1>1. ASSUME NEW w \in Workers, WorkerStep(w) PROVE IInv'
  BY <1>1, WorkerStepInv
<1>2. ASSUME NEW t \in Tasks, CommitCall(t) \/ CommitStep(t) PROVE IInv'
  BY <1>2, CommitStepInv, AddThreadInv DEF CommitStep
<1>3. CASE MonitorStep \/ MonitorSpuriousWake
  BY <1>3, MonitorStepInv
<1>4. CASE OwnerStep \/ ShutDown \/ DestroyBegin
  BY <1>4, OwnerStepInv, AddThreadInv DEF OwnerStep
<1>5. CASE Over \/ UNCHANGED vars
  BY <1>5, StutterInv DEF Over
<1> QED
  BY <1>1, <1>2, <1>3, <1>4, <1>5 DEF Next

-----------------------------------------------------------------------------
(* Thread ids.  The monitor knows a retired worker only by its tid, which  *)
(* the kernel may have given to a younger worker since.                    *)

\* Who may be in AddThread.
Callers == Tasks \cup {Owner}

\* thread_pool_mutex_ has the holder that the program counters say.
PoolLocked ==
  /\ \A p \in Callers : thread_pool_mutex = p <=> Adding(p, "spawn") \/ Adding(p, "latch")
  /\ thread_pool_mutex = Monitor <=> monitor = "joining"

\* AddThread waits for each thread it starts: only the youngest has no tid.
BornIsNewest == \A w \in Workers : worker[w] = "born" =>
  w = created /\ \E p \in Callers : Adding(p, "latch")
NoTidYet == \A w \in Workers : worker[w] \in {"none", "born"} => tid[w] = 0

\* A worker that runs is in thread_pool_.
Listed == \A w \in Workers : worker[w] \notin {"none", "exited"} => w \in thread_pool

\* Of the workers with the same tid all but the youngest have exited.
OlderExited == \A v, w \in Workers :
  v < w /\ tid[v] = tid[w] /\ tid[w] # 0 => worker[v] = "exited"

\* Each entry of monitor_thread_free_ can be given a worker of its own that is in
\* the list, has this tid and has retired or exited.
GivenTo(f) == \A k \in 1 .. Len(monitor_thread_free) :
  /\ f[k] \in thread_pool /\ tid[f[k]] = monitor_thread_free[k]
  /\ worker[f[k]] \in {"leave", "exited"}
  /\ \A j \in 1 .. Len(monitor_thread_free) : f[j] = f[k] => j = k
EntriesHaveWorkers == \E f : GivenTo(f)

TidInv == /\ PoolLocked /\ BornIsNewest /\ NoTidYet /\ Listed
          /\ OlderExited /\ EntriesHaveWorkers

\* Steps that neither begin nor revive a worker, nor touch the lists or tids.
LEMMA TidKept ==
  ASSUME TidInv, TypeOK, PoolLocked',
         UNCHANGED <<thread_pool, created, tid, monitor_thread_free>>,
         \A w \in Workers : worker'[w] # worker[w] =>
           /\ worker[w] \notin {"none", "born", "exited"}
           /\ worker'[w] \notin {"none", "born"}
           /\ worker[w] = "leave" => worker'[w] = "exited",
         \A p \in Callers : Adding(p, "latch") => Adding(p, "latch")'
  PROVE  TidInv'
<1>1. BornIsNewest'
  BY DEF TidInv, BornIsNewest
<1>2. NoTidYet'
  BY DEF TidInv, NoTidYet
<1>3. Listed'
  BY DEF TidInv, Listed
<1>4. OlderExited'
  BY DEF TidInv, OlderExited
<1>5. EntriesHaveWorkers'
  <2>1. PICK f : GivenTo(f)
    BY DEF TidInv, EntriesHaveWorkers
  <2>2. \A k \in 1 .. Len(monitor_thread_free) : f[k] \in Workers
    BY <2>1 DEF GivenTo, TypeOK
  <2>3. GivenTo(f)'
    BY <2>1, <2>2 DEF GivenTo
  <2> QED
    BY <2>3 DEF EntriesHaveWorkers
<1> QED
  BY <1>1, <1>2, <1>3, <1>4, <1>5 DEF TidInv

\* A worker moves within its loop or leaves it.
LEMMA WorkerMoveTid ==
  ASSUME TidInv, TypeOK, NEW w \in Workers, NEW x,
         UNCHANGED notWorker, UNCHANGED <<tid, monitor_thread_free, monitor>>,
         worker' = [worker EXCEPT ![w] = x], worker[w] \notin {"none", "born", "exited"},
         x \notin {"none", "born"}, worker[w] = "leave" => x = "exited"
  PROVE  TidInv'
<1>1. PoolLocked' /\ \A p \in Callers : Adding(p, "latch") => Adding(p, "latch")'
  BY DEF TidInv, PoolLocked, notWorker, Adding
<1>2. UNCHANGED <<thread_pool, created>>
  BY DEF notWorker
<1>3. \A v \in Workers : worker'[v] # worker[v] => v = w /\ worker'[v] = x
  BY DEF TypeOK
<1> QED
  BY <1>1, <1>2, <1>3, TidKept

\* A thread gets a tid that no running thread has; it is the youngest.
LEMMA ThreadStartTid ==
  ASSUME TidInv, IInv, NEW w \in Workers, ThreadStart(w) PROVE TidInv'
<1>0. /\ TypeOK /\ Created /\ PoolLocked /\ BornIsNewest /\ NoTidYet /\ Listed /\ OlderExited
      /\ 0 \notin Tids /\ created \in Nat /\ Workers \subseteq Nat
  BY PoolAssumption, 1 .. MaxThreads \subseteq Nat DEF TidInv, IInv, TypeOK, Workers
<1>1. PICK i \in Tids : /\ \A v \in Workers : Alive(v) => tid[v] # i
                        /\ tid' = [tid EXCEPT ![w] = i]
  BY DEF ThreadStart
<1>2. /\ worker[w] = "born" /\ tid[w] = 0 /\ tid'[w] = i /\ worker'[w] = "top"
      /\ \A v \in Workers : v # w => tid'[v] = tid[v] /\ worker'[v] = worker[v]
      /\ UNCHANGED <<thread_pool_mutex, thread_pool, created, commit, owner,
                     monitor_thread_free, monitor>>
  BY <1>0, <1>1 DEF ThreadStart, TypeOK, notWorker, NoTidYet
<1>3. w = created
  BY <1>0, <1>2 DEF BornIsNewest
<1>4. PoolLocked' /\ BornIsNewest' /\ NoTidYet' /\ Listed'
  <2>1. PoolLocked' /\ BornIsNewest'
    BY <1>0, <1>2 DEF PoolLocked, BornIsNewest, Adding
  <2>2. NoTidYet' /\ Listed'
    BY <1>0, <1>2 DEF NoTidYet, Listed
  <2> QED
    BY <2>1, <2>2
<1>5. OlderExited'
  <2> SUFFICES ASSUME NEW u \in Workers, NEW v \in Workers, u < v, tid'[u] = tid'[v], tid'[v] # 0
               PROVE  worker'[u] = "exited"
    BY DEF OlderExited
  <2>1. CASE v = w
    <3>1. u # w /\ tid[u] = i
      BY <1>0, <1>2, <2>1
    <3>2. worker[u] # "none"
      BY <1>0, <1>1, <3>1 DEF NoTidYet
    <3> QED
      BY <1>1, <1>2, <3>1, <3>2 DEF Alive
  <2>2. CASE u = w
    <3>1. worker[v] = "none"
      BY <1>0, <1>3, <2>2 DEF Created
    <3> QED
      BY <1>0, <1>2, <2>2, <3>1 DEF NoTidYet
  <2>3. CASE u # w /\ v # w
    BY <1>0, <1>2, <2>3 DEF OlderExited
  <2> QED
    BY <2>1, <2>2, <2>3
<1>6. EntriesHaveWorkers'
  <2>1. PICK f : GivenTo(f)
    BY DEF TidInv, EntriesHaveWorkers
  <2>2. \A k \in 1 .. Len(monitor_thread_free) : f[k] \in Workers /\ f[k] # w
    BY <1>0, <1>2, <2>1 DEF GivenTo, TypeOK
  <2>3. GivenTo(f)'
    BY <1>2, <2>1, <2>2 DEF GivenTo
  <2> QED
    BY <2>3 DEF EntriesHaveWorkers
<1> QED
  BY <1>4, <1>5, <1>6 DEF TidInv

\* A retiring worker gets an entry, which is given to it.
LEMMA WorkerRetireTid ==
  ASSUME TidInv, IInv, NEW w \in Workers, WorkerRetire(w) PROVE TidInv'
<1> DEFINE n == Len(monitor_thread_free)
<1>0. TypeOK /\ HasTid /\ PoolLocked /\ BornIsNewest /\ NoTidYet /\ Listed /\ OlderExited
  BY DEF TidInv, IInv
<1>1. /\ worker[w] = "retire" /\ worker'[w] = "leave"
      /\ \A v \in Workers : v # w => worker'[v] = worker[v]
      /\ UNCHANGED <<thread_pool_mutex, thread_pool, created, commit, owner, tid>>
      /\ monitor' = "joining" <=> monitor = "joining"
      /\ monitor_thread_free' = Append(monitor_thread_free, tid[w])
  BY <1>0 DEF WorkerRetire, TypeOK, notWorker, MonitorNotify
<1>2. PoolLocked' /\ BornIsNewest'
  BY <1>0, <1>1 DEF PoolLocked, BornIsNewest, Adding
<1>3. NoTidYet' /\ Listed' /\ OlderExited'
  BY <1>0, <1>1 DEF NoTidYet, Listed, OlderExited
<1>4. EntriesHaveWorkers'
  <2>1. PICK f : GivenTo(f)
    BY DEF TidInv, EntriesHaveWorkers
  <2>g. PICK g : g = [k \in 1 .. n + 1 |-> IF k = n + 1 THEN w ELSE f[k]]
    OBVIOUS
  <2>2. /\ n \in Nat /\ Len(monitor_thread_free') = n + 1
        /\ monitor_thread_free'[n + 1] = tid[w]
        /\ \A k \in 1 .. n : monitor_thread_free'[k] = monitor_thread_free[k]
    BY <1>0, <1>1 DEF TypeOK, HasTid
  <2>3. \A k \in 1 .. n : f[k] \in Workers /\ f[k] # w
    BY <1>0, <1>1, <2>1 DEF GivenTo, TypeOK
  <2>4. w \in thread_pool
    BY <1>0, <1>1 DEF Listed
  <2>5. g[n + 1] = w /\ \A k \in 1 .. n : g[k] = f[k]
    BY <2>2, <2>g
  <2>6. \A k \in 1 .. n : /\ f[k] \in thread_pool /\ tid[f[k]] = monitor_thread_free[k]
                          /\ worker[f[k]] \in {"leave", "exited"}
                          /\ \A j \in 1 .. n : f[j] = f[k] => j = k
    BY <2>1 DEF GivenTo
  <2>7. \A k \in 1 .. n + 1 : k = n + 1 \/ k \in 1 .. n
    BY <2>2
  <2> HIDE DEF n
  <2>8. GivenTo(g)'
    BY <1>1, <2>2, <2>3, <2>4, <2>5, <2>6, <2>7 DEF GivenTo
  <2> QED
    BY <2>8 DEF EntriesHaveWorkers
<1> QED
  BY <1>2, <1>3, <1>4 DEF TidInv

\* The steps of a worker.
LEMMA WorkerStepTid ==
  ASSUME TidInv, IInv, NEW w \in Workers, WorkerStep(w) PROVE TidInv'
<1>0. TypeOK
  BY DEF IInv
<1>1. CASE ThreadStart(w)
  BY <1>1, ThreadStartTid
<1>2. CASE WorkerRetire(w)
  BY <1>2, WorkerRetireTid
<1>3. CASE ~ThreadStart(w) /\ ~WorkerRetire(w)
  <2>1. /\ UNCHANGED <<notWorker, tid, monitor_thread_free, monitor>>
        /\ worker[w] \notin {"none", "born", "exited"}
        /\ \E x : /\ worker' = [worker EXCEPT ![w] = x] /\ x \notin {"none", "born"}
                  /\ worker[w] = "leave" => x = "exited"
    BY <1>3 DEF WorkerStep, WorkerLock, WorkerIdle, WorkerSleep, WorkerWake,
       WorkerReacquire, WorkerLeave, WorkerTerminate, WorkerPop, WorkerBegin, WorkerFinish
  <2>2. PICK x : /\ worker' = [worker EXCEPT ![w] = x] /\ x \notin {"none", "born"}
                 /\ worker[w] = "leave" => x = "exited"
    BY <2>1
  <2> QED
    BY <1>0, <2>1, <2>2, WorkerMoveTid
<1> QED
  BY <1>1, <1>2, <1>3

\* The steps of Commit outside AddThread.
LEMMA CommitStepTid ==
  ASSUME TidInv, IInv, NEW t \in Tasks,
         CommitCall(t) \/ CommitLock(t) \/ CommitEnqueueFull(t) \/ CommitNotify(t)
  PROVE  TidInv'
<1>0. TypeOK /\ PoolLocked
  BY DEF IInv, TidInv
<1>1. /\ UNCHANGED <<notCommit, thread_pool_mutex, thread_pool, created, owner>>
      /\ commit[t] \notin {"spawn", "latch"} /\ commit'[t] \notin {"spawn", "latch"}
      /\ \A u \in Tasks : u # t => commit'[u] = commit[u]
  BY <1>0 DEF CommitCall, CommitLock, CommitEnqueueFull, CommitNotify, TypeOK
<1>2. \A w \in Workers : worker'[w] # worker[w] => worker[w] = "wait" /\ worker'[w] = "woken"
  <2>1. CASE CommitNotify(t)
    BY <1>0, <2>1, NotifyMoves DEF CommitNotify, NotifyEffect
  <2>2. CASE ~CommitNotify(t)
    BY <2>2 DEF CommitCall, CommitLock, CommitEnqueueFull
  <2> QED
    BY <2>1, <2>2
<1>3. PoolLocked' /\ \A p \in Callers : Adding(p, "latch") => Adding(p, "latch")'
  BY <1>0, <1>1, NamesAssumption DEF PoolLocked, Callers, Adding, notCommit
<1> QED
  BY <1>0, <1>1, <1>2, <1>3, TidKept DEF notCommit

\* AddThread starts a thread only when the one before it has its tid.
LEMMA AddThreadTid ==
  ASSUME TidInv, IInv, NEW p \in Callers, AddThread(p) PROVE TidInv'
<1>0. /\ TypeOK /\ Created /\ PoolLocked /\ BornIsNewest /\ NoTidYet /\ Listed /\ OlderExited
      /\ created \in Nat /\ Workers \subseteq Nat
  BY PoolAssumption, 1 .. MaxThreads \subseteq Nat DEF TidInv, IInv, TypeOK, Workers
\* The callers other than p do not move.
<1>1. ASSUME NEW at \in {"add", "addlock", "spawn", "latch"},
             NEW to \in {"add", "addlock", "spawn", "latch", "ready", "added"},
             Adding(p, at), AddGoto(p, to)
      PROVE  /\ \A a : Adding(p, a)' <=> a = to
             /\ \A a : Adding(p, a) <=> a = at
             /\ \A q \in Callers : \A a : q # p => (Adding(q, a)' <=> Adding(q, a))
  <2>1. CASE p = Owner
    BY <1>1, <2>1 DEF Adding, AddGoto
  <2>2. CASE p # Owner /\ p \in Tasks
    <3>1. commit' = [commit EXCEPT ![p] = to] /\ owner' = owner /\ commit[p] = at
      BY <1>1, <2>2 DEF Adding, AddGoto
    <3>2. commit'[p] = to /\ \A q \in Tasks : q # p => commit'[q] = commit[q]
      BY <1>0, <2>2, <3>1 DEF TypeOK
    <3> QED
      BY <2>2, <3>1, <3>2 DEF Adding, Callers
  <2> QED
    BY <2>1, <2>2 DEF Callers
<1>2. CASE AddThreadEnter(p)
  <2>1. /\ UNCHANGED <<thread_pool_mutex, thread_pool, created, worker, notCommit>>
        /\ \/ UNCHANGED <<owner, commit>>
           \/ Adding(p, "add") /\ AddGoto(p, "addlock")
    BY <1>2 DEF AddThreadEnter
  <2>2. PoolLocked' /\ \A q \in Callers : Adding(q, "latch") => Adding(q, "latch")'
    <3>1. CASE UNCHANGED <<owner, commit>>
      BY <1>0, <2>1, <3>1 DEF PoolLocked, Adding, notCommit
    <3>2. CASE Adding(p, "add") /\ AddGoto(p, "addlock")
      <4>1. \A q \in Callers : (Adding(q, "latch")' <=> Adding(q, "latch"))
                               /\ (Adding(q, "spawn")' <=> Adding(q, "spawn"))
        BY <1>1, <3>2
      <4> QED
        BY <1>0, <2>1, <4>1 DEF PoolLocked, notCommit
    <3> QED
      BY <2>1, <3>1, <3>2
  <2> QED
    BY <1>0, <2>1, <2>2, TidKept DEF notCommit
<1>3. CASE AddThreadLock(p)
  <2>1. /\ UNCHANGED <<thread_pool, created, worker, notCommit>>
        /\ Adding(p, "addlock") /\ AddGoto(p, "spawn")
        /\ thread_pool_mutex = None /\ thread_pool_mutex' = p
    BY <1>3 DEF AddThreadLock, Lock
  <2>2. /\ Adding(p, "spawn")'
        /\ \A q \in Callers : /\ Adding(q, "latch")' <=> Adding(q, "latch")
                              /\ q # p => (Adding(q, "spawn")' <=> Adding(q, "spawn"))
    BY <1>1, <2>1
  <2>3. PoolLocked'
    BY <1>0, <2>1, <2>2, NamesAssumption DEF PoolLocked, notCommit, Callers
  <2> QED
    BY <1>0, <2>1, <2>2, <2>3, TidKept DEF notCommit
<1>4. CASE AddThreadReturn(p)
  <2>1. /\ UNCHANGED <<thread_pool, created, worker, notCommit>>
        /\ Adding(p, "spawn") /\ AddGoto(p, IF p = Owner THEN "ready" ELSE "added")
        /\ thread_pool_mutex' = None
    BY <1>4 DEF AddThreadReturn, UnLock
  <2>2. /\ ~Adding(p, "spawn")' /\ ~Adding(p, "latch")'
        /\ \A q \in Callers : /\ Adding(q, "latch")' <=> Adding(q, "latch")
                              /\ q # p => (Adding(q, "spawn")' <=> Adding(q, "spawn"))
    <3>1. (IF p = Owner THEN "ready" ELSE "added") \in {"ready", "added"}
      OBVIOUS
    <3> QED
      BY <1>1, <2>1, <3>1
  <2>3. PoolLocked'
    BY <1>0, <2>1, <2>2, NamesAssumption DEF PoolLocked, notCommit, Callers
  <2> QED
    BY <1>0, <2>1, <2>2, <2>3, TidKept DEF notCommit
<1>5. CASE AddThreadStarted(p)
  <2>1. /\ UNCHANGED <<thread_pool_mutex, thread_pool, created, worker, notCommit>>
        /\ Adding(p, "latch") /\ AddGoto(p, "spawn") /\ tid[created] # 0
    BY <1>5 DEF AddThreadStarted
  <2>2. /\ Adding(p, "spawn")' /\ ~Adding(p, "latch")'
        /\ \A q \in Callers : q # p => /\ Adding(q, "latch")' <=> Adding(q, "latch")
                                       /\ Adding(q, "spawn")' <=> Adding(q, "spawn")
    BY <1>1, <2>1
  <2>3. PoolLocked'
    BY <1>0, <2>1, <2>2 DEF PoolLocked, notCommit
  <2>4. \A w \in Workers : worker[w] # "born"
    BY <1>0, <2>1 DEF BornIsNewest, NoTidYet
  <2>5. BornIsNewest' /\ NoTidYet' /\ Listed' /\ OlderExited'
    BY <1>0, <2>1, <2>4 DEF BornIsNewest, NoTidYet, Listed, OlderExited, notCommit
  <2>6. EntriesHaveWorkers'
    BY <2>1 DEF TidInv, EntriesHaveWorkers, GivenTo, notCommit
  <2> QED
    BY <2>3, <2>5, <2>6 DEF TidInv
<1>6. CASE AddThreadSpawn(p)
  <2>1. /\ UNCHANGED <<thread_pool_mutex, notCommit>>
        /\ Adding(p, "spawn") /\ AddGoto(p, "latch")
        /\ created' = created + 1 /\ created < MaxThreads
        /\ thread_pool' = thread_pool \cup {created'}
        /\ worker' = [worker EXCEPT ![created'] = "born"]
    BY <1>6 DEF AddThreadSpawn
  <2>0. created' \in Workers
    BY <1>0, <2>1, PoolAssumption DEF Workers
  <2>2. /\ ~Adding(p, "spawn")' /\ Adding(p, "latch")' /\ ~Adding(p, "latch")
        /\ \A q \in Callers : q # p => /\ Adding(q, "latch")' <=> Adding(q, "latch")
                                       /\ Adding(q, "spawn")' <=> Adding(q, "spawn")
    BY <1>1, <2>1
  <2>3. PoolLocked'
    BY <1>0, <2>1, <2>2 DEF PoolLocked, notCommit
  <2>4. \A w \in Workers : worker[w] # "born"
    BY <1>0, <2>1, <2>2 DEF BornIsNewest, PoolLocked
  <2>5. /\ worker[created'] = "none" /\ tid[created'] = 0 /\ worker'[created'] = "born"
        /\ \A w \in Workers : w # created' => worker'[w] = worker[w]
    BY <1>0, <2>0, <2>1 DEF TypeOK, Created, NoTidYet
  <2>6. BornIsNewest'
    BY <2>0, <2>1, <2>2, <2>4, <2>5 DEF BornIsNewest
  <2>7. NoTidYet' /\ Listed' /\ OlderExited'
    BY <1>0, <2>0, <2>1, <2>5 DEF NoTidYet, Listed, OlderExited, notCommit
  <2>8. EntriesHaveWorkers'
    <3>1. PICK f : GivenTo(f)
      BY DEF TidInv, EntriesHaveWorkers
    <3>2. \A k \in 1 .. Len(monitor_thread_free) : f[k] \in Workers /\ f[k] # created'
      BY <1>0, <2>5, <3>1 DEF GivenTo, TypeOK
    <3>3. GivenTo(f)'
      BY <2>1, <2>5, <3>1, <3>2 DEF GivenTo, notCommit
    <3> QED
      BY <3>3 DEF EntriesHaveWorkers
  <2> QED
    BY <2>3, <2>6, <2>7, <2>8 DEF TidInv
<1> QED
  BY <1>2, <1>3, <1>4, <1>5, <1>6 DEF AddThread

\* The object that find_if gives for an entry of monitor_thread_free_ has retired
\* or exited: it is the one the entry is given to, or an older one.
LEMMA FindIsRetired ==
  ASSUME TypeOK, OlderExited, NEW f, GivenTo(f), monitor_thread_free # <<>>
  PROVE  LET i == Head(monitor_thread_free)
         IN  /\ WithTid(i) # {} /\ Find(i) \in thread_pool /\ tid[Find(i)] = i
             /\ worker[Find(i)] \in {"leave", "exited"}
<1> DEFINE i == Head(monitor_thread_free)
           w == Find(i)
<1>1. /\ 1 \in 1 .. Len(monitor_thread_free) /\ i = monitor_thread_free[1]
      /\ i # 0 /\ i \in Tids
  <2>1. monitor_thread_free \in Seq(Tids) /\ Tids \subseteq Nat \ {0}
    BY PoolAssumption DEF TypeOK
  <2>2. Len(monitor_thread_free) \in Nat /\ Len(monitor_thread_free) # 0
    BY <2>1
  <2>3. 1 \in 1 .. Len(monitor_thread_free)
    BY <2>2
  <2> QED
    BY <2>1, <2>3
<1>2. f[1] \in WithTid(i) /\ worker[f[1]] \in {"leave", "exited"}
  BY <1>1 DEF GivenTo, WithTid
<1>3. thread_pool \subseteq Workers /\ Workers \subseteq Nat
  BY PoolAssumption, 1 .. MaxThreads \subseteq Nat DEF TypeOK, Workers
<1>4. WithTid(i) \in SUBSET Nat
  BY <1>3 DEF WithTid
<1>5. \E u \in WithTid(i) : \A v \in WithTid(i) : u <= v
  BY <1>2, <1>4, FirstExists
<1>6. w \in WithTid(i) /\ \A v \in WithTid(i) : w <= v
  BY <1>5 DEF Find
<1> HIDE DEF w
<1>7. w \in Workers /\ f[1] \in Workers /\ tid[w] = i /\ tid[f[1]] = i /\ w <= f[1]
  BY <1>2, <1>3, <1>6 DEF WithTid
<1>8. w = f[1] \/ w < f[1]
  <2>1. w \in Nat /\ f[1] \in Nat
    BY <1>3, <1>7
  <2>2. \A a, b \in Nat : a <= b => a = b \/ a < b
    OBVIOUS
  <2> QED
    BY <1>7, <2>1, <2>2
<1>9. worker[w] \in {"leave", "exited"}
  BY <1>1, <1>2, <1>7, <1>8 DEF OlderExited
<1> QED
  BY <1>2, <1>6, <1>7, <1>9 DEF w, WithTid

\* The monitor erases an exited worker together with an entry of its tid.
LEMMA MonitorJoinedTid ==
  ASSUME TidInv, IInv, MonitorJoined PROVE TidInv'
<1> DEFINE n == Len(monitor_thread_free)
<1>0. /\ TypeOK /\ PoolLocked /\ BornIsNewest /\ NoTidYet /\ Listed /\ OlderExited
      /\ monitor = "joining" /\ monitor_thread_free # <<>>
  BY DEF TidInv, IInv, MonitorJoined, MonitorHasEntry
<1>1. PICK f : GivenTo(f)
  BY DEF TidInv, EntriesHaveWorkers
<1>2. PICK w : /\ w = Find(Head(monitor_thread_free)) /\ w \in thread_pool
               /\ tid[w] = Head(monitor_thread_free)
  BY <1>0, <1>1, FindIsRetired
<1>3. /\ UNCHANGED notMonitor /\ worker[w] = "exited" /\ thread_pool' = thread_pool \ {w}
      /\ monitor_thread_free' = Tail(monitor_thread_free)
      /\ thread_pool_mutex' = None /\ monitor' = "reap"
  BY <1>2 DEF MonitorJoined, UnLock
<1>4. PoolLocked'
  BY <1>0, <1>3, NamesAssumption DEF PoolLocked, notMonitor, Adding, Callers
<1>5. BornIsNewest' /\ NoTidYet' /\ Listed' /\ OlderExited'
  BY <1>0, <1>3 DEF BornIsNewest, NoTidYet, Listed, OlderExited, notMonitor, Adding
<1>6. EntriesHaveWorkers'
  <2>1. PICK g : g = [k \in 1 .. n - 1 |-> IF f[k + 1] = w THEN f[1] ELSE f[k + 1]]
    OBVIOUS
  <2>2. /\ n \in Nat \ {0} /\ Len(monitor_thread_free') = n - 1
        /\ monitor_thread_free[1] = tid[w]
        /\ \A k \in 1 .. n - 1 : monitor_thread_free'[k] = monitor_thread_free[k + 1]
    BY <1>0, <1>2, <1>3 DEF TypeOK
  <2>3. \A k \in 1 .. n : /\ f[k] \in thread_pool /\ tid[f[k]] = monitor_thread_free[k]
                          /\ worker[f[k]] \in {"leave", "exited"}
                          /\ \A j \in 1 .. n : f[j] = f[k] => j = k
    BY <1>1 DEF GivenTo
  <2> HIDE DEF n
  <2>4. 1 \in 1 .. n /\ \A k \in 1 .. n - 1 : k + 1 \in 1 .. n /\ k + 1 # 1
    BY <2>2
  <2>5. ASSUME NEW k \in 1 .. n - 1
        PROVE  /\ g[k] \in thread_pool \ {w} /\ tid[g[k]] = monitor_thread_free[k + 1]
               /\ worker[g[k]] \in {"leave", "exited"}
               /\ \A j \in 1 .. n - 1 : g[j] = g[k] => j = k
    <3>1. /\ g[k] = IF f[k + 1] = w THEN f[1] ELSE f[k + 1]
          /\ \A j \in 1 .. n - 1 : g[j] = IF f[j + 1] = w THEN f[1] ELSE f[j + 1]
      BY <2>1, <2>5
    <3>2. f[1] # f[k + 1]
      BY <2>3, <2>4
    <3>3. /\ g[k] \in thread_pool \ {w} /\ tid[g[k]] = monitor_thread_free[k + 1]
          /\ worker[g[k]] \in {"leave", "exited"}
      BY <2>2, <2>3, <2>4, <3>1, <3>2
    <3>4. ASSUME NEW j \in 1 .. n - 1, g[j] = g[k] PROVE j + 1 = k + 1
      <4>1. j + 1 \in 1 .. n /\ k + 1 \in 1 .. n /\ f[1] # f[j + 1]
        BY <2>3, <2>4
      <4> QED
        BY <2>3, <3>1, <3>2, <3>4, <4>1
    <3>5. \A j \in 1 .. n - 1 : j + 1 = k + 1 => j = k
      BY <2>2
    <3> QED
      BY <3>3, <3>4, <3>5
  <2>6. GivenTo(g)'
    BY <1>3, <2>2, <2>5 DEF GivenTo, notMonitor
  <2> QED
    BY <2>6 DEF EntriesHaveWorkers
<1> QED
  BY <1>4, <1>5, <1>6 DEF TidInv

\* The steps of the monitor.
LEMMA MonitorStepTid ==
  ASSUME TidInv, IInv, MonitorStep \/ MonitorSpuriousWake PROVE TidInv'
<1>0. TypeOK /\ PoolLocked /\ OlderExited
  BY DEF TidInv, IInv
<1>1. UNCHANGED notMonitor
  BY DEF MonitorStep, MonitorLock, MonitorTest, MonitorSleep, MonitorReacquire,
         MonitorFind, MonitorJoined, MonitorEndRound, MonitorSpuriousWake
<1>2. CASE MonitorJoined
  BY <1>2, MonitorJoinedTid
<1>3. CASE MonitorFind
  <2>1. PICK f : GivenTo(f)
    BY DEF TidInv, EntriesHaveWorkers
  <2>2. WithTid(Head(monitor_thread_free)) # {}
    BY <1>0, <1>3, <2>1, FindIsRetired DEF MonitorFind
  <2>3. /\ thread_pool_mutex = None /\ thread_pool_mutex' = Monitor
        /\ monitor' = "joining" /\ UNCHANGED <<monitor_thread_free, thread_pool>>
    BY <1>3, <2>2 DEF MonitorFind
  <2>4. PoolLocked' /\ \A p \in Callers : Adding(p, "latch") => Adding(p, "latch")'
    BY <1>0, <1>1, <2>3, NamesAssumption DEF PoolLocked, Adding, notMonitor, Callers
  <2> QED
    BY <1>0, <1>1, <2>3, <2>4, TidKept DEF notMonitor
<1>4. CASE ~MonitorJoined /\ ~MonitorFind
  <2>1. /\ UNCHANGED <<monitor_thread_free, thread_pool, thread_pool_mutex>>
        /\ monitor # "joining" /\ monitor' # "joining"
    BY <1>4 DEF MonitorStep, MonitorLock, MonitorTest, MonitorSleep, MonitorReacquire,
       MonitorEndRound, MonitorSpuriousWake
  <2>2. PoolLocked' /\ \A p \in Callers : Adding(p, "latch") => Adding(p, "latch")'
    BY <1>0, <1>1, <2>1 DEF PoolLocked, Adding, notMonitor
  <2> QED
    BY <1>0, <1>1, <2>1, <2>2, TidKept DEF notMonitor
<1> QED
  BY <1>2, <1>3, <1>4

\* The steps of the owner outside AddThread.
LEMMA OwnerStepTid ==
  ASSUME TidInv, IInv, DestroyJoin \/ DestroyJoined \/ DestroyEnd \/ ShutDown \/ DestroyBegin
  PROVE  TidInv'
<1>0. TypeOK /\ PoolLocked
  BY DEF TidInv, IInv
<1>1. /\ UNCHANGED notOwner
      /\ owner \notin {"spawn", "latch"} /\ owner' \notin {"spawn", "latch"}
      /\ monitor' = "joining" <=> monitor = "joining"
      /\ \A w \in Workers : worker'[w] # worker[w] => worker[w] = "wait" /\ worker'[w] = "woken"
  BY DEF DestroyJoin, DestroyJoined, DestroyEnd, ShutDown, DestroyBegin, MonitorNotify
<1>2. PoolLocked' /\ \A p \in Callers : Adding(p, "latch") => Adding(p, "latch")'
  BY <1>0, <1>1 DEF PoolLocked, Adding, notOwner
<1> QED
  BY <1>0, <1>1, <1>2, TidKept DEF notOwner

\* Every step keeps what is said about the thread ids.
LEMMA NextTid ==
  ASSUME IInv, TidInv, [Next]_vars PROVE TidInv'
<1>1. ASSUME NEW w \in Workers, WorkerStep(w) PROVE TidInv'
  BY <1>1, WorkerStepTid
<1>2. ASSUME NEW t \in Tasks, CommitCall(t) \/ CommitStep(t) PROVE TidInv'
  BY <1>2, CommitStepTid, AddThreadTid DEF CommitStep, Callers
<1>3. CASE MonitorStep \/ MonitorSpuriousWake
  BY <1>3, MonitorStepTid
<1>4. CASE OwnerStep \/ ShutDown \/ DestroyBegin
  BY <1>4, OwnerStepTid, AddThreadTid DEF OwnerStep, Callers
<1>5. CASE Over \/ UNCHANGED vars
  BY <1>5 DEF Over, vars, TidInv, PoolLocked, BornIsNewest, NoTidYet, Listed, OlderExited,
     EntriesHaveWorkers, GivenTo, Adding
<1> QED
  BY <1>1, <1>2, <1>3, <1>4, <1>5 DEF Next

-----------------------------------------------------------------------------
(* Tasks.  A committed task is in one place: in the queue, with one worker *)
(* or done; and whoever could still run it is not yet joined.              *)

Holders == {w \in Workers : worker[w] \in {"popped", "busy"}}
Queued(t) == \E i \in 1 .. Len(tasks) : tasks[i] = t
Held(t) == \E w \in Holders : holding[w] = t

\* No task is twice in the queue, with two workers, or in two places.
OnePlace ==
  /\ \A i, j \in 1 .. Len(tasks) : tasks[i] = tasks[j] => i = j
  /\ \A v, w \in Holders : holding[v] = holding[w] => v = w
  /\ \A t \in Tasks : /\ ~(Queued(t) /\ Held(t))
                      /\ ran[t] # 0 => ran[t] = 1 /\ ~Queued(t) /\ ~Held(t)

\* A task that is not queued yet is nowhere; an accepted one is somewhere.
NotBefore == \A t \in Tasks : commit[t] \notin {"notify", "done"} =>
  ~Queued(t) /\ ~Held(t) /\ ran[t] = 0 /\ t \notin accepted
AcceptedPlaced == \A t \in accepted : Queued(t) \/ Held(t) \/ ran[t] = 1

\* Commit is called, and completes, between constructor and destructor.
NoCommitLeft == owner # "ready" => \A t \in Tasks : commit[t] \in {"new", "done"}

\* In a pool with a core, a worker is left while an accepted task is queued.
Served ==
  CorePoolSize > 0 /\ MaxPoolSize > 0 /\ (\E t \in accepted : Queued(t))
    => now_thread_num > 0

\* What ~ThreadPool has walked past has exited.
Walked ==
  /\ owner \in {"walk", "joining"} =>
       \A w \in thread_pool : it = 0 \/ w < it => worker[w] = "exited"
  /\ owner = "destroyed" => \A w \in thread_pool : worker[w] = "exited"
  /\ owner = "joining" => it # 0

Places == OnePlace /\ NotBefore /\ AcceptedPlaced
Ending == NoCommitLeft /\ Served /\ Walked

\* Steps that move no task.
LEMMA PlacesKept ==
  ASSUME Places, UNCHANGED <<tasks, holding, ran, accepted>>, Holders' = Holders,
         \A t \in Tasks : commit'[t] \notin {"notify", "done"}
                            => commit[t] \notin {"notify", "done"}
  PROVE  Places'
<1>1. \A t : (Queued(t)' <=> Queued(t)) /\ (Held(t)' <=> Held(t))
  BY DEF Queued, Held
<1>2. OnePlace'
  BY <1>1 DEF Places, OnePlace
<1>3. NotBefore'
  BY <1>1 DEF Places, NotBefore
<1>4. AcceptedPlaced'
  BY <1>1 DEF Places, AcceptedPlaced
<1> QED
  BY <1>2, <1>3, <1>4 DEF Places

\* pop_front moves the first task from the queue to the worker.
LEMMA WorkerPopPlaces ==
  ASSUME Places, TypeOK, NEW w \in Workers, WorkerPop(w) PROVE Places'
<1> DEFINE n == Len(tasks)
<1>0. OnePlace /\ NotBefore /\ AcceptedPlaced
  BY DEF Places
<1>1. tasks \in Seq(Tasks) /\ tasks # <<>> /\ tasks' = Tail(tasks)
  BY DEF TypeOK, WorkerPop, KeepWaiting, MayTerminate
<1>2. n \in Nat /\ n # 0
  BY <1>1
<1>3. PICK h : h = tasks[1] /\ h = Head(tasks) /\ h \in Tasks
  BY <1>1, <1>2
<1>4. Len(tasks') = n - 1 /\ \A i \in 1 .. n - 1 : tasks'[i] = tasks[i + 1]
  BY <1>1, <1>2
<1> HIDE DEF n
<1>5. /\ \A i \in 1 .. n - 1 : i + 1 \in 1 .. n /\ i + 1 # 1 /\ (i + 1) - 1 = i
      /\ \A i \in 1 .. n : i # 1 => i - 1 \in 1 .. n - 1 /\ (i - 1) + 1 = i
      /\ 1 \in 1 .. n
  BY <1>2
<1>6. \A t : Queued(t)' <=> Queued(t) /\ t # h
  <2>1. ASSUME NEW t, Queued(t)' PROVE Queued(t) /\ t # h
    <3>1. PICK i \in 1 .. n - 1 : tasks'[i] = t
      BY <1>4, <2>1 DEF Queued
    <3> QED
      BY <1>0, <1>3, <1>4, <1>5, <3>1 DEF Queued, OnePlace, n
  <2>2. ASSUME NEW t, Queued(t), t # h PROVE Queued(t)'
    <3>1. PICK i \in 1 .. n : tasks[i] = t /\ i # 1
      BY <1>3, <2>2 DEF Queued, n
    <3>2. i - 1 \in 1 .. n - 1 /\ tasks'[i - 1] = t
      BY <1>4, <1>5, <3>1
    <3> QED
      BY <1>4, <3>2 DEF Queued
  <2> QED
    BY <2>1, <2>2
<1>7. /\ Holders' = Holders \cup {w} /\ w \notin Holders
      /\ holding'[w] = h /\ \A v \in Workers : v # w => holding'[v] = holding[v]
  BY <1>3 DEF WorkerPop, TypeOK, Holders
<1>8. Queued(h) /\ ~Held(h)
  BY <1>0, <1>3, <1>5 DEF Queued, OnePlace, n
<1>9. \A t : Held(t)' <=> Held(t) \/ t = h
  BY <1>7 DEF Held, Holders
<1>10. UNCHANGED <<ran, accepted, commit>>
  BY DEF WorkerPop, notWorker
<1>11. \A i, j \in 1 .. Len(tasks)' : tasks'[i] = tasks'[j] => i = j
  <2>1. SUFFICES ASSUME NEW i \in 1 .. n - 1, NEW j \in 1 .. n - 1, tasks'[i] = tasks'[j]
                 PROVE  i = j
    BY <1>4
  <2>2. i + 1 = j + 1
    BY <1>0, <1>4, <1>5, <2>1 DEF OnePlace, n
  <2> QED
    BY <1>5, <2>2
<1>12. \A u, v \in Holders' : holding'[u] = holding'[v] => u = v
  <2>1. \A v \in Holders : v \in Workers /\ v # w /\ holding'[v] = holding[v] /\ holding[v] # h
    BY <1>7, <1>8 DEF Held, Holders
  <2> QED
    BY <1>0, <1>7, <2>1 DEF OnePlace
<1>13. OnePlace'
  BY <1>0, <1>6, <1>8, <1>9, <1>10, <1>11, <1>12 DEF OnePlace
<1>14. NotBefore'
  BY <1>0, <1>3, <1>6, <1>8, <1>9, <1>10 DEF NotBefore
<1>15. AcceptedPlaced'
  BY <1>0, <1>6, <1>9, <1>10 DEF AcceptedPlaced
<1> QED
  BY <1>13, <1>14, <1>15 DEF Places

\* The worker has run its task, for the first time.
LEMMA WorkerFinishPlaces ==
  ASSUME Places, TypeOK, HoldsTask, NEW w \in Workers, WorkerFinish(w) PROVE Places'
<1>0. OnePlace /\ NotBefore /\ AcceptedPlaced
  BY DEF Places
<1>1. PICK h : h = holding[w] /\ h \in Tasks
  BY DEF WorkerFinish, HoldsTask
<1>2. /\ Holders' = Holders \ {w} /\ w \in Holders
      /\ \A v \in Workers : v # w => holding'[v] = holding[v]
  BY DEF WorkerFinish, TypeOK, Holders
<1>3. Held(h) /\ ran[h] = 0
  BY <1>0, <1>1, <1>2 DEF Held, OnePlace
<1>4. ran'[h] = 1 /\ \A t \in Tasks : t # h => ran'[t] = ran[t]
  BY <1>1, <1>3 DEF WorkerFinish, TypeOK
<1>5. UNCHANGED <<tasks, accepted, commit>>
  BY DEF WorkerFinish, notWorker
<1>6. \A t : Queued(t)' <=> Queued(t)
  BY <1>5 DEF Queued
<1>7. \A v \in Holders' : v \in Holders /\ holding'[v] = holding[v] /\ holding[v] # h
  BY <1>0, <1>1, <1>2 DEF Holders, OnePlace
<1>8. \A t : Held(t)' <=> Held(t) /\ t # h
  BY <1>1, <1>2, <1>7 DEF Held
<1>9. OnePlace'
  BY <1>0, <1>3, <1>4, <1>5, <1>6, <1>7, <1>8 DEF OnePlace
<1>10. NotBefore'
  BY <1>0, <1>3, <1>4, <1>5, <1>6, <1>8 DEF NotBefore
<1>11. AcceptedPlaced'
  BY <1>0, <1>4, <1>5, <1>6, <1>8, accepted \subseteq Tasks DEF AcceptedPlaced, TypeOK
<1> QED
  BY <1>9, <1>10, <1>11 DEF Places

\* emplace_back puts a task into the queue that has been nowhere before.
LEMMA EnqueuePlaces ==
  ASSUME Places, TypeOK, NEW t \in Tasks, Enqueue(t), commit[t] \notin {"notify", "done"},
         commit' = [commit EXCEPT ![t] = "notify"], UNCHANGED <<holding, ran, worker>>
  PROVE  Places'
<1> DEFINE n == Len(tasks)
<1>0. OnePlace /\ NotBefore /\ AcceptedPlaced
  BY DEF Places
<1>1. tasks \in Seq(Tasks) /\ tasks' = Append(tasks, t) /\ n \in Nat
  BY DEF TypeOK, Enqueue
<1>2. /\ Len(tasks') = n + 1 /\ tasks'[n + 1] = t
      /\ \A i \in 1 .. n : tasks'[i] = tasks[i]
  BY <1>1
<1> HIDE DEF n
<1>3. /\ \A i \in 1 .. n + 1 : i = n + 1 \/ i \in 1 .. n
      /\ \A i \in 1 .. n : i \in 1 .. n + 1
      /\ n + 1 \in 1 .. n + 1
  BY <1>1
<1>4. \A u : Queued(u)' <=> Queued(u) \/ u = t
  BY <1>2, <1>3 DEF Queued, n
<1>5. Holders' = Holders /\ \A u : Held(u)' <=> Held(u)
  BY DEF Holders, Held
<1>6. ~Queued(t) /\ ~Held(t) /\ ran[t] = 0 /\ t \notin accepted
  BY <1>0 DEF NotBefore
<1>7. \A i, j \in 1 .. Len(tasks)' : tasks'[i] = tasks'[j] => i = j
  <2>1. \A i \in 1 .. n : tasks[i] # t
    BY <1>6 DEF Queued, n
  <2> QED
    BY <1>0, <1>2, <1>3, <2>1 DEF OnePlace, n
<1>8. OnePlace'
  BY <1>0, <1>4, <1>5, <1>6, <1>7 DEF OnePlace
<1>9. \A u \in Tasks : u # t => commit'[u] = commit[u]
  BY DEF TypeOK
<1>10. commit'[t] = "notify" /\ accepted' \subseteq accepted \cup {t}
  BY DEF TypeOK, Enqueue
<1>11. NotBefore'
  BY <1>0, <1>4, <1>5, <1>9, <1>10 DEF NotBefore
<1>12. AcceptedPlaced'
  BY <1>0, <1>4, <1>5, <1>10 DEF AcceptedPlaced
<1> QED
  BY <1>8, <1>11, <1>12 DEF Places

\* The steps of a worker and the places of the tasks.
LEMMA WorkerStepPlaces ==
  ASSUME Places, IInv, NEW w \in Workers, WorkerStep(w) PROVE Places'
<1>0. TypeOK /\ HoldsTask
  BY DEF IInv
<1>1. CASE WorkerPop(w)
  BY <1>0, <1>1, WorkerPopPlaces
<1>2. CASE WorkerFinish(w)
  BY <1>0, <1>2, WorkerFinishPlaces
<1>3. CASE ~WorkerPop(w) /\ ~WorkerFinish(w)
  <2>1. UNCHANGED <<tasks, holding, ran, accepted, commit>>
    BY <1>3 DEF WorkerStep, ThreadStart, WorkerLock, WorkerIdle, WorkerSleep, WorkerWake,
       WorkerReacquire, WorkerRetire, WorkerLeave, WorkerTerminate, WorkerBegin, notWorker
  <2>2. \E x : /\ worker' = [worker EXCEPT ![w] = x]
               /\ x \in {"popped", "busy"} <=> worker[w] \in {"popped", "busy"}
    BY <1>3 DEF WorkerStep, ThreadStart, WorkerLock, WorkerIdle, WorkerSleep, WorkerWake,
       WorkerReacquire, WorkerRetire, WorkerLeave, WorkerTerminate, WorkerBegin
  <2>3. Holders' = Holders
    BY <1>0, <2>2 DEF TypeOK, Holders
  <2> QED
    BY <2>1, <2>3, PlacesKept
<1> QED
  BY <1>1, <1>2, <1>3

\* A worker that leaves leaves an empty queue or a core behind it.
LEMMA WorkerStepEnding ==
  ASSUME Ending, IInv, NEW w \in Workers, WorkerStep(w) PROVE Ending'
<1>0. TypeOK /\ NoCommitLeft /\ Served /\ Walked
  BY DEF IInv, Ending
<1>1. UNCHANGED notWorker
  BY DEF WorkerStep, ThreadStart, WorkerLock, WorkerIdle, WorkerSleep, WorkerWake,
     WorkerReacquire, WorkerRetire, WorkerLeave, WorkerTerminate, WorkerPop,
     WorkerBegin, WorkerFinish
<1>2. worker[w] # "exited" /\ \A v \in Workers : v # w => worker'[v] = worker[v]
  BY <1>0 DEF TypeOK, WorkerStep, ThreadStart, WorkerLock, WorkerIdle, WorkerSleep,
     WorkerWake, WorkerReacquire, WorkerRetire, WorkerLeave, WorkerTerminate, WorkerPop,
     WorkerBegin, WorkerFinish
<1>3. NoCommitLeft'
  BY <1>0, <1>1 DEF NoCommitLeft, notWorker
<1>4. Walked'
  BY <1>0, <1>1, <1>2 DEF Walked, notWorker, TypeOK
<1>5. Served'
  <2>1. \A t : Queued(t)' => Queued(t)
    <3>1. CASE WorkerPop(w)
      <4>1. tasks \in Seq(Tasks) /\ tasks # <<>> /\ tasks' = Tail(tasks)
        BY <1>0, <3>1 DEF TypeOK, WorkerPop, KeepWaiting, MayTerminate
      <4>2. /\ \A i \in 1 .. Len(tasks') : i + 1 \in 1 .. Len(tasks)
            /\ \A i \in 1 .. Len(tasks') : tasks'[i] = tasks[i + 1]
        BY <4>1
      <4> QED
        BY <4>2 DEF Queued
    <3>2. CASE UNCHANGED tasks
      BY <3>2 DEF Queued
    <3> QED
      BY <3>1, <3>2 DEF WorkerStep, ThreadStart, WorkerLock, WorkerIdle, WorkerSleep,
         WorkerWake, WorkerReacquire, WorkerRetire, WorkerLeave, WorkerTerminate,
         WorkerBegin, WorkerFinish
  <2>2. CASE UNCHANGED now_thread_num
    BY <1>0, <1>1, <2>1, <2>2 DEF Served, notWorker
  <2>3. CASE MayRetire /\ now_thread_num' = now_thread_num - 1
    BY <1>0, <2>3, PoolAssumption DEF Served, MayRetire, TypeOK
  <2>4. CASE tasks = <<>>
    <3>1. \A t : ~Queued(t)
      BY <2>4 DEF Queued
    <3> QED
      BY <2>1, <3>1 DEF Served
  <2> QED
    BY <2>2, <2>3, <2>4 DEF WorkerStep, ThreadStart, WorkerLock, WorkerIdle, WorkerSleep,
       WorkerWake, WorkerReacquire, WorkerRetire, WorkerLeave, WorkerTerminate, WorkerPop,
       WorkerBegin, WorkerFinish, LeaveCounters, MayTerminate, counters
<1> QED
  BY <1>3, <1>4, <1>5 DEF Ending

\* A Commit that is under way finds the pool in use, and a RUNNING pool with a
\* core has a worker.
LEMMA CommitIsServed ==
  ASSUME IInv, NoCommitLeft, NEW t \in Tasks, commit[t] \notin {"new", "done"}
  PROVE  /\ owner = "ready"
         /\ thread_pool_status = "RUNNING" /\ CorePoolSize > 0 /\ MaxPoolSize > 0
              => now_thread_num > 0
<1>1. owner = "ready"
  BY DEF NoCommitLeft
<1>2. now_thread_num \in Nat /\ CorePoolSize \in Nat /\ MaxPoolSize \in Nat /\ SizeWithinBounds
  BY PoolAssumption DEF IInv, TypeOK
<1> QED
  BY <1>1, <1>2 DEF SizeWithinBounds

\* The steps of Commit outside AddThread.
LEMMA CommitStepTask ==
  ASSUME Places, Ending, IInv, NEW t \in Tasks,
         CommitCall(t) \/ CommitLock(t) \/ CommitEnqueueFull(t) \/ CommitNotify(t)
  PROVE  Places' /\ Ending'
<1>0. TypeOK /\ NoCommitLeft /\ Served /\ Walked
  BY DEF IInv, Ending
<1>1. /\ UNCHANGED notCommit /\ UNCHANGED <<owner, thread_pool, now_thread_num>>
      /\ \A u \in Tasks : u # t => commit'[u] = commit[u]
  BY <1>0 DEF TypeOK, CommitCall, CommitLock, CommitEnqueueFull, CommitNotify, counters
<1>2. owner = "ready"
  BY <1>0, CommitIsServed
     DEF CommitCall, CommitLock, CommitEnqueueFull, CommitNotify
<1>3. NoCommitLeft' /\ Walked'
  BY <1>1, <1>2 DEF NoCommitLeft, Walked
<1>4. CASE /\ Enqueue(t) /\ commit[t] \in {"lock", "added"} /\ UNCHANGED worker
           /\ commit' = [commit EXCEPT ![t] = "notify"]
  <2>1. Places'
    BY <1>0, <1>1, <1>4, EnqueuePlaces DEF notCommit
  <2>2. CASE thread_pool_status = "RUNNING"
    <3>1. CorePoolSize > 0 /\ MaxPoolSize > 0 => now_thread_num > 0
      BY <1>0, <1>4, <2>2, CommitIsServed
    <3>2. Served'
      BY <1>1, <3>1 DEF Served
    <3> QED
      BY <1>3, <2>1, <3>2 DEF Ending
  <2>3. CASE thread_pool_status # "RUNNING"
    <3>1. accepted' = accepted /\ tasks \in Seq(Tasks) /\ tasks' = Append(tasks, t)
      BY <1>0, <1>4, <2>3 DEF Enqueue, TypeOK
    <3>2. t \notin accepted
      BY <1>4 DEF Places, NotBefore
    <3>3. ASSUME NEW u \in accepted, Queued(u)' PROVE Queued(u)
      <4>1. PICK i \in 1 .. Len(tasks') : tasks'[i] = u
        BY <3>3 DEF Queued
      <4>2. i \in 1 .. Len(tasks) /\ tasks[i] = u
        BY <3>1, <3>2, <4>1
      <4> QED
        BY <4>2 DEF Queued
    <3> QED
      BY <1>0, <1>1, <1>3, <2>1, <3>1, <3>3 DEF Served, Ending
  <2> QED
    BY <1>3, <2>1, <2>2, <2>3 DEF Ending
<1>5. CASE /\ UNCHANGED <<tasks, accepted>> /\ commit[t] \notin {"notify", "done"}
           /\ UNCHANGED worker
  <2>1. Holders' = Holders /\ UNCHANGED <<holding, ran>>
    BY <1>1, <1>5 DEF Holders, notCommit
  <2>2. Places'
    BY <1>1, <1>5, <2>1, PlacesKept
  <2>3. Served'
    BY <1>0, <1>1, <1>5 DEF Served, Queued
  <2> QED
    BY <1>3, <2>2, <2>3 DEF Ending
<1>6. CASE CommitNotify(t)
  <2>1. UNCHANGED <<tasks, accepted, holding, ran>> /\ commit'[t] = "done"
    BY <1>0, <1>1, <1>6 DEF CommitNotify, notCommit, TypeOK
  <2>2. Holders' = Holders
    BY <1>0, <1>6 DEF CommitNotify, TaskNotify, TypeOK, Holders
  <2>3. Places'
    BY <1>1, <2>1, <2>2, PlacesKept
  <2>4. Served'
    BY <1>0, <1>1, <2>1 DEF Served, Queued
  <2> QED
    BY <1>3, <2>3, <2>4 DEF Ending
<1> QED
  BY <1>4, <1>5, <1>6 DEF CommitCall, CommitLock, CommitEnqueueFull

\* AddThread moves no task and runs while the pool is in use or under
\* construction.
LEMMA AddThreadTask ==
  ASSUME Places, Ending, IInv, TidInv, NEW p \in Callers, AddThread(p)
  PROVE  Places' /\ Ending'
<1>0. /\ TypeOK /\ NoCommitLeft /\ Served /\ Walked /\ Created
      /\ Owner \notin Tasks
  BY NamesAssumption DEF IInv, Ending
<1>1. UNCHANGED <<tasks, holding, ran, accepted>>
  BY DEF AddThread, AddThreadEnter, AddThreadLock, AddThreadSpawn, AddThreadStarted,
     AddThreadReturn, notCommit
<1>2. now_thread_num' = now_thread_num \/ now_thread_num' = now_thread_num + 1
  BY DEF AddThread, AddThreadEnter, AddThreadLock, AddThreadSpawn, AddThreadStarted,
     AddThreadReturn, counters
<1>3. \A at \in {"add", "addlock", "spawn", "latch"} : Adding(p, at) =>
        /\ p = Owner => owner = at
        /\ p # Owner => p \in Tasks /\ commit[p] = at /\ owner = "ready"
  BY <1>0 DEF Adding, Callers, NoCommitLeft
<1>4. \/ UNCHANGED <<owner, commit>>
      \/ \E at \in {"addlock", "spawn", "latch", "ready", "added"} : AddGoto(p, at)
  BY DEF AddThread, AddThreadEnter, AddThreadLock, AddThreadSpawn, AddThreadStarted,
     AddThreadReturn
<1>5. \E at \in {"add", "addlock", "spawn", "latch"} : Adding(p, at)
  BY DEF AddThread, AddThreadEnter, AddThreadLock, AddThreadSpawn, AddThreadStarted,
     AddThreadReturn
<1>6. p # Owner => p \in Tasks /\ commit[p] \notin {"notify", "done"}
  BY <1>3, <1>5
<1>7. \A u \in Tasks : commit'[u] # commit[u] => p # Owner /\ u = p
  BY <1>0, <1>4 DEF AddGoto, TypeOK
<1>8. Holders' = Holders
  <2>1. CASE AddThreadSpawn(p)
    <3>1. worker' = [worker EXCEPT ![created + 1] = "born"] /\ created \in Nat
      BY <1>0, <2>1 DEF AddThreadSpawn, TypeOK
    <3>2. created + 1 \in Workers => worker[created + 1] = "none"
      BY <1>0, <3>1 DEF Created
    <3> QED
      BY <1>0, <3>1, <3>2 DEF Holders, TypeOK
  <2>2. CASE UNCHANGED worker
    BY <2>2 DEF Holders
  <2> QED
    BY <2>1, <2>2 DEF AddThread, AddThreadEnter, AddThreadLock, AddThreadStarted,
       AddThreadReturn
<1>9. Places'
  BY <1>1, <1>6, <1>7, <1>8, PlacesKept
<1>10. Served'
  BY <1>0, <1>1, <1>2 DEF Served, Queued, TypeOK
<1>11. owner' \notin {"walk", "joining", "destroyed"}
  BY <1>3, <1>4, <1>5 DEF AddGoto
<1>12. NoCommitLeft'
  BY <1>0, <1>3, <1>4, <1>5 DEF AddGoto, NoCommitLeft
<1>13. Walked'
  BY <1>11 DEF Walked
<1> QED
  BY <1>9, <1>10, <1>12, <1>13 DEF Ending

\* The monitor moves no task and only shortens the list.
LEMMA MonitorStepTask ==
  ASSUME Places, Ending, MonitorStep \/ MonitorSpuriousWake
  PROVE  Places' /\ Ending'
<1>1. UNCHANGED notMonitor /\ thread_pool' \subseteq thread_pool
  BY DEF MonitorStep, MonitorLock, MonitorTest, MonitorSleep, MonitorReacquire,
         MonitorFind, MonitorJoined, MonitorEndRound, MonitorSpuriousWake
<1>2. /\ UNCHANGED <<tasks, holding, ran, accepted, commit, owner, it, worker>>
      /\ UNCHANGED now_thread_num
  BY <1>1 DEF notMonitor, counters
<1>3. Holders' = Holders
  BY <1>2 DEF Holders
<1>4. Places'
  BY <1>2, <1>3, PlacesKept
<1>5. NoCommitLeft' /\ Served' /\ Walked'
  BY <1>1, <1>2 DEF Ending, NoCommitLeft, Served, Walked, Queued
<1> QED
  BY <1>4, <1>5 DEF Ending

\* The owner moves no task and walks the list from the front.
LEMMA OwnerStepTask ==
  ASSUME Places, Ending, IInv,
         DestroyJoin \/ DestroyJoined \/ DestroyEnd \/ ShutDown \/ DestroyBegin
  PROVE  Places' /\ Ending'
<1>0. /\ TypeOK /\ NoCommitLeft /\ Served /\ Walked
      /\ thread_pool \subseteq Workers /\ Workers \subseteq Nat \ {0}
  BY PoolAssumption, 1 .. MaxThreads \subseteq Nat \ {0} DEF IInv, Ending, TypeOK, Workers
<1>1. UNCHANGED <<tasks, holding, ran, accepted, commit, now_thread_num, thread_pool>>
  BY DEF DestroyJoin, DestroyJoined, DestroyEnd, ShutDown, DestroyBegin, notOwner, counters
<1>2. \A w \in Workers : worker'[w] # worker[w] => worker[w] = "wait" /\ worker'[w] = "woken"
  BY DEF DestroyJoin, DestroyJoined, DestroyEnd, ShutDown, DestroyBegin
<1>3. Holders' = Holders
  BY <1>2 DEF Holders
<1>4. Places'
  BY <1>1, <1>3, PlacesKept
<1>5. Served'
  BY <1>0, <1>1 DEF Served, Queued
<1>6. NoCommitLeft'
  BY <1>0, <1>1 DEF NoCommitLeft, DestroyJoin, DestroyJoined, DestroyEnd, ShutDown,
     DestroyBegin
<1>7. ASSUME NEW n \in Nat
      PROVE  /\ ListNext(n) \in Nat
             /\ \A v \in thread_pool : v > n => ListNext(n) # 0 /\ v >= ListNext(n)
  <2> DEFINE behind == {v \in thread_pool : v > n}
  <2>1. behind = {} => \A v \in thread_pool : ~(v > n)
    OBVIOUS
  <2>2. ASSUME behind # {}
        PROVE  ListNext(n) \in behind /\ \A u \in behind : ListNext(n) <= u
    <3>1. behind \in SUBSET Nat
      BY <1>0
    <3>2. \E v \in behind : \A u \in behind : v <= u
      BY <2>2, <3>1, FirstExists
    <3> QED
      BY <2>2, <3>2 DEF ListNext
  <2>3. ListNext(n) \in Nat
    <3>1. ListNext(n) \in thread_pool \cup {0}
      BY <1>0, ListNextInPool
    <3>2. thread_pool \cup {0} \subseteq Nat
      BY <1>0
    <3> QED
      BY <3>1, <3>2
  <2>4. ASSUME NEW v \in thread_pool, v > n PROVE ListNext(n) # 0 /\ v >= ListNext(n)
    <3>1. v \in behind /\ behind # {}
      BY <2>4
    <3>2. ListNext(n) \in thread_pool /\ ListNext(n) <= v
      BY <2>2, <3>1
    <3> QED
      BY <1>0, <2>3, <3>2
  <2> QED
    BY <2>3, <2>4
<1>8. Walked'
  <2>1. CASE ShutDown
    BY <2>1 DEF ShutDown, Walked
  <2>2. CASE DestroyJoin
    BY <1>0, <1>1, <1>2, <2>2 DEF DestroyJoin, Walked
  <2>3. CASE DestroyEnd
    BY <1>0, <1>1, <1>2, <2>3 DEF DestroyEnd, Walked
  <2>4. CASE DestroyBegin
    <3>1. it' = ListNext(0) /\ owner' = "walk"
      BY <2>4 DEF DestroyBegin
    <3>2. it' \in Nat /\ \A v \in thread_pool : it' # 0 /\ v >= it'
      BY <1>0, <1>7, <3>1
    <3>3. \A v \in thread_pool : ~(it' = 0 \/ v < it')
      BY <1>0, <3>2
    <3> QED
      BY <1>1, <3>1, <3>3 DEF Walked
  <2>5. CASE DestroyJoined
    <3>1. /\ it' = ListNext(it) /\ owner' = "walk" /\ owner = "joining"
          /\ worker[it] = "exited" /\ worker' = worker /\ it \in Nat /\ it # 0
      BY <1>0, <2>5 DEF DestroyJoined, Walked, TypeOK
    <3>2. it' \in Nat /\ \A v \in thread_pool : v > it => it' # 0 /\ v >= it'
      BY <1>7, <3>1
    <3>3. \A v \in thread_pool : v < it => worker[v] = "exited"
      BY <1>0, <3>1 DEF Walked
    <3>4. ASSUME NEW v \in thread_pool, it' = 0 \/ v < it' PROVE worker[v] = "exited"
      <4>1. v \in Nat /\ ~(v > it)
        BY <1>0, <3>2, <3>4
      <4>2. v < it \/ v = it
        BY <3>1, <4>1
      <4> QED
        BY <3>1, <3>3, <4>2
    <3> QED
      BY <1>1, <3>1, <3>4 DEF Walked
  <2> QED
    BY <2>1, <2>2, <2>3, <2>4, <2>5
<1> QED
  BY <1>4, <1>5, <1>6, <1>8 DEF Ending

\* The constructor starts with no thread and no task.
LEMMA InitTidTask ==
  ASSUME Init PROVE TidInv /\ Places /\ Ending
<1>1. PoolLocked /\ BornIsNewest /\ NoTidYet /\ Listed /\ OlderExited
  BY NamesAssumption DEF Init, PoolLocked, BornIsNewest, NoTidYet, Listed, OlderExited,
     Adding, Callers
<1>2. monitor_thread_free = <<>> /\ tasks = <<>>
  BY DEF Init
<1>3. 1 .. Len(monitor_thread_free) = {} /\ 1 .. Len(tasks) = {}
  BY <1>2
<1>4. EntriesHaveWorkers
  BY <1>3 DEF EntriesHaveWorkers, GivenTo
<1>5. Holders = {} /\ \A t : ~Queued(t) /\ ~Held(t)
  BY <1>3 DEF Init, Holders, Queued, Held
<1>6. OnePlace /\ NotBefore /\ AcceptedPlaced
  BY <1>3, <1>5 DEF Init, OnePlace, NotBefore, AcceptedPlaced
<1>7. NoCommitLeft /\ Served /\ Walked
  BY <1>5 DEF Init, NoCommitLeft, Served, Walked
<1> QED
  BY <1>1, <1>4, <1>6, <1>7 DEF TidInv, Places, Ending

\* Every step keeps what is said about the tasks.
LEMMA NextTask ==
  ASSUME IInv, TidInv, Places, Ending, [Next]_vars PROVE Places' /\ Ending'
<1>1. ASSUME NEW w \in Workers, WorkerStep(w) PROVE Places' /\ Ending'
  BY <1>1, WorkerStepPlaces, WorkerStepEnding
<1>2. ASSUME NEW t \in Tasks, CommitCall(t) \/ CommitStep(t) PROVE Places' /\ Ending'
  BY <1>2, CommitStepTask, AddThreadTask DEF CommitStep, Callers
<1>3. CASE MonitorStep \/ MonitorSpuriousWake
  BY <1>3, MonitorStepTask
<1>4. CASE OwnerStep \/ ShutDown \/ DestroyBegin
  BY <1>4, OwnerStepTask, AddThreadTask DEF OwnerStep, Callers
<1>5. CASE Over \/ UNCHANGED vars
  <2>1. /\ UNCHANGED <<tasks, holding, ran, accepted, commit, owner, it, worker, thread_pool>>
        /\ UNCHANGED now_thread_num
    BY <1>5 DEF Over, vars, counters
  <2>2. Holders' = Holders
    BY <2>1 DEF Holders
  <2>3. Places'
    BY <2>1, <2>2, PlacesKept
  <2>4. NoCommitLeft' /\ Served' /\ Walked'
    BY <2>1 DEF Ending, NoCommitLeft, Served, Walked, Queued
  <2> QED
    BY <2>3, <2>4 DEF Ending
<1> QED
  BY <1>1, <1>2, <1>3, <1>4, <1>5 DEF Next

\* When ~ThreadPool is through the list, no worker is left to be counted.
LEMMA NobodyLeft ==
  ASSUME IInv, TidInv, Ending, owner = "destroyed"
  PROVE  now_thread_num = 0 /\ Holders = {}
<1>1. \A w \in Workers : worker[w] \in {"none", "exited"}
  BY DEF TidInv, Listed, Ending, Walked
<1>2. Counted = {} /\ Holders = {}
  BY <1>1 DEF Counted, Holders
<1> QED
  BY <1>2, FS_EmptySet DEF IInv, CountersExact

\* The invariant holds in every reachable state of every pool.
THEOREM Invariance == Spec => []IInv
<1>1. Init => IInv
  BY InitInv
<1>2. IInv /\ [Next]_vars => IInv'
  BY NextInv
<1> QED
  BY <1>1, <1>2, PTL DEF Spec

\* Every variable keeps its type; above all the two unsigned counters of
\* ThreadPool never go below 0 (thread_pool.cpp:50-51, 61-62, 68).
THEOREM TypeCorrect == Spec => []TypeOK
<1>1. IInv => TypeOK
  BY DEF IInv
<1> QED
  BY <1>1, Invariance, PTL

\* now_thread_num_ and idle_thread_num_ are exact in every interleaving of
\* workers, Commits, monitor and owner (thread_pool.cpp:50-77).
THEOREM CountersAreExact == Spec => []CountersExact
<1>1. IInv => CountersExact
  BY DEF IInv
<1> QED
  BY <1>1, Invariance, PTL

\* A RUNNING pool stays between its core and its maximum size
\* (thread_pool.cpp:40, 49).
THEOREM SizeStaysWithinBounds == Spec => []SizeWithinBounds
<1>1. IInv => SizeWithinBounds
  BY DEF IInv
<1> QED
  BY <1>1, Invariance, PTL

\* The three parts of the invariant hold together in every reachable state.
THEOREM FullInvariance == Spec => [](IInv /\ TidInv /\ Places /\ Ending)
<1>1. Init => IInv /\ TidInv /\ Places /\ Ending
  BY InitInv, InitTidTask
<1>2. IInv /\ TidInv /\ Places /\ Ending /\ [Next]_vars
        => (IInv /\ TidInv /\ Places /\ Ending)'
  BY NextInv, NextTid, NextTask
<1> QED
  BY <1>1, <1>2, PTL DEF Spec

\* Whatever tids the kernel reuses, the monitor joins a worker that has retired,
\* so it never waits under two mutexes for one that still runs (thread_pool.cpp:95-105).
THEOREM MonitorJoinsOnlyRetired == Spec => []MonitorJoinsRetired
<1>1. IInv /\ TidInv => MonitorJoinsRetired
  <2> SUFFICES ASSUME IInv, TidInv, monitor = "joining" PROVE MonitorJoinsRetired
    BY DEF MonitorJoinsRetired
  <2>1. TypeOK /\ OlderExited /\ monitor_thread_free # <<>>
    BY DEF IInv, TidInv, MonitorHasEntry
  <2>2. PICK f : GivenTo(f)
    BY DEF TidInv, EntriesHaveWorkers
  <2> QED
    BY <2>1, <2>2, FindIsRetired DEF MonitorJoinsRetired
<1> QED
  BY <1>1, FullInvariance, PTL

\* In a pool with a core thread, ~ThreadPool returns only after every task that
\* was queued while the pool was RUNNING has run, and no task ever runs twice
\* (thread_pool.cpp:30-35, 59-70).  The sizes must not be 0: a pool without a core
\* may be left with a queued task and no worker.
THEOREM AcceptedTasksAreRun ==
  ASSUME CorePoolSize > 0, MaxPoolSize > 0
  PROVE  Spec => []AcceptedTasksRan
<1>1. IInv /\ TidInv /\ Places /\ Ending => AcceptedTasksRan
  <2> SUFFICES ASSUME IInv, TidInv, Places, Ending PROVE AcceptedTasksRan
    OBVIOUS
  <2>1. OnePlace /\ AcceptedPlaced /\ Served /\ TypeOK
    BY DEF IInv, Places, Ending
  <2>2. \A t \in Tasks : ran[t] <= 1
    <3>1. \A t \in Tasks : ran[t] = 0 \/ ran[t] = 1
      BY <2>1 DEF OnePlace
    <3> QED
      BY <3>1
  <2>3. ASSUME owner = "destroyed", NEW t \in accepted PROVE ran[t] = 1
    <3>1. now_thread_num = 0 /\ Holders = {}
      BY <2>3, NobodyLeft
    <3>2. ~Queued(t) /\ ~Held(t)
      BY <2>1, <2>3, <3>1 DEF Served, Held
    <3> QED
      BY <2>1, <2>3, <3>2 DEF AcceptedPlaced
  <2> QED
    BY <2>2, <2>3 DEF AcceptedTasksRan
<1> QED
  BY <1>1, FullInvariance, PTL
=============================================================================
