------------------------------ MODULE EventLoop ------------------------------
(***************************************************************************)
(* turbo::EventLoop and turbo::CurrentThread                               *)
(* (src/src/net/event_loop.{h,cpp}, src/src/base/current_thread.{h,cpp}):  *)
(* which thread may use which loop.                                        *)
(*                                                                         *)
(* A loop remembers the kernel tid of the thread that made it and refuses  *)
(* calls from threads with another tid; each thread remembers its loop in  *)
(* t_loop_in_this_thread.  Threads come and go, and the kernel gives the   *)
(* tid of one that is gone to a new one.  A loop may outlive its thread,   *)
(* and any thread may destroy it.                                          *)
(***************************************************************************)
EXTENDS Integers

CONSTANTS
  Thread, NoThread,
  Tid,             \* the kernel's thread ids, all greater than 0
  Loop, NoLoop

ASSUME EventLoopAssumption ==
  NoThread \notin Thread /\ NoLoop \notin Loop /\ Tid \subseteq Nat \ {0}

VARIABLES
  tid,          \* what gettid returns in each thread, 0: it does not run
  cached_tid,   \* t_cached_tid, 0: not yet asked for
  thread_loop,  \* t_loop_in_this_thread
  alive,        \* the loops that exist
  thread_id,    \* thread_id_ of each loop
  looping,      \* the loops with looping_ set
  inside,       \* inside[t]: the loop whose call t is in, or NoLoop
  pc,           \* the step of that call
  maker,        \* history: the thread that made each loop
  strayed,      \* history: the loops that a thread destroyed that had not made them
  fault         \* how the process died, or "none"

threads == <<tid, cached_tid>>
vars == <<threads, thread_loop, alive, thread_id, looping, inside, pc, maker,
          strayed, fault>>

Running == {t \in Thread : tid[t] # 0}

Init ==
  /\ tid = [t \in Thread |-> 0] /\ cached_tid = [t \in Thread |-> 0]
  /\ thread_loop = [t \in Thread |-> NoLoop] /\ alive = {}
  /\ thread_id = [l \in Loop |-> 0] /\ looping = {}
  /\ inside = [t \in Thread |-> NoLoop] /\ pc = [t \in Thread |-> "idle"]
  /\ maker = [l \in Loop |-> NoThread] /\ strayed = {} /\ fault = "none"

-----------------------------------------------------------------------------
(* Threads.                                                                *)

\* A thread starts with a tid no running thread has; its thread_local
\* variables are new.
StartThread(t) ==
  /\ tid[t] = 0
  /\ \E i \in Tid \ {tid[u] : u \in Thread} : tid' = [tid EXCEPT ![t] = i]
  /\ cached_tid' = [cached_tid EXCEPT ![t] = 0]
  /\ thread_loop' = [thread_loop EXCEPT ![t] = NoLoop]
  /\ maker' = [l \in Loop |-> IF maker[l] = t THEN NoThread ELSE maker[l]]
  /\ UNCHANGED <<alive, thread_id, looping, inside, pc, strayed, fault>>

ExitThread(t) ==
  /\ t \in Running /\ pc[t] = "idle"
  /\ tid' = [tid EXCEPT ![t] = 0]
  /\ UNCHANGED <<cached_tid, thread_loop, alive, thread_id, looping, inside, pc,
                 maker, strayed, fault>>

\* CurrentThread::CachedTid asks the kernel the first time only (ConstructTid).
CachedTid(t) == IF cached_tid[t] = 0 THEN tid[t] ELSE cached_tid[t]

CacheTid(t) == cached_tid' = [cached_tid EXCEPT ![t] = CachedTid(t)] /\ UNCHANGED tid

-----------------------------------------------------------------------------
(* EventLoop.                                                              *)

\* A second loop in this thread is fatal.
RefusesSecond(t) == thread_loop[t] # NoLoop

\* The constructor.
Construct(t, l) ==
  /\ t \in Running /\ pc[t] = "idle" /\ l \notin alive
  /\ CacheTid(t)
  /\ thread_id' = [thread_id EXCEPT ![l] = CachedTid(t)]
  /\ looping' = looping \ {l}
  /\ IF RefusesSecond(t)
     THEN fault' = "second loop" /\ UNCHANGED <<thread_loop, alive, maker>>
     ELSE /\ thread_loop' = [thread_loop EXCEPT ![t] = l]
          /\ alive' = alive \union {l} /\ maker' = [maker EXCEPT ![l] = t]
          /\ UNCHANGED fault
  /\ UNCHANGED <<inside, pc, strayed>>

\* Mutant: the destructor leaves the variable alone.
ForgetsNothing(t) == thread_loop

\* The destructor resets the variable of the thread that runs it.
Forgets(t) == [thread_loop EXCEPT ![t] = NoLoop]

\* ~EventLoop, when no call to the loop is in progress.
Destroy(t, l) ==
  /\ t \in Running /\ pc[t] = "idle" /\ l \in alive
  /\ \A u \in Thread : inside[u] # l
  /\ alive' = alive \ {l}
  /\ thread_loop' = Forgets(t)
  /\ strayed' = IF maker[l] = t THEN strayed ELSE strayed \union {l}
  /\ UNCHANGED <<threads, thread_id, looping, inside, pc, maker, fault>>

\* Mutant: the number the loop was made with is compared with itself.
IsInAnyThread(t, l) == thread_id[l] > 0

IsInLoopThread(t, l) == thread_id[l] = CachedTid(t)

AbortNotInLoopThread == fault' = "not in loop thread"

\* The call goes on if t is in the loop's thread, and is fatal otherwise.
AssertInLoopThread(t, l, next) ==
  /\ CacheTid(t)
  /\ IF IsInLoopThread(t, l)
     THEN /\ inside' = [inside EXCEPT ![t] = l] /\ pc' = [pc EXCEPT ![t] = next]
          /\ UNCHANGED fault
     ELSE AbortNotInLoopThread /\ UNCHANGED <<inside, pc>>

\* Loop: asserts in a Debug build that the loop is not looping, checks the
\* thread ...
LoopBegin(t, l) ==
  /\ t \in Running /\ pc[t] = "idle" /\ l \in alive
  /\ \/ l \in looping /\ fault' = "looping" /\ UNCHANGED <<threads, inside, pc>>
     \/ AssertInLoopThread(t, l, "start")
  /\ UNCHANGED <<thread_loop, alive, thread_id, looping, maker, strayed>>

\* ... sets looping_, waits in poll, and resets it.
LoopStart(t) ==
  /\ pc[t] = "start" /\ pc' = [pc EXCEPT ![t] = "poll"]
  /\ looping' = looping \union {inside[t]}
  /\ UNCHANGED <<threads, thread_loop, alive, thread_id, inside, maker, strayed, fault>>

LoopEnd(t) ==
  /\ pc[t] = "poll" /\ pc' = [pc EXCEPT ![t] = "idle"]
  /\ looping' = looping \ {inside[t]}
  /\ inside' = [inside EXCEPT ![t] = NoLoop]
  /\ UNCHANGED <<threads, thread_loop, alive, thread_id, maker, strayed, fault>>

\* UpdateChannel, RemoveChannel and HaveChannel check the thread and go to the
\* poller.  The channel belongs to the loop, as they assert.
ChannelCall(t, l) ==
  /\ t \in Running /\ pc[t] = "idle" /\ l \in alive
  /\ AssertInLoopThread(t, l, "poller")
  /\ UNCHANGED <<thread_loop, alive, thread_id, looping, maker, strayed>>

ChannelCallEnd(t) ==
  /\ pc[t] = "poller" /\ pc' = [pc EXCEPT ![t] = "idle"]
  /\ inside' = [inside EXCEPT ![t] = NoLoop]
  /\ UNCHANGED <<threads, thread_loop, alive, thread_id, looping, maker, strayed, fault>>

Over == fault # "none" /\ UNCHANGED vars

Next ==
  \/ /\ fault = "none"
     /\ \E t \in Thread :
          \/ StartThread(t) \/ ExitThread(t)
          \/ LoopStart(t) \/ LoopEnd(t) \/ ChannelCallEnd(t)
          \/ \E l \in Loop : \/ Construct(t, l) \/ Destroy(t, l)
                             \/ LoopBegin(t, l) \/ ChannelCall(t, l)
  \/ Over

Spec == Init /\ [][Next]_vars

-----------------------------------------------------------------------------
(* Properties.                                                             *)

TypeOK ==
  /\ tid \in [Thread -> Tid \union {0}] /\ cached_tid \in [Thread -> Tid \union {0}]
  /\ thread_loop \in [Thread -> Loop \union {NoLoop}] /\ alive \subseteq Loop
  /\ thread_id \in [Loop -> Tid \union {0}] /\ looping \subseteq Loop
  /\ inside \in [Thread -> Loop \union {NoLoop}]
  /\ pc \in [Thread -> {"idle", "start", "poll", "poller"}]
  /\ maker \in [Loop -> Thread \union {NoThread}] /\ strayed \subseteq Loop
  /\ fault \in {"none", "second loop", "looping", "not in loop thread"}

\* Comparing tids is enough to keep a loop to one thread: two threads are never
\* inside the same loop, and while the thread that made it runs no other is
\* inside, although tids are cached, loops outlive their threads and the kernel
\* gives tids again (event_loop.cpp:32-70, current_thread.cpp:13-19).
OneThreadInside ==
  \A t, u \in Thread :
    inside[t] # NoLoop /\ u \in Running /\ u # t
      => inside[u] # inside[t] /\ maker[inside[t]] # u

\* As long as every loop is destroyed in the thread that made it, each thread
\* has at most one loop, and t_loop_in_this_thread is that loop, or null: no
\* second loop is let through and none is refused without reason
\* (event_loop.cpp:19-30, 79-81).
OneLoopPerThread ==
  strayed = {} => \A t \in Running, l \in Loop :
    (l \in alive /\ maker[l] = t) <=> thread_loop[t] = l
=============================================================================
