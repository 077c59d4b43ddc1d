--------------------------- MODULE CountDownLatch ---------------------------
(***************************************************************************)
(* turbo::CountDownLatch with the MutexLock and the Condition it is made   *)
(* of (src/src/base/{count_down_latch,condition,mutex}.{h,cpp}).           *)
(*                                                                         *)
(* MutexLock keeps, beside the std::mutex, the thread that holds it in     *)
(* holder_; Condition::Wait gives both up around the sleep.  Each step     *)
(* below is one access to the shared state, so that holder_ and the        *)
(* std::mutex can disagree in between.  The threads call the latch in any  *)
(* order; one that has returned from Wait may destroy it, as a Thread that *)
(* is destroyed after Start does with its latch_.                          *)
(***************************************************************************)
EXTENDS Integers, FiniteSets

CONSTANTS
  Thread, NoThread,   \* NoThread is holder_ 0
  Count,              \* the constructor's count
  MaxCalls            \* bound: the calls one thread makes

ASSUME LatchAssumption ==
  /\ IsFiniteSet(Thread) /\ NoThread \notin Thread
  /\ Count \in Int /\ MaxCalls \in Nat

VARIABLES
  count,      \* count_
  owner,      \* the thread that has locked the std::mutex
  holder,     \* holder_
  sleeping,   \* the threads asleep in cond_
  pc,         \* the next step of each thread
  call,       \* the call each thread is in
  calls,      \* how many calls each thread has made
  downs,      \* history: how many CountDowns were called
  passed,     \* history: the threads that have returned from Wait
  alive       \* the latch exists

shared == <<count, owner, holder, sleeping>>
history == <<calls, downs, passed, alive>>
vars == <<shared, pc, call, history>>

\* The steps of a call; asleep: inside cond_.wait, notified or not.
Steps == {"idle", "lock", "assign", "body", "notify", "wait", "asleep",
          "unassign", "unlock"}

Init ==
  /\ count = Count /\ owner = NoThread /\ holder = NoThread /\ sleeping = {}
  /\ pc = [t \in Thread |-> "idle"] /\ call = [t \in Thread |-> "none"]
  /\ calls = [t \in Thread |-> 0] /\ downs = 0 /\ passed = {} /\ alive = TRUE

Goto(t, step) == pc' = [pc EXCEPT ![t] = step]

\* t goes from one step to the next and remains in its call.
Go(t, from, to) ==
  /\ pc[t] = from /\ Goto(t, to)
  /\ UNCHANGED <<call, history>>

Call(t, op) ==
  /\ alive /\ pc[t] = "idle" /\ calls[t] < MaxCalls
  /\ Goto(t, "lock")
  /\ call' = [call EXCEPT ![t] = op]
  /\ calls' = [calls EXCEPT ![t] = @ + 1]
  /\ downs' = IF op = "CountDown" THEN downs + 1 ELSE downs
  /\ UNCHANGED <<shared, passed, alive>>

-----------------------------------------------------------------------------
(* MutexLock and MutexLockGuard.                                           *)

\* MutexLock::Lock: mutex_.lock(), then AssignHolder().
Lock(t) ==
  /\ Go(t, "lock", "assign")
  /\ owner = NoThread /\ owner' = t
  /\ UNCHANGED <<count, holder, sleeping>>

\* AssignHolder, at the end of Lock and in ~UnAssignGuard.
AssignHolder(t) ==
  /\ Go(t, "assign", "body")
  /\ holder' = t
  /\ UNCHANGED <<count, owner, sleeping>>

\* Mutant: UnLock in the other order: the mutex first ...
UnlockFirst(t) ==
  /\ Go(t, "unassign", "unlock")
  /\ owner' = NoThread
  /\ UNCHANGED <<count, holder, sleeping>>

\* MutexLock::UnLock: UnAssignHolder(), then mutex_.unlock().
UnAssignHolder(t) ==
  /\ Go(t, "unassign", "unlock")
  /\ holder' = NoThread
  /\ UNCHANGED <<count, owner, sleeping>>

Unlock(t) ==
  /\ pc[t] = "unlock" /\ Goto(t, "idle")
  /\ owner' = NoThread
  /\ call' = [call EXCEPT ![t] = "none"]
  /\ passed' = IF call[t] = "Wait" THEN passed \union {t} ELSE passed
  /\ UNCHANGED <<count, holder, sleeping, calls, downs, alive>>

-----------------------------------------------------------------------------
(* The bodies of the calls, and Condition.                                 *)

\* Mutant: the latch opens one count too early.
OpenEarly == count <= 1

\* The condition of the loop in Wait.
Open == count <= 0

\* CountDownLatch::Wait: the test of the loop.  Condition::Wait asserts that
\* this thread holds the mutex (see HolderIsOwner) and gives up holder_
\* (UnAssignGuard).
WaitBody(t) ==
  /\ call[t] = "Wait"
  /\ \/ Open /\ Go(t, "body", "unassign") /\ UNCHANGED shared
     \/ /\ ~Open
        /\ Go(t, "body", "wait")
        /\ holder' = NoThread
        /\ UNCHANGED <<count, owner, sleeping>>

\* cond_.wait(lock_): gives up the mutex and falls asleep in one step.
CondWait(t) ==
  /\ Go(t, "wait", "asleep")
  /\ owner' = NoThread /\ sleeping' = sleeping \union {t}
  /\ UNCHANGED <<count, holder>>

\* A wake-up without a notification.
SpuriousWakeup(t) ==
  /\ t \in sleeping /\ sleeping' = sleeping \ {t}
  /\ UNCHANGED <<count, owner, holder, pc, call, history>>

\* cond_.wait takes the mutex again before it returns.
CondWaitReturns(t) ==
  /\ t \notin sleeping /\ owner = NoThread
  /\ Go(t, "asleep", "assign")
  /\ owner' = t
  /\ UNCHANGED <<count, holder, sleeping>>

\* Mutant: notifies only below zero.
NotifiesBelow(n) == n < 0

\* CountDown notifies when the count has come to zero.
Notifies(n) == n = 0

\* --count_; whether to notify is decided, and done, under the mutex.
CountDownBody(t) ==
  /\ call[t] = "CountDown"
  /\ Go(t, "body", IF Notifies(count - 1) THEN "notify" ELSE "unassign")
  /\ count' = count - 1
  /\ UNCHANGED <<owner, holder, sleeping>>

\* Mutant: the mutex is given up before the notification.
NotifyAllUnlocked(t) ==
  \/ /\ owner = t
     /\ Go(t, "notify", "notify")
     /\ owner' = NoThread /\ holder' = NoThread
     /\ UNCHANGED <<count, sleeping>>
  \/ /\ owner # t /\ pc[t] = "notify" /\ Goto(t, "idle")
     /\ sleeping' = {}
     /\ call' = [call EXCEPT ![t] = "none"]
     /\ UNCHANGED <<count, owner, holder, history>>

\* Condition::NotifyAll.
NotifyAll(t) ==
  /\ Go(t, "notify", "unassign")
  /\ sleeping' = {}
  /\ UNCHANGED <<count, owner, holder>>

GetCountBody(t) ==
  /\ call[t] = "GetCount"
  /\ Go(t, "body", "unassign")
  /\ UNCHANGED shared

\* The latch is destroyed by a thread that has returned from Wait, when no
\* other waits for it or reads it and no more CountDowns are due.  Whether a
\* CountDown is still running is not looked at.
Destroy(t) ==
  /\ alive /\ t \in passed /\ downs <= Count
  /\ call[t] = "none" /\ \A u \in Thread : call[u] \in {"none", "CountDown"}
  /\ alive' = FALSE
  /\ UNCHANGED <<shared, pc, call, calls, downs, passed>>

-----------------------------------------------------------------------------

\* The steps a thread takes once it has made a call.
Step(t) ==
  \/ Lock(t) \/ AssignHolder(t) \/ UnAssignHolder(t) \/ Unlock(t)
  \/ WaitBody(t) \/ CondWait(t) \/ CondWaitReturns(t)
  \/ CountDownBody(t) \/ NotifyAll(t) \/ GetCountBody(t)

Next == \E t \in Thread :
  \/ \E op \in {"Wait", "CountDown", "GetCount"} : Call(t, op)
  \/ Step(t) \/ SpuriousWakeup(t) \/ Destroy(t)

Safety == Init /\ [][Next]_vars

\* A thread that can run does run.  Nothing makes a thread call the latch.
Spec == Safety /\ \A t \in Thread : WF_vars(Step(t))

-----------------------------------------------------------------------------
(* Properties.                                                             *)

TypeOK ==
  /\ count \in Int
  /\ owner \in Thread \union {NoThread} /\ holder \in Thread \union {NoThread}
  /\ sleeping \subseteq Thread
  /\ pc \in [Thread -> Steps]
  /\ call \in [Thread -> {"none", "Wait", "CountDown", "GetCount"}]
  /\ calls \in [Thread -> Nat] /\ downs \in Nat
  /\ passed \subseteq Thread /\ alive \in BOOLEAN

\* holder_ never names a thread that does not own the std::mutex, and the
\* thread that runs the body of a call is always the one it names: AssertLocked
\* in Condition::Wait cannot fail, and IsLockedByThisThread is right in every
\* thread although it reads holder_ without the mutex (mutex.cpp:15-35,
\* condition.cpp:16-17).
HolderIsOwner ==
  /\ holder # NoThread => owner = holder
  /\ \A t \in Thread : pc[t] = "body" => holder = t

\* Nobody is left asleep at an open latch: as soon as the count is zero the
\* sleepers are woken or the thread that will wake them holds the mutex,
\* although CountDown notifies at exactly zero and never again
\* (count_down_latch.cpp:14-23).
NoLostWakeup ==
  count <= 0 /\ sleeping # {} => \E t \in Thread : pc[t] = "notify"

\* The latch may be destroyed as soon as Wait has returned: the CountDown that
\* opened it is then no longer using the mutex or the condition, and
\* ~MutexLock's assert(holder_ == 0) holds (mutex.cpp:11-13,
\* count_down_latch.cpp:18-23).
DestroyedUnused ==
  ~alive => holder = NoThread /\ \A t \in Thread : pc[t] = "idle"

\* The latch does what Latch promises, whatever the interleaving and the
\* spurious wake-ups: Wait returns only at an open latch, and always returns
\* from one (count_down_latch.cpp:12-23).
Promise == INSTANCE Latch WITH inside <- {t \in Thread : call[t] = "Wait"}
LatchSpec == Promise!Spec
LatchSafety == Promise!Safety
=============================================================================
