------------------------ MODULE CountDownLatchProofs ------------------------
(***************************************************************************)
(* Proofs about CountDownLatch for every count, every finite set of        *)
(* threads and any number of calls.                                        *)
(***************************************************************************)
EXTENDS CountDownLatch, FiniteSetTheorems, TLAPS

\* The steps at which a thread has locked the std::mutex, those at which
\* holder_ names it, and those of a CountDown that has counted.
Owning == {"assign", "body", "notify", "wait", "unassign", "unlock"}
Holding == {"body", "notify", "unassign"}
Counted == {"notify", "unassign", "unlock"}

LockExact == \A t \in Thread :
  /\ owner = t <=> pc[t] \in Owning
  /\ holder = t <=> pc[t] \in Holding

CallExact == \A t \in Thread :
  /\ pc[t] = "idle" <=> call[t] = "none"
  /\ pc[t] \in {"wait", "asleep"} => call[t] = "Wait"
  /\ pc[t] = "notify" => call[t] = "CountDown"
  /\ t \in sleeping => pc[t] = "asleep"

\* A thread falls asleep only at a closed latch and leaves Wait only at an open one.
GateExact == \A t \in Thread :
  /\ pc[t] = "wait" => count > 0
  /\ call[t] = "Wait" /\ pc[t] \in {"unassign", "unlock"} => count <= 0

\* The CountDowns that were called and have not counted yet.
Pending == {t \in Thread : call[t] = "CountDown" /\ pc[t] \in {"lock", "assign", "body"}}

CountExact == count = Count - downs + Cardinality(Pending)

\* Once a Wait has returned, a CountDown that counts makes the count negative.
PassedOpen ==
  passed # {} =>
    /\ count <= 0
    /\ \A t \in Thread : call[t] = "CountDown" /\ pc[t] \in Counted => count < 0

\* The inductive invariant.
IInv ==
  /\ TypeOK /\ LockExact /\ CallExact /\ GateExact
  /\ NoLostWakeup /\ CountExact /\ PassedOpen /\ DestroyedUnused

\* The constructor establishes the invariant.
LEMMA InitInv == Init => IInv
<1> SUFFICES ASSUME Init PROVE IInv
  OBVIOUS
<1> USE LatchAssumption
<1>1. TypeOK
  <2>1. alive \in BOOLEAN
    BY Zenon DEF Init
  <2> QED
    BY <2>1 DEF Init, TypeOK, Steps
<1>2. LockExact /\ CallExact /\ GateExact
  BY DEF Init, LockExact, CallExact, GateExact, Owning, Holding
<1>3. NoLostWakeup /\ PassedOpen
  BY DEF Init, NoLostWakeup, PassedOpen
<1>4. DestroyedUnused
  BY Zenon DEF Init, DestroyedUnused
<1>5. CountExact
  <2>1. Pending = {}
    BY DEF Init, Pending
  <2>2. Cardinality(Pending) = 0
    BY <2>1, FS_EmptySet
  <2> QED
    BY <2>2 DEF Init, CountExact
<1> QED
  BY <1>1, <1>2, <1>3, <1>4, <1>5 DEF IInv

\* Every step keeps the types.
LEMMA TypeStep == TypeOK /\ [Next]_vars => TypeOK'
<1> SUFFICES ASSUME TypeOK, [Next]_vars PROVE TypeOK'
  OBVIOUS
<1> USE LatchAssumption DEF TypeOK, Steps, Go, Goto, shared, history
<1>1. ASSUME NEW t \in Thread, NEW op \in {"Wait", "CountDown", "GetCount"}, Call(t, op)
      PROVE  TypeOK'
  BY <1>1 DEF Call
<1>2. ASSUME NEW t \in Thread, Lock(t) \/ AssignHolder(t) \/ UnAssignHolder(t) PROVE TypeOK'
  BY <1>2 DEF Lock, AssignHolder, UnAssignHolder
<1>3. ASSUME NEW t \in Thread, Unlock(t) PROVE TypeOK'
  BY <1>3 DEF Unlock
<1>4. ASSUME NEW t \in Thread, WaitBody(t) \/ CondWait(t) \/ CondWaitReturns(t) PROVE TypeOK'
  BY <1>4 DEF WaitBody, CondWait, CondWaitReturns
<1>5. ASSUME NEW t \in Thread, CountDownBody(t) \/ NotifyAll(t) \/ GetCountBody(t)
      PROVE  TypeOK'
  BY <1>5 DEF CountDownBody, NotifyAll, GetCountBody
<1>6. ASSUME NEW t \in Thread, SpuriousWakeup(t) PROVE TypeOK'
  BY <1>6 DEF SpuriousWakeup
<1>7. ASSUME NEW t \in Thread, Destroy(t) PROVE TypeOK'
  <2>1. alive' \in BOOLEAN
    BY <1>7, Zenon DEF Destroy
  <2> QED
    BY <1>7, <2>1 DEF Destroy
<1>8. CASE UNCHANGED vars
  BY <1>8 DEF vars
<1> QED
  BY <1>1, <1>2, <1>3, <1>4, <1>5, <1>6, <1>7, <1>8 DEF Next, Step

\* Every step keeps std::mutex, holder_, the calls and the sleepers in line.
LEMMA LockStep ==
  TypeOK /\ LockExact /\ CallExact /\ [Next]_vars => LockExact' /\ CallExact'
<1> SUFFICES ASSUME TypeOK, LockExact, CallExact, [Next]_vars PROVE LockExact' /\ CallExact'
  OBVIOUS
<1> USE LatchAssumption
    DEF TypeOK, LockExact, CallExact, Owning, Holding, Go, Goto, shared, history
<1>1. ASSUME NEW t \in Thread, NEW op \in {"Wait", "CountDown", "GetCount"}, Call(t, op)
      PROVE  LockExact' /\ CallExact'
  BY <1>1 DEF Call
<1>2. ASSUME NEW t \in Thread, Lock(t) \/ AssignHolder(t) \/ UnAssignHolder(t)
      PROVE  LockExact' /\ CallExact'
  BY <1>2 DEF Lock, AssignHolder, UnAssignHolder
<1>3. ASSUME NEW t \in Thread, Unlock(t) PROVE LockExact' /\ CallExact'
  BY <1>3 DEF Unlock
<1>4. ASSUME NEW t \in Thread, WaitBody(t) \/ CondWait(t) \/ CondWaitReturns(t)
      PROVE  LockExact' /\ CallExact'
  BY <1>4 DEF WaitBody, CondWait, CondWaitReturns
<1>5. ASSUME NEW t \in Thread, CountDownBody(t) \/ NotifyAll(t) \/ GetCountBody(t)
      PROVE  LockExact' /\ CallExact'
  BY <1>5 DEF CountDownBody, NotifyAll, GetCountBody
<1>6. ASSUME NEW t \in Thread, SpuriousWakeup(t) \/ Destroy(t)
      PROVE  LockExact' /\ CallExact'
  BY <1>6 DEF SpuriousWakeup, Destroy
<1>7. CASE UNCHANGED vars
  BY <1>7 DEF vars
<1> QED
  BY <1>1, <1>2, <1>3, <1>4, <1>5, <1>6, <1>7 DEF Next, Step

\* Only the owner of the mutex changes the count, so that what a Wait has seen
\* stays true, and what it has missed is made up for by the notification.
LEMMA GateStep ==
  TypeOK /\ LockExact /\ CallExact /\ GateExact /\ NoLostWakeup /\ PassedOpen /\ [Next]_vars
    => GateExact' /\ NoLostWakeup' /\ PassedOpen'
<1> SUFFICES ASSUME TypeOK, LockExact, CallExact, GateExact, NoLostWakeup, PassedOpen, [Next]_vars
             PROVE  GateExact' /\ NoLostWakeup' /\ PassedOpen'
  OBVIOUS
<1> USE LatchAssumption
    DEF TypeOK, LockExact, CallExact, GateExact, NoLostWakeup, PassedOpen,
        Owning, Holding, Counted, Go, Goto, shared, history
<1>1. ASSUME NEW t \in Thread, NEW op \in {"Wait", "CountDown", "GetCount"}, Call(t, op)
      PROVE  GateExact' /\ NoLostWakeup' /\ PassedOpen'
  BY <1>1 DEF Call
<1>2. ASSUME NEW t \in Thread, Lock(t) \/ AssignHolder(t) \/ UnAssignHolder(t)
      PROVE  GateExact' /\ NoLostWakeup' /\ PassedOpen'
  BY <1>2 DEF Lock, AssignHolder, UnAssignHolder
<1>3. ASSUME NEW t \in Thread, Unlock(t) PROVE GateExact' /\ NoLostWakeup' /\ PassedOpen'
  BY <1>3 DEF Unlock
<1>4. ASSUME NEW t \in Thread, WaitBody(t) \/ CondWait(t) \/ CondWaitReturns(t)
      PROVE  GateExact' /\ NoLostWakeup' /\ PassedOpen'
  BY <1>4 DEF WaitBody, CondWait, CondWaitReturns, Open
<1>5. ASSUME NEW t \in Thread, CountDownBody(t)
      PROVE  GateExact' /\ NoLostWakeup' /\ PassedOpen'
  <2>1. GateExact' /\ PassedOpen'
    BY <1>5 DEF CountDownBody
  <2>2. CASE count - 1 = 0
    BY <1>5, <2>2 DEF CountDownBody, Notifies
  <2>3. CASE count - 1 # 0
    BY <1>5, <2>3 DEF CountDownBody, Notifies
  <2> QED
    BY <2>1, <2>2, <2>3
<1>6. ASSUME NEW t \in Thread, NotifyAll(t) \/ GetCountBody(t)
      PROVE  GateExact' /\ NoLostWakeup' /\ PassedOpen'
  BY <1>6 DEF NotifyAll, GetCountBody
<1>7. ASSUME NEW t \in Thread, SpuriousWakeup(t) \/ Destroy(t)
      PROVE  GateExact' /\ NoLostWakeup' /\ PassedOpen'
  BY <1>7 DEF SpuriousWakeup, Destroy
<1>8. CASE UNCHANGED vars
  BY <1>8 DEF vars
<1> QED
  BY <1>1, <1>2, <1>3, <1>4, <1>5, <1>6, <1>7, <1>8 DEF Next, Step

\* Pending is finite, as the threads are.
LEMMA PendingFinite == IsFiniteSet(Pending) /\ Cardinality(Pending) \in Nat
<1>1. IsFiniteSet(Thread) /\ Pending \subseteq Thread
  BY LatchAssumption DEF Pending
<1> QED
  BY <1>1, FS_Subset, FS_CardinalityType

\* The count is what the CountDowns that have counted left of it.
LEMMA CountStep ==
  TypeOK /\ CallExact /\ CountExact /\ [Next]_vars => CountExact'
<1> SUFFICES ASSUME TypeOK, CallExact, CountExact, [Next]_vars PROVE CountExact'
  OBVIOUS
<1> USE LatchAssumption DEF TypeOK, Go, Goto, shared, history
<1>1. ASSUME NEW t \in Thread, NEW op \in {"Wait", "CountDown", "GetCount"}, Call(t, op)
      PROVE  CountExact'
  <2>1. CASE op = "CountDown"
    <3>1. Pending' = Pending \union {t} /\ t \notin Pending
      BY <1>1, <2>1 DEF Call, Pending
    <3>2. Cardinality(Pending') = Cardinality(Pending) + 1
      BY <3>1, PendingFinite, FS_AddElement
    <3> QED
      BY <1>1, <2>1, <3>2, PendingFinite DEF Call, CountExact
  <2>2. CASE op # "CountDown"
    <3>1. Pending' = Pending
      BY <1>1, <2>2 DEF Call, Pending, CallExact
    <3> QED
      BY <1>1, <2>2, <3>1 DEF Call, CountExact
  <2> QED
    BY <2>1, <2>2
<1>2. ASSUME NEW t \in Thread, Lock(t) \/ AssignHolder(t) \/ UnAssignHolder(t)
      PROVE  CountExact'
  <2>1. Pending' = Pending
    BY <1>2 DEF Lock, AssignHolder, UnAssignHolder, Pending
  <2> QED
    BY <1>2, <2>1 DEF Lock, AssignHolder, UnAssignHolder, CountExact
<1>3. ASSUME NEW t \in Thread, Unlock(t) PROVE CountExact'
  <2>1. Pending' = Pending
    BY <1>3 DEF Unlock, Pending
  <2> QED
    BY <1>3, <2>1 DEF Unlock, CountExact
<1>4. ASSUME NEW t \in Thread, WaitBody(t) \/ CondWait(t) \/ CondWaitReturns(t)
      PROVE  CountExact'
  <2>1. Pending' = Pending
    BY <1>4 DEF WaitBody, CondWait, CondWaitReturns, Pending, CallExact
  <2> QED
    BY <1>4, <2>1 DEF WaitBody, CondWait, CondWaitReturns, CountExact
<1>5. ASSUME NEW t \in Thread, CountDownBody(t) PROVE CountExact'
  <2>1. Pending' = Pending \ {t} /\ t \in Pending
    BY <1>5 DEF CountDownBody, Pending
  <2>2. Cardinality(Pending') = Cardinality(Pending) - 1
    BY <2>1, PendingFinite, FS_RemoveElement
  <2> QED
    BY <1>5, <2>2, PendingFinite DEF CountDownBody, CountExact
<1>6. ASSUME NEW t \in Thread, NotifyAll(t) \/ GetCountBody(t) PROVE CountExact'
  <2>1. Pending' = Pending
    BY <1>6 DEF NotifyAll, GetCountBody, Pending
  <2> QED
    BY <1>6, <2>1 DEF NotifyAll, GetCountBody, CountExact
<1>7. ASSUME NEW t \in Thread, SpuriousWakeup(t) \/ Destroy(t) PROVE CountExact'
  <2>1. Pending' = Pending
    BY <1>7 DEF SpuriousWakeup, Destroy, Pending
  <2> QED
    BY <1>7, <2>1 DEF SpuriousWakeup, Destroy, CountExact
<1>8. CASE UNCHANGED vars
  BY <1>8 DEF vars, CountExact, Pending
<1> QED
  BY <1>1, <1>2, <1>3, <1>4, <1>5, <1>6, <1>7, <1>8 DEF Next, Step

\* A latch that may be destroyed has no CountDown in progress: one that has not
\* counted yet, or has counted after a Wait had returned, is one too many.
LEMMA DestroyIdle ==
  ASSUME TypeOK, LockExact, CallExact, CountExact, PassedOpen,
         NEW t \in Thread, Destroy(t)
  PROVE  holder = NoThread /\ \A u \in Thread : pc[u] = "idle"
<1> USE LatchAssumption
<1>1. count <= 0 /\ downs <= Count /\ count \in Int /\ downs \in Nat /\ Count \in Int
  BY DEF Destroy, PassedOpen, TypeOK
<1>2. Cardinality(Pending) = 0 /\ count = 0
  BY <1>1, PendingFinite DEF CountExact
<1>3. Pending = {}
  BY <1>2, PendingFinite, FS_EmptySet
<1>4. ASSUME NEW u \in Thread, call[u] = "CountDown" PROVE FALSE
  <2>1. pc[u] \notin Counted
    BY <1>2, <1>4 DEF PassedOpen, Destroy
  <2>2. pc[u] \in {"lock", "assign", "body"}
    BY <1>4, <2>1 DEF TypeOK, Steps, CallExact, Counted
  <2> QED
    BY <1>3, <1>4, <2>2 DEF Pending
<1>5. \A u \in Thread : pc[u] = "idle"
  BY <1>4 DEF Destroy, CallExact
<1>6. holder = NoThread
  BY <1>5 DEF LockExact, TypeOK, Holding
<1> QED
  BY <1>5, <1>6

\* Once destroyed, the latch is left alone.
LEMMA DestroyedStep ==
  IInv /\ [Next]_vars => DestroyedUnused'
<1> SUFFICES ASSUME IInv, [Next]_vars, ~alive' PROVE holder' = NoThread /\ \A u \in Thread : pc'[u] = "idle"
  BY DEF DestroyedUnused
<1>1. ASSUME NEW t \in Thread, Destroy(t)
      PROVE  holder' = NoThread /\ \A u \in Thread : pc'[u] = "idle"
  BY <1>1, DestroyIdle DEF IInv, Destroy, shared
<1>2. CASE UNCHANGED vars
  BY <1>2 DEF vars, shared, history, IInv, DestroyedUnused
<1>3. CASE alive
  <2>1. ASSUME NEW t \in Thread, Step(t) \/ SpuriousWakeup(t) PROVE alive' = alive
    BY <2>1, Zenon DEF Step, Lock, AssignHolder, UnAssignHolder, Unlock, WaitBody, CondWait,
         CondWaitReturns, CountDownBody, NotifyAll, GetCountBody, SpuriousWakeup, Go, history
  <2>2. ASSUME NEW t \in Thread, NEW op, Call(t, op) PROVE alive' = alive
    BY <2>2 DEF Call
  <2> QED
    BY <1>1, <1>2, <1>3, <2>1, <2>2 DEF Next
<1>4. CASE ~alive
  <2>1. sleeping = {} /\ \A t \in Thread : pc[t] = "idle"
    BY <1>4 DEF IInv, DestroyedUnused, CallExact, TypeOK
  <2>2. ASSUME NEW t \in Thread, Step(t) \/ SpuriousWakeup(t) PROVE FALSE
    BY <2>1, <2>2 DEF Step, Lock, AssignHolder, UnAssignHolder, Unlock, WaitBody, CondWait,
         CondWaitReturns, CountDownBody, NotifyAll, GetCountBody, SpuriousWakeup, Go
  <2>3. ASSUME NEW t \in Thread, NEW op, Call(t, op) PROVE FALSE
    BY <1>4, <2>3 DEF Call
  <2> QED
    BY <1>1, <1>2, <2>2, <2>3 DEF Next
<1> QED
  BY <1>3, <1>4

\* Every step of a thread keeps the invariant.
LEMMA NextInv == IInv /\ [Next]_vars => IInv'
BY TypeStep, LockStep, GateStep, CountStep, DestroyedStep DEF IInv

-----------------------------------------------------------------------------

\* The inductive invariant holds for every finite set of threads and every count
\* (count_down_latch.cpp:5-23, condition.cpp:15-27, mutex.cpp:15-31).
THEOREM Invariance == Spec => []IInv
BY InitInv, NextInv, PTL DEF Spec, Safety

\* holder_ and the std::mutex never disagree where it matters (mutex.cpp:15-35,
\* condition.cpp:16-17).
THEOREM HolderOwnsMutex == Spec => []HolderIsOwner
<1>1. IInv => HolderIsOwner
  BY LatchAssumption DEF IInv, TypeOK, LockExact, HolderIsOwner, Owning, Holding
<1> QED
  BY <1>1, Invariance, PTL

\* One notification at exactly zero is enough (count_down_latch.cpp:14-23).
THEOREM WakeupsNotLost == Spec => []NoLostWakeup
<1>1. IInv => NoLostWakeup
  BY DEF IInv
<1> QED
  BY <1>1, Invariance, PTL

\* A latch destroyed after Wait is no longer in use (mutex.cpp:11-13,
\* count_down_latch.cpp:18-23).
THEOREM SafeToDestroy == Spec => []DestroyedUnused
<1>1. IInv => DestroyedUnused
  BY DEF IInv
<1> QED
  BY <1>1, Invariance, PTL

\* The latch implements the safety part of Latch: Wait is left only at a count
\* of zero or less (count_down_latch.cpp:12-23).
THEOREM ImplementsLatch == Spec => LatchSafety
<1>1. Init => Promise!Init
  BY DEF Init, Promise!Init
<1>2. IInv /\ [Next]_vars => [Promise!Next]_(Promise!vars)
  <2> SUFFICES ASSUME IInv, [Next]_vars
               PROVE  Promise!Next \/ UNCHANGED Promise!vars
    OBVIOUS
  <2> DEFINE waiting == {t \in Thread : call[t] = "Wait"}
  <2>0. call \in [Thread -> {"none", "Wait", "CountDown", "GetCount"}] /\ CallExact /\ GateExact
    BY DEF IInv, TypeOK
  <2>1. ASSUME NEW t \in Thread, Call(t, "Wait") PROVE Promise!EnterWait(t)
    <3>1. t \notin waiting /\ waiting' = waiting \union {t} /\ count' = count
      BY <2>0, <2>1 DEF Call, CallExact, shared
    <3> QED
      BY <3>1 DEF Promise!EnterWait
  <2>2. ASSUME NEW t \in Thread, NEW op \in {"CountDown", "GetCount"}, Call(t, op)
        PROVE  waiting' = waiting /\ count' = count
    BY <2>0, <2>2 DEF Call, CallExact, shared
  <2>3. ASSUME NEW t \in Thread, Unlock(t)
        PROVE  Promise!LeaveWait(t) \/ (waiting' = waiting /\ count' = count)
    <3>1. CASE call[t] = "Wait"
      <4>1. t \in waiting /\ waiting' = waiting \ {t} /\ count' = count /\ count <= 0
        BY <2>0, <2>3, <3>1 DEF Unlock, GateExact
      <4> QED
        BY <4>1 DEF Promise!LeaveWait
    <3>2. CASE call[t] # "Wait"
      BY <2>0, <2>3, <3>2 DEF Unlock
    <3> QED
      BY <3>1, <3>2
  <2>4. ASSUME NEW t \in Thread, CountDownBody(t) PROVE Promise!CountDown
    BY <2>4 DEF CountDownBody, Go, Promise!CountDown
  <2>5. ASSUME NEW t \in Thread,
               \/ Lock(t) \/ AssignHolder(t) \/ UnAssignHolder(t) \/ WaitBody(t)
               \/ CondWait(t) \/ CondWaitReturns(t) \/ NotifyAll(t) \/ GetCountBody(t)
               \/ SpuriousWakeup(t) \/ Destroy(t)
        PROVE  waiting' = waiting /\ count' = count
    BY <2>5 DEF Lock, AssignHolder, UnAssignHolder, WaitBody, CondWait, CondWaitReturns,
         NotifyAll, GetCountBody, SpuriousWakeup, Destroy, Go, shared
  <2>6. CASE UNCHANGED vars
    BY <2>6 DEF vars, shared, Promise!vars
  <2> QED
    BY <2>1, <2>2, <2>3, <2>4, <2>5, <2>6 DEF Next, Step, Promise!Next, Promise!vars
<1> QED
  BY <1>1, <1>2, Invariance, PTL DEF Spec, Safety, LatchSafety, Promise!Safety
=============================================================================
