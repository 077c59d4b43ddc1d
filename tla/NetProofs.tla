------------------------------ MODULE NetProofs ------------------------------
(***************************************************************************)
(* Proofs about the threads and the sockets of the network layer:          *)
(* EventLoop for any threads, tids and loops, and Socket for any           *)
(* descriptors, ports, addresses and clients.  The two share no state.     *)
(***************************************************************************)
EXTENDS EventLoop, Socket, SequenceTheorems, TLAPS

\* Running threads have tids of their own, and cache no other.
TidsExact ==
  /\ \A t, u \in Running : tid[t] = tid[u] => t = u
  /\ \A t \in Running : cached_tid[t] \in {0, tid[t]}

\* A thread is inside a loop only in a call, and only a running one; the loop
\* exists and has its tid.
InsideExact == \A t \in Thread :
  /\ inside[t] = NoLoop <=> pc[t] = "idle"
  /\ inside[t] # NoLoop =>
       t \in Running /\ inside[t] \in alive /\ thread_id[inside[t]] = tid[t]

\* A loop has the tid of the thread that made it, for as long as that runs.
MakerExact == \A l \in alive :
  maker[l] \in Running => thread_id[l] = tid[maker[l]]

\* The inductive invariant.
LoopInv == TypeOK /\ TidsExact /\ InsideExact /\ MakerExact /\ OneLoopPerThread

\* The values that stand for nothing are no threads, loops or tids.
LEMMA Distinct == NoThread \notin Thread /\ NoLoop \notin Loop /\ 0 \notin Tid
BY EventLoopAssumption

\* Before the first thread runs the invariant holds.
LEMMA LoopInitInv == Init => LoopInv
<1> SUFFICES ASSUME Init PROVE LoopInv
  OBVIOUS
<1> USE Distinct
<1>1. TypeOK
  BY DEF Init, TypeOK
<1>2. TidsExact /\ InsideExact /\ MakerExact /\ OneLoopPerThread
  BY DEF Init, TidsExact, InsideExact, MakerExact, OneLoopPerThread, Running
<1> QED
  BY <1>1, <1>2 DEF LoopInv

\* The tid a running thread sees is its own.
LEMMA CachedTidIsTid ==
  ASSUME TypeOK, TidsExact, NEW t \in Running
  PROVE  CachedTid(t) = tid[t]
BY Distinct DEF TidsExact, CachedTid, Running, TypeOK

\* A thread starts with a new tid and without a loop.
LEMMA StartThreadInv ==
  ASSUME LoopInv, NEW t \in Thread, StartThread(t)
  PROVE  LoopInv'
<1>0. TypeOK
  BY DEF LoopInv
<1>1. PICK i \in Tid : i \notin {tid[u] : u \in Thread} /\ tid' = [tid EXCEPT ![t] = i]
  BY DEF StartThread
<1>2. TypeOK'
  BY <1>0, <1>1 DEF StartThread, TypeOK
<1>3. /\ tid'[t] = i /\ i # 0 /\ tid[t] = 0
      /\ \A u \in Thread : u # t => tid'[u] = tid[u] /\ tid[u] # i
  BY <1>0, <1>1, Distinct DEF TypeOK, StartThread
<1>4. /\ cached_tid'[t] = 0 /\ \A u \in Thread : u # t => cached_tid'[u] = cached_tid[u]
      /\ thread_loop'[t] = NoLoop /\ \A u \in Thread : u # t => thread_loop'[u] = thread_loop[u]
      /\ \A l \in Loop : maker'[l] # t /\ (maker[l] # t => maker'[l] = maker[l])
                         /\ (maker'[l] # NoThread => maker'[l] = maker[l])
  BY <1>0, Distinct DEF TypeOK, StartThread
<1>5. TidsExact'
  <2>1. \A u \in Running' : u \in Thread /\ (u = t \/ u \in Running)
    BY <1>3 DEF Running
  <2>2. /\ \A u, v \in Running : tid[u] = tid[v] => u = v
        /\ \A u \in Running : cached_tid[u] \in {0, tid[u]}
    BY DEF LoopInv, TidsExact
  <2> QED
    BY <1>3, <1>4, <2>1, <2>2 DEF TidsExact
<1>6. InsideExact'
  BY <1>3 DEF LoopInv, InsideExact, Running, StartThread
<1>7. MakerExact'
  <2> SUFFICES ASSUME NEW l \in alive, maker'[l] \in Running'
               PROVE  thread_id[l] = tid'[maker'[l]]
    BY DEF MakerExact, StartThread
  <2>1. l \in Loop /\ maker'[l] \in Thread
    BY <1>0 DEF TypeOK, Running
  <2>2. maker'[l] = maker[l] /\ maker[l] # t
    BY <1>4, <2>1, Distinct
  <2>3. maker[l] \in Running /\ tid'[maker[l]] = tid[maker[l]]
    BY <1>3, <2>1, <2>2 DEF Running
  <2> QED
    BY <2>2, <2>3 DEF LoopInv, MakerExact
<1>8. OneLoopPerThread'
  <2> SUFFICES ASSUME strayed = {}, NEW u \in Running', NEW l \in Loop
               PROVE  (l \in alive /\ maker'[l] = u) <=> thread_loop'[u] = l
    BY DEF OneLoopPerThread, StartThread
  <2>1. u \in Thread
    BY DEF Running
  <2>2. CASE u = t
    BY <1>4, <2>2, Distinct
  <2>3. CASE u # t
    <3>1. u \in Running
      BY <1>3, <2>1, <2>3 DEF Running
    <3>2. (l \in alive /\ maker[l] = u) <=> thread_loop[u] = l
      BY <3>1 DEF LoopInv, OneLoopPerThread
    <3> QED
      BY <1>4, <2>1, <2>3, <3>2, Distinct
  <2> QED
    BY <2>2, <2>3
<1> QED
  BY <1>2, <1>5, <1>6, <1>7, <1>8 DEF LoopInv

\* A thread that exits is in no call.
LEMMA ExitThreadInv ==
  ASSUME LoopInv, NEW t \in Thread, ExitThread(t)
  PROVE  LoopInv'
<1>0. TypeOK
  BY DEF LoopInv
<1>1. TypeOK'
  BY <1>0 DEF TypeOK, ExitThread
<1>2. tid'[t] = 0 /\ \A u \in Thread : u # t => tid'[u] = tid[u]
  BY <1>0 DEF TypeOK, ExitThread
<1>3. TidsExact'
  BY <1>2 DEF LoopInv, TidsExact, Running, ExitThread
<1>4. InsideExact'
  BY <1>2 DEF LoopInv, InsideExact, Running, ExitThread
<1>5. MakerExact'
  BY <1>2 DEF LoopInv, MakerExact, Running, ExitThread
<1>6. OneLoopPerThread'
  BY <1>2 DEF LoopInv, OneLoopPerThread, Running, ExitThread
<1> QED
  BY <1>1, <1>3, <1>4, <1>5, <1>6 DEF LoopInv

\* A thread that caches its tid keeps the tids exact.
LEMMA CacheTidInv ==
  ASSUME TypeOK, TidsExact, NEW t \in Running,
         CacheTid(t)
  PROVE  TidsExact' /\ tid' = tid /\ cached_tid' \in [Thread -> Tid \union {0}]
<1>1. CachedTid(t) = tid[t]
  BY CachedTidIsTid
<1> QED
  BY <1>1 DEF CacheTid, TidsExact, TypeOK, Running

\* The constructor gives the loop to this thread, or ends the process.
LEMMA ConstructInv ==
  ASSUME LoopInv, NEW t \in Thread, NEW l \in Loop, Construct(t, l)
  PROVE  LoopInv'
<1>0. TypeOK
  BY DEF LoopInv
<1>1. t \in Running /\ CacheTid(t) /\ l \notin alive
  BY DEF Construct
<1>2. TidsExact' /\ tid' = tid /\ cached_tid' \in [Thread -> Tid \union {0}]
      /\ CachedTid(t) = tid[t]
  BY <1>1, CacheTidInv, CachedTidIsTid DEF LoopInv
<1>3. /\ thread_id' \in [Loop -> Tid \union {0}] /\ thread_id'[l] = tid[t]
      /\ \A m \in Loop : m # l => thread_id'[m] = thread_id[m]
  BY <1>0, <1>2 DEF Construct, TypeOK
<1>4. looping' \subseteq Loop /\ inside' = inside /\ pc' = pc /\ strayed' = strayed
      /\ Running' = Running
  <2>1. looping' \subseteq Loop
    BY <1>0, <1>2 DEF Construct, TypeOK
  <2>2. inside' = inside /\ pc' = pc /\ strayed' = strayed
    BY <1>0, <1>2 DEF Construct
  <2>3. Running' = Running
    BY <1>2 DEF Running
  <2> QED
    BY <2>1, <2>2, <2>3
<1>5. alive \subseteq alive' /\ alive' \subseteq Loop
  <2>1. alive' = alive \/ alive' = alive \union {l}
    BY Zenon DEF Construct
  <2> QED
    BY <1>0, <2>1 DEF TypeOK
<1>6. InsideExact'
  <2> SUFFICES ASSUME NEW u \in Thread
               PROVE  /\ inside[u] = NoLoop <=> pc[u] = "idle"
                      /\ inside[u] # NoLoop =>
                           u \in Running /\ inside[u] \in alive' /\ thread_id'[inside[u]] = tid[u]
    BY <1>2, <1>4 DEF InsideExact
  <2>1. /\ inside[u] = NoLoop <=> pc[u] = "idle"
        /\ inside[u] # NoLoop =>
             u \in Running /\ inside[u] \in alive /\ thread_id[inside[u]] = tid[u]
    BY DEF LoopInv, InsideExact
  <2> QED
    BY <1>1, <1>3, <1>5, <2>1
<1>7. CASE RefusesSecond(t)
  <2>1. fault' = "second loop" /\ thread_loop' = thread_loop /\ alive' = alive /\ maker' = maker
    BY <1>7 DEF Construct
  <2>2. TypeOK'
    BY <1>0, <1>2, <1>3, <1>4, <2>1 DEF TypeOK
  <2>3. MakerExact'
    BY <1>1, <1>2, <1>3, <1>4, <1>5, <2>1 DEF LoopInv, MakerExact
  <2>4. OneLoopPerThread'
    BY <1>4, <2>1 DEF LoopInv, OneLoopPerThread
  <2> QED
    BY <1>2, <1>6, <2>2, <2>3, <2>4 DEF LoopInv
<1>8. CASE ~RefusesSecond(t)
  <2>1. /\ thread_loop[t] = NoLoop /\ thread_loop' = [thread_loop EXCEPT ![t] = l]
        /\ alive' = alive \union {l} /\ maker' = [maker EXCEPT ![l] = t] /\ fault' = fault
    BY <1>8 DEF Construct, RefusesSecond
  <2>2. TypeOK'
    BY <1>0, <1>2, <1>3, <1>4, <2>1 DEF TypeOK
  <2>3. /\ maker'[l] = t /\ \A m \in Loop : m # l => maker'[m] = maker[m]
        /\ thread_loop'[t] = l /\ \A u \in Thread : u # t => thread_loop'[u] = thread_loop[u]
    BY <1>0, <2>1 DEF TypeOK
  <2>4. MakerExact'
    BY <1>2, <1>3, <1>4, <1>5, <2>1, <2>3 DEF LoopInv, MakerExact
  <2>5. OneLoopPerThread'
    <3> SUFFICES ASSUME strayed = {}, NEW u \in Running, NEW m \in Loop
                 PROVE  (m \in alive' /\ maker'[m] = u) <=> thread_loop'[u] = m
      BY <1>4 DEF OneLoopPerThread
    <3>1. \A v \in Running, n \in Loop : (n \in alive /\ maker[n] = v) <=> thread_loop[v] = n
      BY DEF LoopInv, OneLoopPerThread
    <3>2. u \in Thread
      BY DEF Running
    <3> QED
      BY <1>1, <2>1, <2>3, <3>1, <3>2, Distinct
  <2> QED
    BY <1>2, <1>6, <2>2, <2>4, <2>5 DEF LoopInv
<1> QED
  BY <1>7, <1>8

\* The destructor: if the thread that made the loop runs it, it forgets the
\* right one.
LEMMA LoopDestroyInv ==
  ASSUME LoopInv, NEW t \in Thread, NEW l \in Loop, Destroy(t, l)
  PROVE  LoopInv'
<1>0. TypeOK
  BY DEF LoopInv
<1>1. /\ UNCHANGED <<tid, cached_tid, thread_id, looping, inside, pc, maker, fault>>
      /\ alive' = alive \ {l} /\ thread_loop' = [thread_loop EXCEPT ![t] = NoLoop]
      /\ t \in Running /\ l \in alive /\ \A u \in Thread : inside[u] # l
  BY DEF Destroy, Forgets, threads
<1>2. TypeOK'
  BY <1>0, <1>1 DEF TypeOK, Destroy
<1>3. TidsExact' /\ InsideExact' /\ MakerExact'
  BY <1>1 DEF LoopInv, TidsExact, InsideExact, MakerExact, Running
<1>4. OneLoopPerThread'
  <2> SUFFICES ASSUME strayed' = {}, NEW u \in Running, NEW m \in Loop
               PROVE  (m \in alive' /\ maker[m] = u) <=> thread_loop'[u] = m
    BY <1>1 DEF OneLoopPerThread, Running
  <2>1. strayed = {} /\ maker[l] = t
    BY DEF Destroy
  <2>2. \A v \in Running, n \in Loop : (n \in alive /\ maker[n] = v) <=> thread_loop[v] = n
    BY <2>1 DEF LoopInv, OneLoopPerThread
  <2>3. thread_loop'[t] = NoLoop /\ \A v \in Thread : v # t => thread_loop'[v] = thread_loop[v]
    BY <1>0, <1>1 DEF TypeOK
  <2>4. u \in Thread
    BY DEF Running
  <2> QED
    BY <1>1, <2>1, <2>2, <2>3, <2>4, Distinct
<1> QED
  BY <1>2, <1>3, <1>4 DEF LoopInv

\* A call goes on only in a thread with the loop's tid.
LEMMA AssertInLoopThreadInv ==
  ASSUME LoopInv, NEW t \in Running, NEW l \in alive,
         NEW next \in {"start", "poller"},
         AssertInLoopThread(t, l, next),
         UNCHANGED <<thread_loop, alive, thread_id, looping, maker, strayed>>
  PROVE  LoopInv'
<1>0. TypeOK /\ t \in Thread /\ l \in Loop
  BY DEF Running, TypeOK, LoopInv
<1>1. TidsExact' /\ tid' = tid /\ cached_tid' \in [Thread -> Tid \union {0}]
      /\ CachedTid(t) = tid[t] /\ Running' = Running
  BY CacheTidInv, CachedTidIsTid DEF AssertInLoopThread, LoopInv, Running
<1>2. TypeOK'
  <2>1. \/ inside' = [inside EXCEPT ![t] = l] /\ pc' = [pc EXCEPT ![t] = next] /\ fault' = fault
        \/ inside' = inside /\ pc' = pc /\ fault' = "not in loop thread"
    BY Zenon DEF AssertInLoopThread, AbortNotInLoopThread
  <2>2. inside' \in [Thread -> Loop \union {NoLoop}]
    BY <1>0, <2>1 DEF TypeOK
  <2>3. pc' \in [Thread -> {"idle", "start", "poll", "poller"}]
    BY <1>0, <2>1 DEF TypeOK
  <2>4. fault' \in {"none", "second loop", "looping", "not in loop thread"}
    BY <1>0, <2>1 DEF TypeOK
  <2> QED
    BY <1>0, <1>1, <2>2, <2>3, <2>4 DEF TypeOK
<1>3. InsideExact'
  <2>1. CASE IsInLoopThread(t, l)
    <3>1. /\ inside'[t] = l /\ pc'[t] = next
          /\ \A u \in Thread : u # t => inside'[u] = inside[u] /\ pc'[u] = pc[u]
      BY <1>0, <2>1 DEF AssertInLoopThread, TypeOK
    <3>2. l # NoLoop /\ next # "idle" /\ thread_id[l] = tid[t]
      BY <1>0, <1>1, <2>1, Distinct DEF IsInLoopThread
    <3> QED
      BY <1>1, <3>1, <3>2 DEF LoopInv, InsideExact
  <2>2. CASE ~IsInLoopThread(t, l)
    BY <1>1, <2>2 DEF AssertInLoopThread, LoopInv, InsideExact
  <2> QED
    BY <2>1, <2>2
<1>4. MakerExact' /\ OneLoopPerThread'
  BY <1>1 DEF LoopInv, MakerExact, OneLoopPerThread
<1> QED
  BY <1>1, <1>2, <1>3, <1>4 DEF LoopInv

\* The other steps of a call.
LEMMA CallInv ==
  ASSUME LoopInv, NEW t \in Thread,
         LoopStart(t) \/ LoopEnd(t) \/ ChannelCallEnd(t)
  PROVE  LoopInv'
<1>0. TypeOK /\ inside[t] \in Loop
  BY DEF LoopInv, TypeOK, InsideExact, LoopStart, LoopEnd, ChannelCallEnd
<1>1. UNCHANGED <<tid, cached_tid, thread_loop, alive, thread_id, maker, strayed, fault>>
  BY DEF LoopStart, LoopEnd, ChannelCallEnd, threads
<1>2. TypeOK'
  BY <1>0, <1>1 DEF LoopStart, LoopEnd, ChannelCallEnd, TypeOK
<1>3. TidsExact' /\ MakerExact' /\ OneLoopPerThread'
  BY <1>1 DEF LoopInv, TidsExact, MakerExact, OneLoopPerThread, Running
<1>4. \A u \in Thread :
        \/ inside'[u] = inside[u] /\ (pc'[u] = "idle" <=> pc[u] = "idle")
        \/ inside'[u] = NoLoop /\ pc'[u] = "idle"
  BY <1>0 DEF LoopStart, LoopEnd, ChannelCallEnd, TypeOK
<1>5. InsideExact'
  BY <1>1, <1>4 DEF LoopInv, InsideExact, Running
<1> QED
  BY <1>2, <1>3, <1>5 DEF LoopInv

\* Every step keeps the invariant.
LEMMA LoopNextInv ==
  ASSUME LoopInv, [Next]_vars
  PROVE  LoopInv'
<1>1. ASSUME NEW t \in Thread, NEW l \in Loop, LoopBegin(t, l) PROVE LoopInv'
  <2>1. CASE AssertInLoopThread(t, l, "start")
    BY <1>1, <2>1, AssertInLoopThreadInv, Zenon DEF LoopBegin
  <2>2. CASE ~AssertInLoopThread(t, l, "start")
    <3>1. fault' = "looping" /\ UNCHANGED <<tid, cached_tid, thread_loop, alive, thread_id,
                                            looping, inside, pc, maker, strayed>>
      BY <1>1, <2>2 DEF LoopBegin, threads
    <3>2. TypeOK'
      BY <3>1 DEF LoopInv, TypeOK
    <3>3. TidsExact' /\ InsideExact' /\ MakerExact' /\ OneLoopPerThread'
      BY <3>1 DEF LoopInv, TidsExact, InsideExact, MakerExact, OneLoopPerThread, Running
    <3> QED
      BY <3>2, <3>3 DEF LoopInv
  <2> QED
    BY <2>1, <2>2
<1>2. ASSUME NEW t \in Thread, NEW l \in Loop, ChannelCall(t, l) PROVE LoopInv'
  BY <1>2, AssertInLoopThreadInv, Zenon DEF ChannelCall
<1>3. CASE UNCHANGED vars
  <2>1. TypeOK'
    BY <1>3 DEF vars, threads, LoopInv, TypeOK
  <2>2. TidsExact' /\ InsideExact' /\ MakerExact' /\ OneLoopPerThread'
    BY <1>3 DEF vars, threads, LoopInv, TidsExact, InsideExact, MakerExact,
         OneLoopPerThread, Running
  <2> QED
    BY <2>1, <2>2 DEF LoopInv
<1> QED
  BY <1>1, <1>2, <1>3, StartThreadInv, ExitThreadInv, ConstructInv, LoopDestroyInv, CallInv,
     Zenon DEF Next, Over

-----------------------------------------------------------------------------

\* The inductive invariant holds for any threads, tids and loops
\* (event_loop.cpp:14-70, current_thread.cpp:13-19).
THEOREM LoopInvariance == Spec => []LoopInv
<1>1. Init => LoopInv
  BY LoopInitInv
<1>2. LoopInv /\ [Next]_vars => LoopInv'
  BY LoopNextInv
<1> QED
  BY <1>1, <1>2, PTL DEF Spec

\* Comparing tids keeps a loop to one thread (event_loop.cpp:32-70).
THEOREM LoopOfOneThread == Spec => []OneThreadInside
<1>1. LoopInv => OneThreadInside
  <2> SUFFICES ASSUME LoopInv, NEW t \in Thread, NEW u \in Thread,
                      inside[t] # NoLoop, u \in Running, u # t
               PROVE  inside[u] # inside[t] /\ maker[inside[t]] # u
    BY DEF OneThreadInside
  <2>1. t \in Running /\ inside[t] \in alive /\ thread_id[inside[t]] = tid[t]
    BY DEF LoopInv, InsideExact
  <2>2. tid[u] # tid[t]
    BY <2>1 DEF LoopInv, TidsExact
  <2>3. inside[u] # inside[t]
    BY <2>1, <2>2 DEF LoopInv, InsideExact
  <2>4. maker[inside[t]] # u
    BY <2>1, <2>2 DEF LoopInv, MakerExact
  <2> QED
    BY <2>3, <2>4
<1> QED
  BY <1>1, LoopInvariance, PTL

\* A thread has the loop its variable names and no other, as long as loops are
\* destroyed where they were made (event_loop.cpp:19-30).
THEOREM LoopIsCurrent == Spec => []OneLoopPerThread
<1>1. LoopInv => OneLoopPerThread
  BY DEF LoopInv
<1> QED
  BY <1>1, LoopInvariance, PTL

-----------------------------------------------------------------------------

\* The families of a socket, where its ends may be, and what addresses are made of.
Family == {"AF_INET", "AF_INET6"}
Place == Endpoints \union {Nowhere}
Byte == 0 .. 255
Bytes == Seq(Byte)

\* The fields of a sockaddr_in or sockaddr_in6, and those of a filled-in one.
Fields == [family : {"AF_UNSPEC"} \union Family, port : Bytes, in : Bytes, in6 : Bytes]
Addresses == [family : Family, port : Bytes, in : Bytes, in6 : Bytes]

\* A descriptor's entry in the kernel's table.
Sockets ==
  [state : {"free", "open", "bound", "listening", "connecting", "connected", "reset"},
   family : Family \union {"AF_UNSPEC"}, local : Place, peer : Place,
   error : BOOLEAN, self : BOOLEAN, bound_to : Place, connected_to : Place]

\* A socket is where it was asked to be, both its ends have its family once it has them,
\* and it has met itself if they are the same.
SocketExact(s) ==
  /\ s.bound_to # Nowhere => s.local = s.bound_to
  /\ s.peer = s.connected_to
  /\ s.state = "open" => s.bound_to = Nowhere /\ s.family \in Family
  /\ s.state \in {"bound", "listening"} => s.local \in Endpoints /\ s.local.family = s.family
  /\ s.state \in {"connecting", "connected"} =>
       s.local \in Endpoints /\ s.peer \in Endpoints /\ s.local.family = s.peer.family
       /\ s.bound_to = Nowhere
  /\ s.state = "connected" => (s.self <=> s.local = s.peer)

\* So is every descriptor.
SocketsExact == sock \in [Fd -> Sockets] /\ \A fd \in Fd : SocketExact(sock[fd])

\* Only at a listening socket connections wait, and none of them has this end at the other.
QueuesExact ==
  /\ queue \in [Fd -> Seq(Endpoints)]
  /\ \A fd \in Fd : queue[fd] # <<>> => sock[fd].state = "listening"
  /\ \A fd \in Fd : \A i \in 1 .. Len(queue[fd]) :
       queue[fd][i].family = sock[fd].family /\ queue[fd][i] # Specific(sock[fd].local)

\* The InetAddress passed to Accept has the family, and prints the endpoint, put into it last.
AddressExact ==
  /\ peer_addr \in Addresses /\ shown \in Endpoints
  /\ IpPortToString(peer_addr) = [ip |-> shown.ip, port |-> shown.port]

\* The inductive invariant.
SocketInv == SocketsExact /\ QueuesExact /\ AddressExact

\* A port number in network order: its bytes, the highest first.
High(p) == p \div 256
Low(p) == p % 256
Word(h, l) == 256 * h + l
NetPort(p) == <<High(p), Low(p)>>

\* A port is its two bytes put together.
LEMMA PortBytes ==
  ASSUME NEW p \in PortNumbers
  PROVE  High(p) \in Byte /\ Low(p) \in Byte /\ Word(High(p), Low(p)) = p
<1>1. p \in Nat /\ p < 65536
  BY SMT DEF PortNumbers
<1> QED
  BY <1>1, SMT DEF High, Low, Word, Byte

\* The two bytes have their places.
LEMMA NetPortRules ==
  ASSUME NEW p \in PortNumbers
  PROVE  NetPort(p) \in Bytes /\ NetPort(p)[1] = High(p) /\ NetPort(p)[2] = Low(p)
<1>1. PICK h \in Byte, l \in Byte : h = High(p) /\ l = Low(p)
  BY PortBytes
<1>2. <<h, l>> \in Bytes /\ <<h, l>>[1] = h /\ <<h, l>>[2] = l
  BY DEF Bytes
<1> QED
  BY <1>1, <1>2, Zenon DEF NetPort

\* A port is told from every other by its bytes.
LEMMA PortBytesTell ==
  ASSUME NEW p \in PortNumbers, NEW q \in PortNumbers, NetPort(p) = NetPort(q)
  PROVE  p = q
<1>1. High(p) = High(q) /\ Low(p) = Low(q)
  BY NetPortRules, Zenon
<1> QED
  BY <1>1, PortBytes, Zenon

\* Two bytes change places.
LEMMA ReverseTwo ==
  ASSUME NEW a \in Byte, NEW b \in Byte
  PROVE  Reverse(<<a, b>>) = <<b, a>>
<1>1. PICK s : s = <<a, b>>
  OBVIOUS
<1>2. Len(s) = 2 /\ s[1] = a /\ s[2] = b
  BY <1>1
<1>3. PICK r : r = [i \in 1 .. 2 |-> s[(2 - i) + 1]]
  OBVIOUS
<1>4. r = Reverse(s)
  BY <1>2, <1>3 DEF Reverse
<1>5. \A i \in 1 .. 2 : s[(2 - i) + 1] \in Byte
  <2>1. s[(2 - 1) + 1] \in Byte /\ s[(2 - 2) + 1] \in Byte
    BY <1>2
  <2> QED
    BY <2>1
<1>6. r \in Seq(Byte) /\ Len(r) = 2 /\ r[1] = b /\ r[2] = a
  BY <1>2, <1>3, <1>5
<1>7. r = <<b, a>>
  BY <1>6
<1> QED
  BY <1>1, <1>4, <1>7

\* Zeros are bytes.
LEMMA ZerosAreBytes ==
  ASSUME NEW n \in Nat PROVE Zeros(n) \in Bytes /\ Len(Zeros(n)) = n
<1>1. 0 \in Byte
  BY DEF Byte
<1> QED
  BY <1>1 DEF Zeros, Bytes

\* The address 127.0.0.1 in network order.
LEMMA LoopbackBytes ==
  Reverse(INADDR_LOOPBACK) \in Bytes /\ in6addr_loopback \in Bytes
<1>1. Reverse(INADDR_LOOPBACK) \in Bytes
  <2>1. PICK s : s = INADDR_LOOPBACK
    OBVIOUS
  <2>2. s \in Seq(Byte) /\ Len(s) = 4
    BY <2>1 DEF INADDR_LOOPBACK, Byte
  <2>3. PICK r : r = [i \in 1 .. 4 |-> s[(4 - i) + 1]]
    OBVIOUS
  <2>4. r = Reverse(s)
    BY <2>2, <2>3 DEF Reverse
  <2>5. \A i \in 1 .. 4 : s[(4 - i) + 1] \in Byte
    <3> SUFFICES ASSUME NEW i \in 1 .. 4 PROVE s[(4 - i) + 1] \in Byte
      OBVIOUS
    <3>1. PICK j \in 1 .. 4 : j = (4 - i) + 1
      OBVIOUS
    <3> QED
      BY <2>2, <3>1, ElementOfSeq
  <2>6. r \in Seq(Byte)
    BY <2>3, <2>5
  <2> QED
    BY <2>1, <2>4, <2>6 DEF Bytes
<1>2. in6addr_loopback \in Bytes
  BY ZerosAreBytes, ExceptSeq DEF in6addr_loopback, Bytes, Byte
<1> QED
  BY <1>1, <1>2

\* INADDR_ANY reads the same in both orders.
LEMMA AnyReversed == Reverse(INADDR_ANY) = INADDR_ANY
<1>1. PICK s : s = Zeros(4)
  OBVIOUS
<1>0. Len(s) = 4 /\ \A i \in 1 .. 4 : s[i] = 0
  BY <1>1 DEF Zeros
<1>2. Reverse(s) = [i \in 1 .. 4 |-> s[(4 - i) + 1]]
  BY <1>0 DEF Reverse
<1>3. [i \in 1 .. 4 |-> s[(4 - i) + 1]] = [i \in 1 .. 4 |-> 0]
  BY <1>0
<1> QED
  BY <1>1, <1>2, <1>3 DEF INADDR_ANY, Zeros

\* The address any and the loopback address of a family.
LEMMA IpsAreBytes ==
  ASSUME NEW f \in Family PROVE AnyIp(f) \in Bytes /\ LoopbackIp(f) \in Bytes
BY ZerosAreBytes, LoopbackBytes DEF AnyIp, LoopbackIp, INADDR_ANY, in6addr_any

\* A zeroed address has the fields of one.
LEMMA BlankType == Blank \in Fields
<1>1. Zeros(2) \in Bytes /\ Zeros(4) \in Bytes /\ Zeros(16) \in Bytes
  BY ZerosAreBytes
<1> QED
  BY <1>1 DEF Blank, Fields

\* A zeroed address that is filled in.
FillIn(f, n, ip) == [[Blank EXCEPT !.family = f, !.port = n] EXCEPT !.in = ip]
FillIn6(f, n, ip) == [[Blank EXCEPT !.family = f, !.port = n] EXCEPT !.in6 = ip]

\* Its fields, for an address of IPv4.
LEMMA FilledIn ==
  ASSUME NEW f \in Family, NEW n \in Bytes, NEW ip \in Bytes
  PROVE  FillIn(f, n, ip) = [family |-> f, port |-> n, in |-> ip, in6 |-> Blank.in6]
<1>1. PICK b \in Fields : b = Blank
  BY BlankType
<1>2. PICK r : r = [[b EXCEPT !.family = f, !.port = n] EXCEPT !.in = ip]
  OBVIOUS
<1>3. r = [family |-> f, port |-> n, in |-> ip, in6 |-> b.in6]
  BY <1>2 DEF Fields, Family
<1>4. r = FillIn(f, n, ip)
  BY <1>1, <1>2, Zenon DEF FillIn
<1> QED
  BY <1>1, <1>3, <1>4, Zenon

\* And those of one of IPv6.
LEMMA FilledIn6 ==
  ASSUME NEW f \in Family, NEW n \in Bytes, NEW ip \in Bytes
  PROVE  FillIn6(f, n, ip) = [family |-> f, port |-> n, in |-> Blank.in, in6 |-> ip]
<1>1. PICK b \in Fields : b = Blank
  BY BlankType
<1>2. PICK r : r = [[b EXCEPT !.family = f, !.port = n] EXCEPT !.in6 = ip]
  OBVIOUS
<1>3. r = [family |-> f, port |-> n, in |-> b.in, in6 |-> ip]
  BY <1>2 DEF Fields, Family
<1>4. r = FillIn6(f, n, ip)
  BY <1>1, <1>2, Zenon DEF FillIn6
<1> QED
  BY <1>1, <1>3, <1>4, Zenon

\* What the kernel writes is what it means: the address of an endpoint.
LEMMA AddressOfRules ==
  ASSUME NEW e \in Endpoints
  PROVE  /\ AddressOf(e) \in Addresses
         /\ AddressOf(e).family = e.family
         /\ AddressOf(e).port = NetPort(e.port)
         /\ e.family = "AF_INET" => AddressOf(e).in = e.ip
         /\ e.family = "AF_INET6" => AddressOf(e).in6 = e.ip
<1>0. e.port \in PortNumbers
  BY DEF Endpoints
<1>1. PICK p \in Bytes : p = NetPort(e.port)
  BY <1>0, NetPortRules
<1>2. e.ip \in Bytes /\ e.family \in Family
  BY DEF Endpoints, Bytes, Byte, Family
<1>3. CASE e.family = "AF_INET"
  <2>1. PICK r : r = AddressOf(e)
    OBVIOUS
  <2>2. r = FillIn(e.family, p, e.ip)
    BY <1>1, <1>3, <2>1, Zenon DEF AddressOf, FillIn, NetPort, High, Low
  <2>3. r = [family |-> e.family, port |-> p, in |-> e.ip, in6 |-> Blank.in6]
    BY <1>2, <2>2, FilledIn, Zenon
  <2>4. r \in Addresses
    BY <1>1, <1>2, <2>3, BlankType DEF Addresses, Fields
  <2> QED
    BY <1>1, <1>3, <2>1, <2>3, <2>4
<1>4. CASE e.family = "AF_INET6"
  <2>1. PICK r : r = AddressOf(e)
    OBVIOUS
  <2>2. r = FillIn6(e.family, p, e.ip)
    BY <1>1, <1>4, <2>1, Zenon DEF AddressOf, FillIn6, NetPort, High, Low
  <2>3. r = [family |-> e.family, port |-> p, in |-> Blank.in, in6 |-> e.ip]
    BY <1>2, <2>2, FilledIn6, Zenon
  <2>4. r \in Addresses
    BY <1>1, <1>2, <2>3, BlankType DEF Addresses, Fields
  <2> QED
    BY <1>1, <1>4, <2>1, <2>3, <2>4
<1> QED
  BY <1>2, <1>3, <1>4 DEF Family

\* The port that is printed is that of the endpoint.
LEMMA PortHostRule ==
  ASSUME NEW p \in PortNumbers, NEW a, a.port = NetPort(p)
  PROVE  PortHost(a) = p
<1>1. PICK h \in Byte, l \in Byte : h = High(p) /\ l = Low(p)
  BY PortBytes
<1>2. Word(h, l) = p
  BY <1>1, PortBytes, Zenon
<1>3. Reverse(<<h, l>>) = <<l, h>>
  BY ReverseTwo
<1>4. NetworkToHost(a.port) = <<l, h>>
  BY <1>1, <1>3, Zenon DEF NetworkToHost, NetPort
<1>5. Value(<<l, h>>) = Word(h, l)
  BY DEF Value, Word, Byte
<1> QED
  BY <1>2, <1>4, <1>5, Zenon DEF PortHost

\* The address of an endpoint prints as the endpoint.
LEMMA AddressPrints ==
  ASSUME NEW e \in Endpoints, NEW a \in Addresses, a.family = e.family,
         a.port = NetPort(e.port),
         e.family = "AF_INET" => a.in = e.ip,
         e.family = "AF_INET6" => a.in6 = e.ip
  PROVE  IpPortToString(a) = [ip |-> e.ip, port |-> e.port]
<1>1. e.port \in PortNumbers /\ e.family \in Family
  BY DEF Endpoints, Family
<1>2. PortHost(a) = e.port
  BY <1>1, PortHostRule, Zenon
<1>3. CASE e.family = "AF_INET"
  <2>1. (CASE a.family = "AF_INET" -> a.in [] a.family = "AF_INET6" -> a.in6 [] OTHER -> <<>>) = e.ip
    BY <1>3, Zenon
  <2> QED
    BY <1>2, <2>1, Zenon DEF IpPortToString
<1>4. CASE e.family = "AF_INET6"
  <2>1. (CASE a.family = "AF_INET" -> a.in [] a.family = "AF_INET6" -> a.in6 [] OTHER -> <<>>) = e.ip
    BY <1>4
  <2> QED
    BY <1>2, <2>1, Zenon DEF IpPortToString
<1> QED
  BY <1>1, <1>3, <1>4 DEF Family

\* The port an address is made with is the one the kernel reads.
LEMMA PortToNetwork ==
  ASSUME NEW p \in PortNumbers
  PROVE  HostToNetwork(Uint16(p)) = NetPort(p)
<1>1. Reverse(<<Low(p), High(p)>>) = <<High(p), Low(p)>>
  BY PortBytes, ReverseTwo
<1> QED
  BY <1>1, Zenon DEF HostToNetwork, Uint16, NetPort, High, Low

\* The addresses the constructors make.
Filled4(ip, port) == FillIn("AF_INET", HostToNetwork(Uint16(port)), ip)
Filled6(ip, port) == FillIn6("AF_INET6", HostToNetwork(Uint16(port)), ip)

\* How the kernel reads one of IPv4.
LEMMA EndpointRead4 ==
  ASSUME NEW ip \in Bytes, NEW p \in PortNumbers
  PROVE  EndpointOf(Filled4(ip, p)) = [family |-> "AF_INET", ip |-> ip, port |-> p]
<1>1. HostToNetwork(Uint16(p)) = NetPort(p)
  BY PortToNetwork
<1>2. PICK n \in Bytes : n = NetPort(p)
  BY NetPortRules
<1>3. 256 * n[1] + n[2] = p
  BY <1>2, PortBytes, NetPortRules, Zenon DEF Word
<1>4. PICK f \in Family : f = "AF_INET"
  BY DEF Family
<1>5. PICK a : a = FillIn(f, n, ip)
  OBVIOUS
<1>6. a = Filled4(ip, p)
  BY <1>1, <1>2, <1>4, <1>5, Zenon DEF Filled4
<1>7. a = [family |-> f, port |-> n, in |-> ip, in6 |-> Blank.in6]
  BY <1>5, FilledIn, Zenon
<1>8. a.family = f /\ a.port = n /\ a.in = ip
  BY <1>7
<1> QED
  BY <1>3, <1>4, <1>6, <1>8 DEF EndpointOf

\* And how it reads one of IPv6.
LEMMA EndpointRead6 ==
  ASSUME NEW ip \in Bytes, NEW p \in PortNumbers
  PROVE  EndpointOf(Filled6(ip, p)) = [family |-> "AF_INET6", ip |-> ip, port |-> p]
<1>1. HostToNetwork(Uint16(p)) = NetPort(p)
  BY PortToNetwork
<1>2. PICK n \in Bytes : n = NetPort(p)
  BY NetPortRules
<1>3. 256 * n[1] + n[2] = p
  BY <1>2, PortBytes, NetPortRules, Zenon DEF Word
<1>4. PICK f \in Family : f = "AF_INET6"
  BY DEF Family
<1>5. PICK a : a = FillIn6(f, n, ip)
  OBVIOUS
<1>6. a = Filled6(ip, p)
  BY <1>1, <1>2, <1>4, <1>5, Zenon DEF Filled6
<1>7. a = [family |-> f, port |-> n, in |-> Blank.in, in6 |-> ip]
  BY <1>5, FilledIn6, Zenon
<1>8. a.family = f /\ a.port = n /\ a.in6 = ip
  BY <1>7
<1> QED
  BY <1>3, <1>4, <1>6, <1>8 DEF EndpointOf

\* An InetAddress made of a port names to the kernel what it means.
LEMMA OfPortMeans ==
  ASSUME NEW g, g.by = "port", g.port \in PortNumbers
  PROVE  EndpointOf(InetAddress(g)) = Meant(g) /\ Meant(g) \in Endpoints
<1>1. PICK p \in PortNumbers : p = g.port
  OBVIOUS
<1>2. InetAddress(g) = OfPort(g)
  BY DEF InetAddress
<1>3. CASE g.ipv6
  <2>1. PICK ip \in Bytes : ip = IF g.loop_back_only THEN in6addr_loopback ELSE in6addr_any
    BY LoopbackBytes, ZerosAreBytes DEF in6addr_any
  <2>2. OfPort(g) = Filled6(ip, p)
    BY <1>1, <1>3, <2>1, Zenon DEF OfPort, Filled6, FillIn6
  <2>3. Meant(g) = [family |-> "AF_INET6", ip |-> ip, port |-> p]
    BY <1>1, <1>3, <2>1 DEF Meant, LoopbackIp, AnyIp
  <2>4. Meant(g) \in Endpoints
    BY <2>3 DEF Endpoints, Bytes, Byte
  <2> QED
    BY <1>2, <2>2, <2>3, <2>4, EndpointRead6, Zenon
<1>4. CASE ~g.ipv6
  <2>1. PICK ip \in Bytes : ip = IF g.loop_back_only THEN Reverse(INADDR_LOOPBACK) ELSE INADDR_ANY
    BY LoopbackBytes, ZerosAreBytes DEF INADDR_ANY
  <2>2. HostToNetwork(IF g.loop_back_only THEN INADDR_LOOPBACK ELSE INADDR_ANY) = ip
    BY <2>1, AnyReversed, Zenon DEF HostToNetwork
  <2>3. OfPort(g) = Filled4(ip, p)
    BY <1>1, <1>4, <2>2, Zenon DEF OfPort, Filled4, FillIn
  <2>4. Meant(g) = [family |-> "AF_INET", ip |-> ip, port |-> p]
    BY <1>1, <1>4, <2>1 DEF Meant, LoopbackIp, AnyIp
  <2>5. Meant(g) \in Endpoints
    BY <2>4 DEF Endpoints, Bytes, Byte
  <2> QED
    BY <1>2, <2>3, <2>4, <2>5, EndpointRead4, Zenon
<1> QED
  BY <1>3, <1>4

\* And so does one made of a text.
LEMMA OfTextMeans ==
  ASSUME NEW g, g.by = "text", g.port \in PortNumbers, g.ip \in Bytes
  PROVE  EndpointOf(InetAddress(g)) = Meant(g) /\ Meant(g) \in Endpoints
<1>1. PICK p \in PortNumbers : p = g.port
  OBVIOUS
<1>2. PICK ip \in Bytes : ip = g.ip
  OBVIOUS
<1>3. InetAddress(g) = OfText(g)
  BY DEF InetAddress
<1>4. CASE g.ipv6 \/ Len(g.ip) = 16
  <2>1. OfText(g) = Filled6(ip, p)
    BY <1>1, <1>2, <1>4, Zenon DEF OfText, IpPortFromString, Filled6, FillIn6
  <2>2. Meant(g) = [family |-> "AF_INET6", ip |-> ip, port |-> p]
    BY <1>1, <1>2, <1>4 DEF Meant
  <2>3. Meant(g) \in Endpoints
    BY <2>2 DEF Endpoints, Bytes, Byte
  <2> QED
    BY <1>3, <2>1, <2>2, <2>3, EndpointRead6, Zenon
<1>5. CASE ~(g.ipv6 \/ Len(g.ip) = 16)
  <2>1. OfText(g) = Filled4(ip, p)
    BY <1>1, <1>2, <1>5, Zenon DEF OfText, IpPortFromString, Filled4, FillIn
  <2>2. Meant(g) = [family |-> "AF_INET", ip |-> ip, port |-> p]
    BY <1>1, <1>2, <1>5 DEF Meant
  <2>3. Meant(g) \in Endpoints
    BY <2>2 DEF Endpoints, Bytes, Byte
  <2> QED
    BY <1>3, <2>1, <2>2, <2>3, EndpointRead4, Zenon
<1> QED
  BY <1>4, <1>5

\* An InetAddress names to the kernel the endpoint that its arguments mean.
LEMMA InetAddressMeans ==
  ASSUME NEW g \in Given
  PROVE  EndpointOf(InetAddress(g)) = Meant(g) /\ Meant(g) \in Endpoints
<1>1. \/ g.by = "port" /\ g.port \in PortNumbers
      \/ g.by = "text" /\ g.port \in PortNumbers /\ g.ip \in Bytes
  BY GivenAssumption DEF Bytes, Byte
<1> QED
  BY <1>1, OfPortMeans, OfTextMeans, Zenon

\* The other end of a connection at this machine is an endpoint of the same family.
LEMMA SpecificRule ==
  ASSUME NEW e \in Endpoints
  PROVE  Specific(e) \in Endpoints /\ Specific(e).family = e.family
<1>1. e.family \in Family /\ e.port \in PortNumbers
  BY DEF Endpoints, Family
<1>2. LoopbackIp(e.family) \in Bytes
  BY <1>1, IpsAreBytes
<1>3. PICK r : r = [e EXCEPT !.ip = LoopbackIp(e.family)]
  OBVIOUS
<1>4. r \in Endpoints /\ r.family = e.family
  BY <1>2, <1>3 DEF Endpoints, Bytes, Byte
<1> QED
  BY <1>3, <1>4 DEF Specific

\* Addresses of the same family agree, where IsSelfConnect looks, just when the
\* endpoints do.
LEMMA SameAddress ==
  ASSUME NEW l \in Endpoints, NEW p \in Endpoints, l.family = p.family
  PROVE  (/\ AddressOf(l).port = AddressOf(p).port
          /\ \/ AddressOf(l).family = "AF_INET" /\ AddressOf(l).in = AddressOf(p).in
             \/ AddressOf(l).family = "AF_INET6" /\ AddressOf(l).in6 = AddressOf(p).in6)
         <=> l = p
<1>1. l.port \in PortNumbers /\ p.port \in PortNumbers /\ l.family \in Family
  BY DEF Endpoints, Family
<1>2. AddressOf(l).port = AddressOf(p).port => l.port = p.port
  <2>1. AddressOf(l).port = NetPort(l.port)
    BY AddressOfRules, Zenon
  <2>2. AddressOf(p).port = NetPort(p.port)
    BY AddressOfRules, Zenon
  <2> QED
    BY <1>1, <2>1, <2>2, PortBytesTell, Zenon
<1>3. l.port = p.port /\ l.ip = p.ip => l = p
  BY DEF Endpoints
<1>4. CASE l.family = "AF_INET"
  <2>1. AddressOf(l).family = "AF_INET" /\ AddressOf(l).in = l.ip
    BY <1>4, AddressOfRules, Zenon
  <2>2. AddressOf(p).in = p.ip
    BY <1>4, AddressOfRules, Zenon
  <2> QED
    BY <1>2, <1>3, <2>1, <2>2
<1>5. CASE l.family = "AF_INET6"
  <2>1. AddressOf(l).family = "AF_INET6" /\ AddressOf(l).in6 = l.ip
    BY <1>5, AddressOfRules, Zenon
  <2>2. AddressOf(p).in6 = p.ip
    BY <1>5, AddressOfRules, Zenon
  <2> QED
    BY <1>2, <1>3, <2>1, <2>2
<1> QED
  BY <1>1, <1>4, <1>5 DEF Family

\* One socket changes, and no connection waits at it or it stays where it is.
LEMMA SocketStep ==
  ASSUME SocketsExact, QueuesExact, NEW fd \in Fd, NEW s \in Sockets, SocketExact(s),
         sock' = [sock EXCEPT ![fd] = s], queue' = queue,
         \/ sock[fd].state # "listening"
         \/ s.state = sock[fd].state /\ s.family = sock[fd].family /\ s.local = sock[fd].local
  PROVE  SocketsExact' /\ QueuesExact'
<1>1. sock' \in [Fd -> Sockets] /\ sock'[fd] = s /\ \A f \in Fd : f # fd => sock'[f] = sock[f]
  BY DEF SocketsExact
<1>2. SocketsExact'
  BY <1>1 DEF SocketsExact
<1>3. QueuesExact'
  <2>1. ASSUME NEW f \in Fd, queue[f] # <<>>
        PROVE  /\ sock'[f].state = "listening" /\ sock'[f].family = sock[f].family
               /\ sock'[f].local = sock[f].local
    BY <1>1, <2>1 DEF QueuesExact
  <2>2. ASSUME NEW f \in Fd, NEW i \in 1 .. Len(queue[f]) PROVE queue[f] # <<>>
    BY <2>2
  <2>3. ASSUME NEW f \in Fd, NEW i \in 1 .. Len(queue[f])
        PROVE  queue[f][i].family = sock'[f].family /\ queue[f][i] # Specific(sock'[f].local)
    BY <2>1, <2>2, <2>3 DEF QueuesExact
  <2> QED
    BY <2>1, <2>3 DEF QueuesExact
<1> QED
  BY <1>2, <1>3

\* A connection is reset, or its error is taken.
LEMMA ResetExact ==
  ASSUME NEW b \in Sockets, SocketExact(b), NEW s,
         \/ s = [b EXCEPT !.state = "reset", !.error = TRUE]
         \/ s = [b EXCEPT !.error = FALSE]
  PROVE  /\ s \in Sockets /\ SocketExact(s)
         /\ s.state = "reset" \/ (s.state = b.state /\ s.family = b.family /\ s.local = b.local)
<1>1. CASE s = [b EXCEPT !.state = "reset", !.error = TRUE]
  BY <1>1 DEF Sockets, SocketExact
<1>2. CASE s = [b EXCEPT !.error = FALSE]
  BY <1>2 DEF Sockets, SocketExact
<1> QED
  BY <1>1, <1>2

\* A connect is answered.
LEMMA ConnectedExact ==
  ASSUME NEW b \in Sockets, SocketExact(b), b.state = "connecting", NEW m \in BOOLEAN,
         m <=> b.peer = b.local, NEW s, s = [b EXCEPT !.state = "connected", !.self = m]
  PROVE  s \in Sockets /\ SocketExact(s)
<1>1. s \in Sockets
  BY DEF Sockets
<1>2. /\ s.state = "connected" /\ s.self = m /\ s.local = b.local /\ s.peer = b.peer
      /\ s.family = b.family /\ s.bound_to = b.bound_to /\ s.connected_to = b.connected_to
  BY DEF Sockets
<1> QED
  BY <1>1, <1>2 DEF SocketExact

\* A socket is bound.
LEMMA BoundExact ==
  ASSUME NEW b \in Sockets, SocketExact(b), b.state = "open", NEW e \in Endpoints,
         b.family = e.family, NEW s,
         \/ s = [b EXCEPT !.state = "bound", !.local = e, !.bound_to = e]
         \/ s = [b EXCEPT !.state = "listening", !.local = e]
  PROVE  s \in Sockets /\ SocketExact(s)
<1>1. e \in Place /\ b.bound_to = Nowhere
  BY DEF Place, SocketExact
<1>2. CASE s = [b EXCEPT !.state = "bound", !.local = e, !.bound_to = e]
  BY <1>1, <1>2 DEF Sockets, SocketExact
<1>3. CASE s = [b EXCEPT !.state = "listening", !.local = e]
  BY <1>1, <1>3 DEF Sockets, SocketExact
<1> QED
  BY <1>2, <1>3

\* A bound socket listens.
LEMMA ListeningExact ==
  ASSUME NEW b \in Sockets, SocketExact(b), b.state = "bound", NEW s,
         s = [b EXCEPT !.state = "listening"]
  PROVE  s \in Sockets /\ SocketExact(s)
BY DEF Sockets, SocketExact

\* A socket begins to connect.
LEMMA ConnectingExact ==
  ASSUME NEW b \in Sockets, SocketExact(b), b.state = "open", NEW e \in Endpoints,
         NEW l \in Endpoints, l.family = e.family, NEW s,
         s = [b EXCEPT !.state = "connecting", !.peer = e, !.connected_to = e, !.local = l]
  PROVE  s \in Sockets /\ SocketExact(s)
<1>1. e \in Place /\ l \in Place /\ b.bound_to = Nowhere
  BY DEF Place, SocketExact
<1> QED
  BY <1>1 DEF Sockets, SocketExact

\* A descriptor that is free.
LEMMA FreeExact == Free \in Sockets /\ SocketExact(Free)
<1>1. Free \in Sockets
  BY DEF Free, Sockets, Place
<1> QED
  BY <1>1 DEF Free, SocketExact

\* A socket that is made.
LEMMA OpenExact ==
  ASSUME NEW f \in Family, NEW s, s = [Free EXCEPT !.state = "open", !.family = f]
  PROVE  s \in Sockets /\ SocketExact(s)
<1>1. PICK b \in Sockets : b = Free /\ SocketExact(b) /\ b.bound_to = Nowhere
  BY FreeExact DEF Free
<1>2. s = [b EXCEPT !.state = "open", !.family = f]
  BY <1>1, Zenon
<1> QED
  BY <1>1, <1>2 DEF Sockets, SocketExact

\* The socket of an accepted connection.
LEMMA AcceptedExact ==
  ASSUME NEW e \in Endpoints, NEW l \in Endpoints, e.family = l.family, e # l, NEW s,
         s = [Free EXCEPT !.state = "connected", !.family = e.family, !.peer = e,
                          !.connected_to = e, !.local = l]
  PROVE  s \in Sockets /\ SocketExact(s)
<1>1. PICK b \in Sockets : b = Free
  BY FreeExact
<1>2. b.bound_to = Nowhere /\ b.self = FALSE
  BY <1>1 DEF Free
<1>3. s = [b EXCEPT !.state = "connected", !.family = e.family, !.peer = e,
                    !.connected_to = e, !.local = l]
  BY <1>1, Zenon
<1>4. e.family \in Family /\ e \in Place /\ l \in Place
  BY DEF Endpoints, Family, Place
<1>5. s \in Sockets
  BY <1>3, <1>4 DEF Sockets
<1>6. /\ s.state = "connected" /\ s.self = b.self /\ s.local = l /\ s.peer = e
      /\ s.family = e.family /\ s.bound_to = b.bound_to /\ s.connected_to = e
  BY <1>3, <1>4 DEF Sockets
<1> QED
  BY <1>2, <1>5, <1>6 DEF SocketExact

\* An InetAddress that has not been touched stays exact.
LEMMA AddressKept ==
  ASSUME AddressExact, UNCHANGED <<peer_addr, shown>> PROVE AddressExact'
BY DEF AddressExact

\* Sockets and queues that have not been touched stay exact.
LEMMA SocketsKept ==
  ASSUME SocketsExact, QueuesExact, UNCHANGED <<sock, queue>> PROVE SocketsExact' /\ QueuesExact'
BY DEF SocketsExact, QueuesExact

\* No socket is open, and the InetAddress was made of its port.
LEMMA SocketInitInv == SocketInit => SocketInv
<1> SUFFICES ASSUME SocketInit PROVE SocketInv
  OBVIOUS
<1>1. SocketsExact
  BY FreeExact DEF SocketInit, SocketsExact
<1>2. QueuesExact
  BY DEF SocketInit, QueuesExact
<1>3. AddressExact
  <2>1. PICK g : g = [by |-> "port", port |-> 0, loop_back_only |-> FALSE, ipv6 |-> FALSE]
    OBVIOUS
  <2>2. PICK p \in PortNumbers : p = 0
    BY DEF PortNumbers
  <2>3. PICK ip \in Bytes : ip = INADDR_ANY
    BY ZerosAreBytes DEF INADDR_ANY
  <2>4. PICK n \in Bytes : n = NetPort(p)
    BY NetPortRules
  <2>5. HostToNetwork(Uint16(0)) = n
    BY <2>2, <2>4, PortToNetwork, Zenon
  <2>7. PICK f \in Family : f = "AF_INET"
    BY DEF Family
  <2>8. ~g.ipv6 /\ ~g.loop_back_only /\ g.port = 0 /\ peer_addr = OfPort(g)
    BY <2>1 DEF SocketInit
  <2>9. peer_addr = FillIn(f, n, ip)
    BY <2>3, <2>5, <2>7, <2>8, AnyReversed, Zenon DEF OfPort, HostToNetwork, FillIn
  <2>10. peer_addr = [family |-> f, port |-> n, in |-> ip, in6 |-> Blank.in6]
    BY <2>9, FilledIn, Zenon
  <2>11. peer_addr \in Addresses
    BY <2>10, BlankType DEF Addresses, Fields
  <2>12. peer_addr.family = f /\ peer_addr.port = n /\ peer_addr.in = ip
    BY <2>10
  <2>13. shown = [family |-> f, ip |-> ip, port |-> p]
    BY <2>2, <2>3, <2>7 DEF SocketInit
  <2>14. shown \in Endpoints /\ shown.family = f /\ shown.ip = ip /\ shown.port = p
    BY <2>13 DEF Endpoints, Family, Bytes, Byte
  <2>15. IpPortToString(peer_addr) = [ip |-> shown.ip, port |-> shown.port]
    BY <2>4, <2>7, <2>11, <2>12, <2>14, AddressPrints
  <2> QED
    BY <2>11, <2>14, <2>15 DEF AddressExact
<1> QED
  BY <1>1, <1>2, <1>3 DEF SocketInv

\* A peer resets a connection.
LEMMA PeerResetsInv ==
  ASSUME SocketInv, NEW fd \in Fd, PeerResets(fd) PROVE SocketInv'
<1>1. PICK b \in Sockets : b = sock[fd] /\ SocketExact(b)
  BY DEF SocketInv, SocketsExact
<1>2. PICK s : s = [b EXCEPT !.state = "reset", !.error = TRUE]
  OBVIOUS
<1>3. s \in Sockets /\ SocketExact(s)
  BY <1>1, <1>2, ResetExact
<1>4. sock' = [sock EXCEPT ![fd] = s] /\ queue' = queue /\ sock[fd].state # "listening"
  BY <1>1, <1>2 DEF PeerResets
<1>5. SocketsExact' /\ QueuesExact'
  BY <1>3, <1>4, SocketStep DEF SocketInv
<1> QED
  BY <1>5, AddressKept DEF SocketInv, PeerResets

\* A client is queued at a listening socket of its family.
LEMMA ClientConnectsInv ==
  ASSUME SocketInv, NEW fd \in Fd, NEW e \in Remote, ClientConnects(fd, e)
  PROVE  SocketInv'
<1>1. e \in Endpoints /\ e.family = sock[fd].family /\ e # Specific(sock[fd].local)
      /\ sock[fd].state = "listening"
  BY SocketAssumption DEF ClientConnects
<1>2. SocketsExact'
  BY DEF SocketInv, SocketsExact, ClientConnects
<1>3. PICK q \in Seq(Endpoints) : q = queue[fd]
  BY DEF SocketInv, QueuesExact
<1>4. PICK r : r = Append(q, e)
  OBVIOUS
<1>5. /\ queue \in [Fd -> Seq(Endpoints)] /\ queue' = [queue EXCEPT ![fd] = r]
      /\ sock' = sock
  BY <1>3, <1>4 DEF ClientConnects, SocketInv, QueuesExact
<1>6. r \in Seq(Endpoints) /\ \A i \in 1 .. Len(r) : r[i] = e \/ (i \in 1 .. Len(q) /\ r[i] = q[i])
  BY <1>1, <1>4
<1>7. queue' \in [Fd -> Seq(Endpoints)] /\ queue'[fd] = r
      /\ \A f \in Fd : f # fd => queue'[f] = queue[f]
  BY <1>5, <1>6
<1>8. \A i \in 1 .. Len(r) : r[i].family = sock[fd].family /\ r[i] # Specific(sock[fd].local)
  BY <1>1, <1>3, <1>6 DEF SocketInv, QueuesExact
<1>9. QueuesExact'
  BY <1>1, <1>5, <1>7, <1>8 DEF SocketInv, QueuesExact
<1> QED
  BY <1>2, <1>9, AddressKept DEF SocketInv, ClientConnects

\* The kernel answers a connect: it succeeds or leaves an error.
LEMMA ConnectEndsInv ==
  ASSUME SocketInv, NEW fd \in Fd, ConnectEnds(fd) PROVE SocketInv'
<1>1. PICK b \in Sockets : b = sock[fd] /\ SocketExact(b)
  BY DEF SocketInv, SocketsExact
<1>2. b.state = "connecting"
  BY <1>1 DEF ConnectEnds
<1>3. \E s \in Sockets : SocketExact(s) /\ sock' = [sock EXCEPT ![fd] = s]
  <2>1. CASE sock' = [sock EXCEPT ![fd] =
                        [sock[fd] EXCEPT !.state = "connected", !.self = (sock[fd].peer = sock[fd].local)]]
    <3>1. PICK m \in BOOLEAN : m = (b.peer = b.local)
      OBVIOUS
    <3>2. PICK s : s = [b EXCEPT !.state = "connected", !.self = m]
      OBVIOUS
    <3>3. s \in Sockets /\ SocketExact(s)
      BY <1>1, <1>2, <3>1, <3>2, ConnectedExact
    <3>4. sock' = [sock EXCEPT ![fd] = s]
      BY <1>1, <2>1, <3>1, <3>2, Zenon
    <3> QED
      BY <3>3, <3>4
  <2>2. CASE sock' = [sock EXCEPT ![fd] = [sock[fd] EXCEPT !.state = "reset", !.error = TRUE]]
    <3>1. PICK s : s = [b EXCEPT !.state = "reset", !.error = TRUE]
      OBVIOUS
    <3>2. s \in Sockets /\ SocketExact(s)
      BY <1>1, <3>1, ResetExact
    <3> QED
      BY <1>1, <2>2, <3>1, <3>2
  <2> QED
    BY <2>1, <2>2, Zenon DEF ConnectEnds
<1>4. SocketsExact' /\ QueuesExact'
  BY <1>1, <1>2, <1>3, SocketStep DEF SocketInv, ConnectEnds
<1> QED
  BY <1>4, AddressKept DEF SocketInv, ConnectEnds

\* CreateNonblockingSocketOrDie gives a free descriptor, or ends the process.
LEMMA CreateInv ==
  ASSUME SocketInv, NEW family \in Family, Create(family) PROVE SocketInv'
<1>1. CASE \E fd \in FreeFds :
             sock' = [sock EXCEPT ![fd] = [Free EXCEPT !.state = "open", !.family = family]]
  <2>1. PICK fd \in Fd :
          /\ sock[fd].state = "free"
          /\ sock' = [sock EXCEPT ![fd] = [Free EXCEPT !.state = "open", !.family = family]]
    BY <1>1 DEF FreeFds
  <2>2. PICK s : s = [Free EXCEPT !.state = "open", !.family = family]
    OBVIOUS
  <2>3. s \in Sockets /\ SocketExact(s)
    BY <2>2, OpenExact, Zenon
  <2>4. sock' = [sock EXCEPT ![fd] = s] /\ queue' = queue
    BY <2>1, <2>2, Zenon DEF Create
  <2>5. SocketsExact' /\ QueuesExact'
    BY <2>1, <2>3, <2>4, SocketStep DEF SocketInv
  <2> QED
    BY <2>5, AddressKept DEF SocketInv, Create
<1>2. CASE UNCHANGED sock
  BY <1>2, SocketsKept, AddressKept DEF SocketInv, Create
<1> QED
  BY <1>1, <1>2, Zenon DEF Create

\* ~Socket closes the descriptor, and what waited at it is gone.
LEMMA DestroySocketInv ==
  ASSUME SocketInv, NEW fd, DestroySocket(fd) PROVE SocketInv'
<1>1. /\ sock' = [f \in Fd |-> IF f = fd THEN Free ELSE sock[f]]
      /\ queue' = [f \in Fd |-> IF f = fd THEN <<>> ELSE queue[f]]
  BY DEF DestroySocket
<1>2. \A f \in Fd : \/ sock'[f] = Free /\ queue'[f] = <<>>
                    \/ sock'[f] = sock[f] /\ queue'[f] = queue[f]
  BY <1>1
<1>3. sock' \in [Fd -> Sockets] /\ queue' \in [Fd -> Seq(Endpoints)]
  <2>1. <<>> \in Seq(Endpoints)
    OBVIOUS
  <2>2. sock \in [Fd -> Sockets] /\ queue \in [Fd -> Seq(Endpoints)]
    BY DEF SocketInv, SocketsExact, QueuesExact
  <2> QED
    BY <1>1, <2>1, <2>2, FreeExact
<1>4. SocketsExact'
  BY <1>2, <1>3, FreeExact DEF SocketInv, SocketsExact
<1>5. QueuesExact'
  <2>1. ASSUME NEW f \in Fd
        PROVE  /\ queue'[f] # <<>> => sock'[f].state = "listening"
               /\ \A i \in 1 .. Len(queue'[f]) : queue'[f][i].family = sock'[f].family
                                               /\ queue'[f][i] # Specific(sock'[f].local)
    <3>1. CASE queue'[f] = <<>>
      BY <3>1
    <3>2. CASE sock'[f] = sock[f] /\ queue'[f] = queue[f]
      BY <3>2 DEF SocketInv, QueuesExact
    <3> QED
      BY <1>2, <3>1, <3>2
  <2> QED
    BY <1>3, <2>1 DEF QueuesExact
<1> QED
  BY <1>4, <1>5, AddressKept DEF SocketInv, DestroySocket

\* bind puts the socket where the InetAddress says, or ends the process.
LEMMA BindAddressInv ==
  ASSUME SocketInv, NEW fd, NEW g \in Given, BindAddress(fd, g) PROVE SocketInv'
<1>1. PICK e \in Endpoints : e = EndpointOf(InetAddress(g)) /\ e = Meant(g)
  BY InetAddressMeans
<1>2. CASE UNCHANGED sock
  BY <1>2, SocketsKept, AddressKept DEF SocketInv, BindAddress
<1>3. CASE /\ MayBind(fd, e)
           /\ sock' = [sock EXCEPT ![fd] = [sock[fd] EXCEPT !.state = "bound", !.local = e,
                                                            !.bound_to = e]]
  <2>1. PICK b \in Sockets : b = sock[fd] /\ SocketExact(b)
    BY <1>3 DEF SocketInv, SocketsExact, MayBind
  <2>2. fd \in Fd /\ b.state = "open" /\ b.family = e.family
    BY <1>3, <2>1 DEF MayBind
  <2>3. PICK s : s = [b EXCEPT !.state = "bound", !.local = e, !.bound_to = e]
    OBVIOUS
  <2>4. s \in Sockets /\ SocketExact(s)
    BY <2>1, <2>2, <2>3, BoundExact
  <2>5. sock' = [sock EXCEPT ![fd] = s] /\ queue' = queue
    BY <1>3, <2>1, <2>3 DEF BindAddress
  <2>6. SocketsExact' /\ QueuesExact'
    BY <2>1, <2>2, <2>4, <2>5, SocketStep DEF SocketInv
  <2> QED
    BY <2>6, AddressKept DEF SocketInv, BindAddress
<1> QED
  BY <1>1, <1>2, <1>3, Zenon DEF BindAddress

\* listen keeps the place of a bound socket, and gives one to an unbound one.
LEMMA ListenInv ==
  ASSUME SocketInv, NEW fd, Listen(fd) PROVE SocketInv'
<1>1. CASE UNCHANGED sock
  BY <1>1, SocketsKept, AddressKept DEF SocketInv, Listen
<1>2. CASE fd \in Fd /\ sock[fd].state = "bound"
           /\ sock' = [sock EXCEPT ![fd] = [sock[fd] EXCEPT !.state = "listening"]]
  <2>1. PICK b \in Sockets : b = sock[fd] /\ SocketExact(b) /\ b.state = "bound"
    BY <1>2 DEF SocketInv, SocketsExact
  <2>2. PICK s : s = [b EXCEPT !.state = "listening"]
    OBVIOUS
  <2>3. s \in Sockets /\ SocketExact(s)
    BY <2>1, <2>2, ListeningExact
  <2>4. sock' = [sock EXCEPT ![fd] = s] /\ queue' = queue
    BY <1>2, <2>1, <2>2 DEF Listen
  <2>5. SocketsExact' /\ QueuesExact'
    BY <1>2, <2>1, <2>3, <2>4, SocketStep DEF SocketInv
  <2> QED
    BY <2>5, AddressKept DEF SocketInv, Listen
<1>3. ASSUME NEW port \in Port, NEW e, fd \in Fd, sock[fd].state = "open",
             e = [family |-> sock[fd].family, ip |-> AnyIp(sock[fd].family), port |-> port],
             sock' = [sock EXCEPT ![fd] = [sock[fd] EXCEPT !.state = "listening", !.local = e]]
      PROVE  SocketInv'
  <2>1. PICK b \in Sockets : b = sock[fd] /\ SocketExact(b) /\ b.state = "open"
    BY <1>3 DEF SocketInv, SocketsExact
  <2>2. PICK f \in Family : f = b.family
    BY <2>1 DEF SocketExact
  <2>3. port \in PortNumbers /\ AnyIp(f) \in Bytes
    BY SocketAssumption, IpsAreBytes
  <2>4. e = [family |-> f, ip |-> AnyIp(f), port |-> port]
    BY <1>3, <2>1, <2>2, Zenon
  <2>5. e \in Endpoints /\ e.family = b.family
    BY <2>2, <2>3, <2>4 DEF Endpoints, Family, Bytes, Byte
  <2>6. PICK s : s = [b EXCEPT !.state = "listening", !.local = e]
    OBVIOUS
  <2>7. s \in Sockets /\ SocketExact(s)
    BY <2>1, <2>5, <2>6, BoundExact
  <2>8. sock' = [sock EXCEPT ![fd] = s] /\ queue' = queue
    BY <1>3, <2>1, <2>6, Zenon DEF Listen
  <2>9. SocketsExact' /\ QueuesExact'
    BY <1>3, <2>7, <2>8, SocketStep DEF SocketInv
  <2> QED
    BY <2>9, AddressKept DEF SocketInv, Listen
<1> QED
  BY <1>1, <1>2, <1>3, Zenon DEF Listen

\* connect names the other end, and the kernel chooses this one.
LEMMA ConnectInv ==
  ASSUME SocketInv, NEW fd, NEW g \in Given, Connect(fd, g) PROVE SocketInv'
<1>1. PICK e \in Endpoints : e = EndpointOf(InetAddress(g)) /\ e = Meant(g)
  BY InetAddressMeans
<1>2. fd \in Fd /\ sock[fd].state = "open"
  BY DEF Connect
<1>3. PICK port \in Port, ip \in {LoopbackIp(e.family), e.ip} :
        sock' = [sock EXCEPT ![fd] = [sock[fd] EXCEPT !.state = "connecting", !.peer = e,
                   !.connected_to = e, !.local = [family |-> e.family, ip |-> ip, port |-> port]]]
  BY <1>1, Zenon DEF Connect
<1>4. PICK l : l = [family |-> e.family, ip |-> ip, port |-> port]
  OBVIOUS
<1>5. l \in Endpoints /\ l.family = e.family
  <2>1. e.family \in Family /\ e.ip \in Bytes /\ port \in PortNumbers
    BY SocketAssumption DEF Endpoints, Family, Bytes, Byte
  <2>2. ip \in Bytes
    BY <2>1, IpsAreBytes
  <2> QED
    BY <1>4, <2>1, <2>2 DEF Endpoints, Family, Bytes, Byte
<1>6. PICK b \in Sockets : b = sock[fd] /\ SocketExact(b) /\ b.state = "open"
  BY <1>2 DEF SocketInv, SocketsExact
<1>7. PICK s : s = [b EXCEPT !.state = "connecting", !.peer = e, !.connected_to = e, !.local = l]
  OBVIOUS
<1>8. s \in Sockets /\ SocketExact(s)
  BY <1>5, <1>6, <1>7, ConnectingExact
<1>9. sock' = [sock EXCEPT ![fd] = s] /\ queue' = queue
  BY <1>3, <1>4, <1>6, <1>7, Zenon DEF Connect
<1>10. SocketsExact' /\ QueuesExact'
  BY <1>2, <1>8, <1>9, SocketStep DEF SocketInv
<1> QED
  BY <1>10, AddressKept DEF SocketInv, Connect

\* Asking for the error takes it.
LEMMA GetSocketErrorInv ==
  ASSUME SocketInv, NEW fd, GetSocketError(fd) PROVE SocketInv'
<1>1. fd \in Fd
  BY DEF GetSocketError
<1>2. PICK b \in Sockets : b = sock[fd] /\ SocketExact(b)
  BY <1>1 DEF SocketInv, SocketsExact
<1>3. PICK s : s = [b EXCEPT !.error = FALSE]
  OBVIOUS
<1>4. s \in Sockets /\ SocketExact(s)
  BY <1>2, <1>3, ResetExact
<1>5. s.state = b.state /\ s.family = b.family /\ s.local = b.local
  BY <1>3 DEF Sockets
<1>6. sock' = [sock EXCEPT ![fd] = s] /\ queue' = queue
  BY <1>2, <1>3 DEF GetSocketError
<1>7. SocketsExact' /\ QueuesExact'
  BY <1>1, <1>2, <1>4, <1>5, <1>6, SocketStep DEF SocketInv
<1> QED
  BY <1>7, AddressKept DEF SocketInv, GetSocketError

\* A connection is accepted: it leaves the queue, and the InetAddress shows its client.
LEMMA AcceptedInv ==
  ASSUME SocketInv, NEW fd, Accepted(fd) PROVE SocketInv'
<1>1. fd \in Fd /\ sock[fd].state = "listening" /\ queue[fd] # <<>>
  BY DEF Accepted
<1>2. PICK q \in Seq(Endpoints) : q = queue[fd] /\ q # <<>>
  BY <1>1 DEF SocketInv, QueuesExact
<1>3. PICK e \in Endpoints : e = Head(q) /\ e = q[1] /\ 1 \in 1 .. Len(q)
  BY <1>2, HeadTailProperties
<1>4. PICK l : l = Specific(sock[fd].local)
  OBVIOUS
<1>5. l \in Endpoints /\ l.family = sock[fd].family
  BY <1>1, <1>4, SpecificRule DEF SocketInv, SocketsExact, SocketExact
<1>6. e.family = sock[fd].family /\ e # l
  BY <1>1, <1>2, <1>3, <1>4 DEF SocketInv, QueuesExact
<1>7. PICK new \in Fd :
        /\ sock[new].state = "free"
        /\ sock' = [sock EXCEPT ![new] = [Free EXCEPT !.state = "connected", !.family = e.family,
                      !.peer = e, !.connected_to = e, !.local = l]]
        /\ queue' = [queue EXCEPT ![fd] = Tail(queue[fd])]
        /\ peer_addr' = AcceptedAddress(new, AddressOf(e)) /\ shown' = e
  BY <1>2, <1>3, <1>4, Zenon DEF Accepted, FreeFds
<1>8. PICK s : s = [Free EXCEPT !.state = "connected", !.family = e.family, !.peer = e,
                      !.connected_to = e, !.local = l]
  OBVIOUS
<1>9. s \in Sockets /\ SocketExact(s)
  BY <1>5, <1>6, <1>8, AcceptedExact, Zenon
<1>10. sock' = [sock EXCEPT ![new] = s]
  BY <1>7, <1>8, Zenon
<1>11. sock' \in [Fd -> Sockets] /\ sock'[new] = s /\ \A f \in Fd : f # new => sock'[f] = sock[f]
  BY <1>9, <1>10 DEF SocketInv, SocketsExact
<1>12. SocketsExact'
  BY <1>9, <1>11 DEF SocketInv, SocketsExact
<1>13. QueuesExact'
  <2>1. PICK r \in Seq(Endpoints) : r = Tail(q)
    BY <1>2, HeadTailProperties
  <2>2. queue \in [Fd -> Seq(Endpoints)] /\ queue' = [queue EXCEPT ![fd] = r]
    BY <1>2, <1>7, <2>1 DEF SocketInv, QueuesExact
  <2>3. /\ queue' \in [Fd -> Seq(Endpoints)] /\ queue'[fd] = r
        /\ \A f \in Fd : f # fd => queue'[f] = queue[f]
    BY <1>1, <2>2
  <2>4. \A i \in 1 .. Len(r) : \E j \in 1 .. Len(q) : r[i] = q[j]
    <3>1. Len(q) \in Nat /\ Len(r) = Len(q) - 1 /\ \A i \in 1 .. Len(r) : r[i] = q[i + 1]
      BY <1>2, <2>1, HeadTailProperties
    <3> QED
      BY <3>1
  <2>5. fd # new /\ sock'[fd] = sock[fd]
    BY <1>1, <1>7, <1>11
  <2>6. \A i \in 1 .. Len(r) : r[i].family = sock[fd].family /\ r[i] # Specific(sock[fd].local)
    BY <1>1, <1>2, <2>4 DEF SocketInv, QueuesExact
  <2>7. queue[new] = <<>>
    BY <1>7 DEF SocketInv, QueuesExact
  <2>8. ASSUME NEW f \in Fd
        PROVE  /\ queue'[f] # <<>> => sock'[f].state = "listening"
               /\ \A i \in 1 .. Len(queue'[f]) : queue'[f][i].family = sock'[f].family
                                               /\ queue'[f][i] # Specific(sock'[f].local)
    <3>1. CASE f = fd
      BY <1>1, <2>3, <2>5, <2>6, <3>1
    <3>2. CASE f = new
      <4>1. queue'[f] = <<>>
        BY <2>3, <2>5, <2>7, <3>2
      <4> QED
        BY <4>1
    <3>3. CASE f # fd /\ f # new
      <4>1. sock'[f] = sock[f] /\ queue'[f] = queue[f]
        BY <1>11, <2>3, <3>3
      <4> QED
        BY <4>1 DEF SocketInv, QueuesExact
    <3> QED
      BY <3>1, <3>2, <3>3
  <2> QED
    BY <2>3, <2>8 DEF QueuesExact
<1>14. AddressExact'
  <2>1. new >= 0
    BY SocketAssumption
  <2>2. peer_addr' = AddressOf(e)
    BY <1>7, <2>1 DEF AcceptedAddress, SetSockAddrInet6
  <2>3. IpPortToString(AddressOf(e)) = [ip |-> e.ip, port |-> e.port]
    BY AddressOfRules, AddressPrints
  <2> QED
    BY <1>7, <2>2, <2>3, AddressOfRules DEF AddressExact
<1> QED
  BY <1>12, <1>13, <1>14 DEF SocketInv

\* The InetAddress takes an address of IPv4 over one of any family.
LEMMA UsePeerAddrInv ==
  ASSUME SocketInv, NEW e \in Remote, UsePeerAddr(e) PROVE SocketInv'
<1>1. e \in Endpoints /\ e.family = "AF_INET" /\ shown' = e
  BY SocketAssumption DEF UsePeerAddr
<1>2. PICK a \in Addresses : a = peer_addr
  BY DEF SocketInv, AddressExact
<1>3. PICK c \in Addresses : c = AddressOf(e) /\ c.family = e.family /\ c.in = e.ip
                             /\ c.port = NetPort(e.port)
  BY <1>1, AddressOfRules
<1>4. PICK r : r = [a EXCEPT !.family = c.family, !.port = c.port, !.in = c.in]
  OBVIOUS
<1>5. r \in Addresses /\ r.family = c.family /\ r.port = c.port /\ r.in = c.in
  BY <1>4 DEF Addresses
<1>6. peer_addr' = r
  BY <1>2, <1>3, <1>4, Zenon DEF UsePeerAddr, SetSockAddrInet4
<1>7. IpPortToString(r) = [ip |-> e.ip, port |-> e.port]
  BY <1>1, <1>3, <1>5, AddressPrints
<1>8. AddressExact'
  BY <1>1, <1>5, <1>6, <1>7 DEF AddressExact
<1> QED
  BY <1>8, SocketsKept DEF SocketInv, UsePeerAddr

\* Every step keeps the invariant.
LEMMA SocketNextInv == SocketInv /\ [SocketNext]_socket_vars => SocketInv'
<1> SUFFICES ASSUME SocketInv, [SocketNext]_socket_vars PROVE SocketInv'
  OBVIOUS
<1>1. CASE UNCHANGED <<sock, queue, peer_addr, shown>>
  BY <1>1, SocketsKept, AddressKept DEF SocketInv
<1>2. ASSUME NEW fd, \/ ShutdownWrite(fd) \/ SetReusePort(fd) \/ AskSelfConnect(fd)
                     \/ AcceptFails(fd)
      PROVE  UNCHANGED <<sock, queue, peer_addr, shown>>
  BY <1>2 DEF ShutdownWrite, SetReusePort, AskSelfConnect, AcceptFails, AcceptedAddress
<1>3. ASSUME NEW g \in Given, BadText(g) PROVE UNCHANGED <<sock, queue, peer_addr, shown>>
  BY <1>3 DEF BadText
<1>4. ASSUME SocketOver \/ UNCHANGED socket_vars PROVE UNCHANGED <<sock, queue, peer_addr, shown>>
  BY <1>4 DEF SocketOver, socket_vars
<1>5. ASSUME NEW family \in {"AF_INET", "AF_INET6"}, Create(family) PROVE SocketInv'
  BY <1>5, CreateInv DEF Family
<1>6. ASSUME NEW fd, \/ DestroySocket(fd) \/ Listen(fd) \/ Accept(fd) \/ ShutdownWrite(fd)
                     \/ SetReusePort(fd) \/ GetSocketError(fd) \/ AskSelfConnect(fd)
                     \/ \E g \in Given : BindAddress(fd, g) \/ Connect(fd, g)
      PROVE  SocketInv'
  BY <1>1, <1>2, <1>6, DestroySocketInv, ListenInv, AcceptedInv, GetSocketErrorInv, BindAddressInv,
     ConnectInv, Zenon DEF Accept
<1>7. ASSUME NEW fd \in Fd, PeerResets(fd) \/ ConnectEnds(fd) PROVE SocketInv'
  BY <1>7, PeerResetsInv, ConnectEndsInv
<1> QED
  BY <1>1, <1>3, <1>4, <1>5, <1>6, <1>7, ClientConnectsInv, UsePeerAddrInv, Zenon DEF SocketNext

-----------------------------------------------------------------------------

\* The inductive invariant holds for any descriptors, ports, addresses and
\* clients (socket.cpp:10-97, socket_ops.cpp:14-175, inet_address.cpp:14-117).
THEOREM SocketInvariance == SocketSpec => []SocketInv
BY SocketInitInv, SocketNextInv, PTL DEF SocketSpec

\* A socket is bound and connected where the InetAddress said, and Accept shows
\* the client, for every port, address and family (inet_address.cpp:14-73,
\* socket.cpp:61-68, socket_ops.cpp:88-130).
THEOREM EndpointsAreExact == SocketSpec => []EndpointsExact
<1>1. SocketInv => EndpointsExact
  BY DEF SocketInv, SocketsExact, SocketExact, AddressExact, EndpointsExact
<1> QED
  BY <1>1, SocketInvariance, PTL

\* Comparing the bytes of the two addresses tells exactly whether a socket has
\* met itself (socket_ops.cpp:161-175).
THEOREM SelfConnectIsExact == SocketSpec => []SelfConnectExact
<1>1. SocketInv => SelfConnectExact
  <2> SUFFICES ASSUME SocketInv, NEW fd \in Fd, sock[fd].state = "connected"
               PROVE  IsSelfConnect(fd) <=> sock[fd].self
    BY DEF SelfConnectExact
  <2>1. PICK l \in Endpoints, p \in Endpoints :
          l = sock[fd].local /\ p = sock[fd].peer /\ l.family = p.family
    BY DEF SocketInv, SocketsExact, SocketExact
  <2>2. sock[fd].self <=> l = p
    BY <2>1 DEF SocketInv, SocketsExact, SocketExact
  <2>3. IsSelfConnect(fd) <=>
          /\ AddressOf(l).port = AddressOf(p).port
          /\ \/ AddressOf(l).family = "AF_INET" /\ AddressOf(l).in = AddressOf(p).in
             \/ AddressOf(l).family = "AF_INET6" /\ AddressOf(l).in6 = AddressOf(p).in6
    BY <2>1, Zenon DEF IsSelfConnect, GetLocalAddr, GetPeerAddr
  <2> QED
    BY <2>1, <2>2, <2>3, SameAddress, Zenon
<1> QED
  BY <1>1, SocketInvariance, PTL
=============================================================================
