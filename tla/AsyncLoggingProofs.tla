-------------------------- MODULE AsyncLoggingProofs --------------------------
(***************************************************************************)
(* Proofs about AsyncLogging for every buffer size, drop limit, number of  *)
(* messages and number of restarts: no buffer overflows, no assertion of   *)
(* ThreadFunc fails, the first run begins with running_ set, and the       *)
(* double buffering implements the queue of LogSink.                       *)
(***************************************************************************)
EXTENDS AsyncLogging, SequenceTheorems, WellFoundedInduction, TLAPS

\* Between rounds the back end has two empty spares and nothing to write.
SparesReady ==
  thread \in {"loop", "lock", "wait"} =>
    /\ new_buffer_1 \in Buffer /\ new_buffer_1.used = 0
    /\ new_buffer_2 \in Buffer /\ new_buffer_2.used = 0
    /\ buffers_to_write = <<>>

\* The front end gives its spare up only for a buffer it has queued: this is
\* why the back end always takes at least two buffers when it owes two.
SpareUsedIsQueued == next_buffer = None => buffers # <<>>

\* After the swap there is a buffer to write for each spare given away.
EnoughTaken ==
  thread = "write" =>
    /\ new_buffer_1 = None
    /\ buffers_to_write # <<>>
    /\ new_buffer_2 = None => Len(buffers_to_write) >= 2
    /\ new_buffer_2 # None => new_buffer_2.used = 0

\* The inductive invariant.
IInv == TypeOK /\ SparesReady /\ SpareUsedIsQueued /\ EnoughTaken

-----------------------------------------------------------------------------

\* A fresh buffer is an empty buffer.
LEMMA EmptyBufferType == EmptyBuffer \in Buffer /\ EmptyBuffer.used = 0
BY LoggingAssumption DEF EmptyBuffer, Buffer

\* FixedBuffer::Append keeps the cursor inside the array.
LEMMA BufferAppendType ==
  ASSUME NEW b \in Buffer, NEW m \in 1 .. MaxMessages, NEW len \in Lengths
  PROVE  BufferAppend(b, m, len) \in Buffer
<1> USE LoggingAssumption
<1>1. b.data \in Seq(1 .. MaxMessages) /\ b.used \in 0 .. Capacity - 1 /\ len \in Nat
  BY DEF Buffer
<1>2. CASE Avail(b) > len
  <2>1. Append(b.data, m) \in Seq(1 .. MaxMessages)
    BY <1>1
  <2>2. b.used + len \in 0 .. Capacity - 1
    BY <1>1, <1>2 DEF Avail
  <2> QED
    BY <1>2, <2>1, <2>2 DEF BufferAppend, Buffer
<1>3. CASE ~(Avail(b) > len)
  BY <1>3 DEF BufferAppend
<1> QED
  BY <1>2, <1>3

\* The queue of full buffers with the current one behind it.
LEMMA PushCurrentType ==
  ASSUME TypeOK
  PROVE  /\ PushCurrent \in Seq(Buffer) /\ PushCurrent # <<>>
         /\ Len(PushCurrent) = Len(buffers) + 1
BY DEF TypeOK, PushCurrent

\* AsyncLogging::Append keeps the invariant.
LEMMA LogAppendInv ==
  ASSUME IInv, NEW len \in Lengths, LogAppend(len)
  PROVE  IInv'
<1> USE LoggingAssumption, NoneAssumption
<1>t. TypeOK
  BY DEF IInv
<1>m. appended + 1 \in 1 .. MaxMessages /\ appended' = appended + 1
  BY <1>t DEF LogAppend, TypeOK
<1>f. /\ appended' \in 0 .. MaxMessages /\ oversize' \subseteq 1 .. MaxMessages
      /\ UNCHANGED <<locals, control, thread>>
  BY <1>m, <1>t DEF LogAppend, TypeOK
<1>1. CASE Avail(current_buffer) > len
  <2>1. /\ current_buffer' = BufferAppend(current_buffer, appended + 1, len)
        /\ UNCHANGED <<next_buffer, buffers>>
    BY <1>1 DEF LogAppend
  <2>2. current_buffer' \in Buffer
    BY <2>1, <1>m, <1>t, BufferAppendType DEF TypeOK
  <2> QED
    BY <2>1, <2>2, <1>f DEF IInv, TypeOK, SparesReady, SpareUsedIsQueued,
       EnoughTaken, locals, control
<1>2. CASE ~(Avail(current_buffer) > len)
  <2> DEFINE fresh == IF next_buffer # None THEN next_buffer ELSE EmptyBuffer
  <2>1. /\ current_buffer' = BufferAppend(fresh, appended + 1, len)
        /\ buffers' = PushCurrent /\ next_buffer' = None
    BY <1>2 DEF LogAppend
  <2>2. fresh \in Buffer
    BY <1>t, EmptyBufferType DEF TypeOK
  <2>3. current_buffer' \in Buffer
    BY <2>1, <2>2, <1>m, BufferAppendType
  <2>4. buffers' \in Seq(Buffer) /\ buffers' # <<>>
    BY <2>1, <1>t, PushCurrentType
  <2> QED
    BY <2>1, <2>3, <2>4, <1>f DEF IInv, TypeOK, SparesReady,
       SpareUsedIsQueued, EnoughTaken, locals, control
<1> QED
  BY <1>1, <1>2

\* The swap under mutex_.
LEMMA SwapInv ==
  ASSUME IInv, thread \in {"lock", "wait"}, SwapBuffers,
         UNCHANGED <<control, file, appended, oversize>>
  PROVE  IInv'
<1> USE LoggingAssumption, NoneAssumption
<1>1. /\ new_buffer_1 \in Buffer /\ new_buffer_2 \in Buffer
      /\ new_buffer_2.used = 0
  BY DEF IInv, SparesReady
<1>2. /\ buffers_to_write' \in Seq(Buffer) /\ buffers_to_write' # <<>>
      /\ Len(buffers_to_write') = Len(buffers) + 1
      /\ buffers' = <<>> /\ buffers' \in Seq(Buffer) /\ thread' = "write"
      /\ new_buffer_1' = None /\ current_buffer' \in Buffer
  BY <1>1, PushCurrentType DEF SwapBuffers, IInv
<1>3. CASE next_buffer = None
  <2>1. next_buffer' \in Buffer /\ next_buffer' # None /\ new_buffer_2' = None
    BY <1>1, <1>3 DEF SwapBuffers, NeedsSpare
  <2>2. Len(buffers) >= 1
    BY <1>3 DEF IInv, SpareUsedIsQueued, TypeOK
  <2>3. Len(buffers_to_write') >= 2
    BY <1>2, <2>2 DEF IInv, TypeOK
  <2> QED
    BY <1>2, <2>1, <2>3 DEF IInv, TypeOK, SparesReady, SpareUsedIsQueued,
       EnoughTaken, control
<1>4. CASE next_buffer # None
  <2>1. next_buffer' = next_buffer /\ new_buffer_2' = new_buffer_2
    BY <1>4 DEF SwapBuffers, NeedsSpare
  <2> QED
    BY <1>1, <1>2, <1>4, <2>1 DEF IInv, TypeOK, SparesReady,
       SpareUsedIsQueued, EnoughTaken, control
<1> QED
  BY <1>3, <1>4

\* Every other step of the logging thread keeps the invariant.
LEMMA LoggerInv ==
  ASSUME IInv, Logger
  PROVE  IInv'
<1> USE LoggingAssumption, NoneAssumption
<1>1. CASE LoggerBegin
  BY <1>1, EmptyBufferType DEF LoggerBegin, IInv, TypeOK, SparesReady,
     SpareUsedIsQueued, EnoughTaken, shared
<1>2. CASE LoggerTest
  BY <1>2 DEF LoggerTest, IInv, TypeOK, SparesReady, SpareUsedIsQueued,
     EnoughTaken, shared, locals, control
<1>3. CASE LoggerWait
  BY <1>3 DEF LoggerWait, IInv, TypeOK, SparesReady, SpareUsedIsQueued,
     EnoughTaken, shared, locals, control
<1>4. CASE LoggerSwap \/ LoggerWake
  BY <1>4, SwapInv DEF LoggerSwap, LoggerWake
<1>5. CASE LoggerWrite
  <2>1. /\ new_buffer_1' = EmptyBuffer
        /\ new_buffer_2' \in {EmptyBuffer, new_buffer_2}
        /\ new_buffer_2' # None
        /\ buffers_to_write' = <<>> /\ thread' = "loop"
        /\ UNCHANGED <<shared, control, appended, oversize>>
    BY <1>5, EmptyBufferType DEF LoggerWrite, Reset, IInv, EnoughTaken
  <2>2. new_buffer_2' \in Buffer /\ new_buffer_2'.used = 0
    BY <1>5, <2>1, EmptyBufferType DEF LoggerWrite, IInv, TypeOK, EnoughTaken
  <2> QED
    BY <2>1, <2>2, EmptyBufferType DEF IInv, TypeOK, SparesReady,
       SpareUsedIsQueued, EnoughTaken, shared, control
<1> QED
  BY <1>1, <1>2, <1>3, <1>4, <1>5 DEF Logger

\* Start and Stop keep the invariant.
LEMMA OwnerInv ==
  ASSUME IInv, Start \/ Stop \/ OwnerReturns
  PROVE  IInv'
<1> USE LoggingAssumption, NoneAssumption
<1>1. CASE Start
  <2>1. CASE Debug /\ started
    <3>1. /\ runs' = runs + 1 /\ runs < MaxRuns /\ running' = TRUE /\ fault' = "Start"
          /\ UNCHANGED <<started, thread, owner, shared, locals, latch, appended, oversize>>
      BY <1>1, <2>1 DEF Start
    <3> QED
      BY <3>1 DEF IInv, TypeOK, SparesReady, SpareUsedIsQueued, EnoughTaken,
         shared, locals
  <2>2. CASE ~(Debug /\ started)
    <3>1. /\ runs' = runs + 1 /\ runs < MaxRuns /\ running' = TRUE
          /\ started' = TRUE /\ thread' = "born" /\ owner' = "starting"
          /\ UNCHANGED <<fault, shared, locals, latch, appended, oversize>>
      BY <1>1, <2>2 DEF Start
    <3> QED
      BY <3>1 DEF IInv, TypeOK, SparesReady, SpareUsedIsQueued, EnoughTaken,
         shared, locals
  <2> QED
    BY <2>1, <2>2
<1>2. CASE Stop
  <2>1. /\ running' = FALSE /\ owner' = "stopping"
        /\ UNCHANGED <<shared, locals, started, latch, fault, runs, thread,
                       appended, oversize>>
    BY <1>2, Zenon DEF Stop, StopFlag
  <2>2. running' \in BOOLEAN /\ owner' \in {"stopped", "starting", "started", "stopping"}
    BY <2>1, Zenon
  <2>3. TypeOK'
    BY <2>1, <2>2, Zenon DEF IInv, TypeOK, shared, locals
  <2>4. SparesReady' /\ SpareUsedIsQueued' /\ EnoughTaken'
    BY <2>1 DEF IInv, TypeOK, SparesReady, SpareUsedIsQueued, EnoughTaken, shared, locals
  <2> QED
    BY <2>3, <2>4 DEF IInv
<1>3. CASE StartReturn
  BY <1>3 DEF StartReturn, IInv, TypeOK, SparesReady, SpareUsedIsQueued,
     EnoughTaken, shared, locals
<1>4. CASE StopReturn
  BY <1>4 DEF StopReturn, IInv, TypeOK, SparesReady, SpareUsedIsQueued,
     EnoughTaken, shared, locals
<1> QED
  BY <1>1, <1>2, <1>3, <1>4 DEF OwnerReturns

\* The constructor establishes the invariant.
LEMMA InitInv ==
  ASSUME Init
  PROVE  IInv
<1> USE LoggingAssumption, NoneAssumption
<1>1. TypeOK
  <2>1. <<>> \in Seq(Buffer) /\ 0 \in 0 .. MaxMessages /\ 0 \in 0 .. MaxRuns
    OBVIOUS
  <2>2. running \in BOOLEAN /\ started \in BOOLEAN /\ latch \in BOOLEAN
    BY Zenon DEF Init
  <2> QED
    BY <2>1, <2>2, EmptyBufferType DEF Init, TypeOK
<1>2. next_buffer # None
  BY EmptyBufferType DEF Init
<1> QED
  BY <1>1, <1>2 DEF Init, IInv, SparesReady, SpareUsedIsQueued, EnoughTaken

\* Every step keeps the invariant.
LEMMA NextInv ==
  ASSUME IInv, [Next]_vars
  PROVE  IInv'
<1>1. ASSUME NEW len \in Lengths, LogAppend(len) PROVE IInv'
  BY <1>1, LogAppendInv
<1>2. CASE Over \/ UNCHANGED vars
  <2>1. UNCHANGED <<shared, locals, control, thread, appended, oversize>>
    BY <1>2 DEF Over, vars
  <2> QED
    BY <2>1 DEF shared, locals, control, IInv, TypeOK, SparesReady,
       SpareUsedIsQueued, EnoughTaken
<1> QED
  BY <1>1, <1>2, LoggerInv, OwnerInv DEF Next

\* The invariant holds in every reachable state.
THEOREM Invariance == Spec => []IInv
<1>1. Init => IInv
  BY InitInv
<1>2. IInv /\ [Next]_vars => IInv'
  BY NextInv
<1> QED
  BY <1>1, <1>2, PTL DEF Spec

\* Every variable keeps its type; above all no FixedBuffer is filled beyond
\* its array (fixed_buffer.h:22-27, async_logging.cpp:46-55).
THEOREM TypeCorrect == Spec => []TypeOK
<1>1. IInv => TypeOK
  BY DEF IInv
<1> QED
  BY <1>1, Invariance, PTL

\* No assertion of ThreadFunc about its buffers ever fails, however many
\* messages of whatever size arrive (async_logging.cpp:71-74, 87, 105, 112).
THEOREM NoAssertionFails == Spec => []AssertionsHold
<1>1. IInv => AssertionsHold
  <2> SUFFICES ASSUME IInv PROVE AssertionsHold
    OBVIOUS
  <2> USE LoggingAssumption, NoneAssumption
  <2>1. ASSUME thread = "lock"
        PROVE  /\ new_buffer_1 # None /\ new_buffer_1.used = 0
               /\ new_buffer_2 # None /\ new_buffer_2.used = 0
               /\ buffers_to_write = <<>>
    BY <2>1 DEF IInv, SparesReady
  <2>2. ASSUME thread = "write"
        PROVE  /\ buffers_to_write # <<>>
               /\ Len(Trim(buffers_to_write)) >= 1
               /\ new_buffer_2 = None => Len(Trim(buffers_to_write)) >= 2
    <3>1. buffers_to_write \in Seq(Buffer) /\ Len(buffers_to_write) >= 1
      BY <2>2 DEF IInv, TypeOK, EnoughTaken
    <3>2. CASE Len(buffers_to_write) > DropLimit
      BY <3>1, <3>2, <2>2 DEF Trim, IInv, EnoughTaken
    <3>3. CASE ~(Len(buffers_to_write) > DropLimit)
      BY <3>1, <3>3, <2>2 DEF Trim, IInv, EnoughTaken
    <3> QED
      BY <3>2, <3>3
  <2>3. Len(Trim(buffers_to_write)) \in Nat
    <3>1. buffers_to_write \in Seq(Buffer)
      BY DEF IInv, TypeOK
    <3> QED
      BY <3>1 DEF Trim
  <2> QED
    BY <2>1, <2>2, <2>3 DEF AssertionsHold
<1> QED
  BY <1>1, Invariance, PTL

-----------------------------------------------------------------------------
(* The messages of a list of buffers.  Contents is a recursive function;   *)
(* what it computes is proved by looking at the least counterexample.      *)

Messages == 1 .. MaxMessages

\* Every non-empty set of naturals has a least element.
LEMMA LeastNat ==
  ASSUME NEW S \in SUBSET Nat, S # {}
  PROVE  \E m \in S : \A i \in S : m <= i
<1>1. PICK x \in S : \A y \in S : ~(<<y, x>> \in OpToRel(<, Nat))
  BY WFMin, NatLessThanWellFounded
<1>2. \A y \in S : ~(y < x)
  BY <1>1 DEF OpToRel
<1> QED
  BY <1>2

\* f is the recursive function of Contents, up to n.
Sums(s, n, f) == f = [i \in 0 .. n |-> IF i = 0 THEN <<>> ELSE f[i - 1] \o s[i].data]

\* There is such a function for every n.
LEMMA SumsExist ==
  ASSUME NEW s, NEW n \in Nat
  PROVE  \E f : Sums(s, n, f)
<1> DEFINE S == {k \in Nat : ~\E f : Sums(s, k, f)}
<1>1. SUFFICES ASSUME S # {} PROVE FALSE
  OBVIOUS
<1>2. PICK m \in S : \A k \in S : m <= k
  BY <1>1, LeastNat
<1>3. m # 0
  <2> DEFINE f == [i \in 0 .. 0 |-> <<>>]
  <2>1. Sums(s, 0, f)
    BY DEF Sums
  <2> QED
    BY <1>2, <2>1
<1>4. m - 1 \in Nat /\ m \in Nat /\ m - 1 \notin S
  BY <1>2, <1>3
<1>5. PICK f : Sums(s, m - 1, f)
  BY <1>4
<1>6. PICK g : g = [i \in 0 .. m |-> IF i = m THEN f[m - 1] \o s[m].data ELSE f[i]]
  OBVIOUS
<1>7. \A i \in 0 .. m : g[i] = IF i = 0 THEN <<>> ELSE g[i - 1] \o s[i].data
  <2> SUFFICES ASSUME NEW i \in 0 .. m
               PROVE  g[i] = IF i = 0 THEN <<>> ELSE g[i - 1] \o s[i].data
    OBVIOUS
  <2>1. \A j \in 0 .. m - 1 : /\ g[j] = f[j]
                              /\ f[j] = IF j = 0 THEN <<>> ELSE f[j - 1] \o s[j].data
    <3>1. \A j \in 0 .. m - 1 : j \in 0 .. m /\ j # m
      BY <1>4
    <3>2. \A j \in 0 .. m - 1 : g[j] = f[j]
      BY <1>6, <3>1
    <3>3. \A j \in 0 .. m - 1 : f[j] = IF j = 0 THEN <<>> ELSE f[j - 1] \o s[j].data
      BY <1>5 DEF Sums
    <3> QED
      BY <3>2, <3>3
  <2>2. CASE i = m
    <3>1. m \in 0 .. m /\ m - 1 \in 0 .. m - 1
      BY <1>3, <1>4
    <3>2. g[m] = f[m - 1] \o s[m].data
      BY <1>6, <3>1
    <3>3. g[m - 1] = f[m - 1]
      BY <2>1, <3>1
    <3> QED
      BY <1>3, <2>2, <3>2, <3>3
  <2>3. CASE i \in 0 .. m - 1
    BY <1>4, <2>1, <2>3
  <2> QED
    BY <1>4, <2>2, <2>3
<1>8. g = [i \in 0 .. m |-> IF i = 0 THEN <<>> ELSE g[i - 1] \o s[i].data]
  BY <1>6, <1>7
<1>9. Sums(s, m, g)
  BY <1>8 DEF Sums
<1> QED
  BY <1>2, <1>9

\* Contents is given by it.
LEMMA ContentsFcn ==
  ASSUME NEW s \in Seq(Buffer)
  PROVE  \E f : Sums(s, Len(s), f) /\ Contents(s) = f[Len(s)]
<1>1. \E f : Sums(s, Len(s), f)
  BY SumsExist
<1>2. \E f : f = [i \in 0 .. Len(s) |-> IF i = 0 THEN <<>> ELSE f[i - 1] \o s[i].data]
  BY <1>1 DEF Sums
<1> QED
  BY <1>2 DEF Contents, Sums

\* Lists with the same beginning have the same messages in it.
LEMMA SumsSame ==
  ASSUME NEW s, NEW u, NEW n \in Nat, NEW m \in Nat, NEW k \in Nat, k <= n, k <= m,
         NEW f, NEW g, Sums(s, n, f), Sums(u, m, g), \A i \in 1 .. k : s[i] = u[i]
  PROVE  f[k] = g[k]
<1> DEFINE S == {i \in 0 .. k : f[i] # g[i]}
<1>1. SUFFICES ASSUME S # {} PROVE FALSE
  OBVIOUS
<1>2. PICK j \in S : \A i \in S : j <= i
  <2>1. S \in SUBSET Nat
    OBVIOUS
  <2> QED
    BY <1>1, <2>1, LeastNat
<1>3. /\ \A i \in 0 .. k : f[i] = IF i = 0 THEN <<>> ELSE f[i - 1] \o s[i].data
      /\ \A i \in 0 .. k : g[i] = IF i = 0 THEN <<>> ELSE g[i - 1] \o u[i].data
  <2>1. \A i \in 0 .. k : i \in 0 .. n /\ i \in 0 .. m
    OBVIOUS
  <2> QED
    BY <2>1 DEF Sums
<1>4. j \in 0 .. k /\ f[j] # g[j] /\ j # 0
  BY <1>2, <1>3
<1>5. j - 1 \in 0 .. k /\ j \in 1 .. k /\ ~(j <= j - 1)
  BY <1>4
<1>6. f[j - 1] = g[j - 1]
  BY <1>2, <1>5
<1> QED
  BY <1>3, <1>4, <1>5, <1>6

\* A buffer in a list holds a sequence of messages.
LEMMA BufferData ==
  ASSUME NEW s \in Seq(Buffer)
  PROVE  Len(s) \in Nat /\ \A i \in 1 .. Len(s) : s[i].data \in Seq(Messages)
<1>1. Len(s) \in Nat
  BY LenProperties
<1>2. \A b \in Buffer : b.data \in Seq(Messages)
  BY DEF Buffer, Messages
<1>3. \A i \in 1 .. Len(s) : s[i] \in Buffer
  BY ElementOfSeq
<1> QED
  BY <1>1, <1>2, <1>3

\* What the buffers hold is a sequence of messages.
LEMMA SumsType ==
  ASSUME NEW s \in Seq(Buffer), NEW f, Sums(s, Len(s), f), NEW k \in 0 .. Len(s)
  PROVE  f[k] \in Seq(Messages)
<1> DEFINE n == Len(s)
           S == {i \in 0 .. n : f[i] \notin Seq(Messages)}
<1>0. n \in Nat /\ \A i \in 1 .. n : s[i].data \in Seq(Messages)
  BY BufferData
<1>1. SUFFICES ASSUME S # {} PROVE FALSE
  OBVIOUS
<1>2. PICK j \in S : \A i \in S : j <= i
  <2>1. S \in SUBSET Nat
    BY <1>0
  <2> QED
    BY <1>1, <2>1, LeastNat
<1>3. \A i \in 0 .. n : f[i] = IF i = 0 THEN <<>> ELSE f[i - 1] \o s[i].data
  BY DEF Sums
<1> HIDE DEF n
<1>4. j \in 0 .. n /\ f[j] \notin Seq(Messages) /\ j # 0
  <2>1. <<>> \in Seq(Messages)
    BY EmptySeq
  <2> QED
    BY <1>2, <1>3, <2>1
<1>5. j - 1 \in 0 .. n /\ j \in 1 .. n /\ ~(j <= j - 1)
  BY <1>0, <1>4
<1>6. f[j - 1] \in Seq(Messages)
  BY <1>2, <1>5
<1>7. f[j - 1] \o s[j].data \in Seq(Messages)
  BY <1>0, <1>5, <1>6, ConcatProperties
<1> QED
  BY <1>3, <1>4, <1>7

\* The order in which messages are concatenated does not matter.
LEMMA MessagesAssociative ==
  ASSUME NEW a \in Seq(Messages), NEW b \in Seq(Messages), NEW c \in Seq(Messages)
  PROVE  (a \o b) \o c = a \o (b \o c)
BY ConcatAssociative

\* The messages of the first k buffers come first.
LEMMA SumsPrefix ==
  ASSUME NEW s \in Seq(Buffer), NEW f, Sums(s, Len(s), f), NEW k \in 0 .. Len(s)
  PROVE  \E r \in Seq(Messages) : f[Len(s)] = f[k] \o r
<1> DEFINE n == Len(s)
           S == {i \in k .. n : ~\E r \in Seq(Messages) : f[i] = f[k] \o r}
<1>0. n \in Nat /\ k \in Nat /\ k <= n /\ \A i \in 1 .. n : s[i].data \in Seq(Messages)
  BY BufferData
<1>1. SUFFICES ASSUME S # {} PROVE FALSE
  <2>1. n \in k .. n
    BY <1>0
  <2> QED
    BY <2>1
<1>2. PICK j \in S : \A i \in S : j <= i
  <2>1. S \in SUBSET Nat
    BY <1>0
  <2> QED
    BY <1>1, <2>1, LeastNat
<1>3. \A i \in 0 .. n : /\ f[i] = IF i = 0 THEN <<>> ELSE f[i - 1] \o s[i].data
                        /\ f[i] \in Seq(Messages)
  BY SumsType DEF Sums
<1> HIDE DEF n
<1>4. j # k
  <2>1. f[k] = f[k] \o <<>> /\ <<>> \in Seq(Messages)
    BY <1>0, <1>3, ConcatEmptySeq, EmptySeq
  <2> QED
    BY <1>2, <2>1
<1>5. /\ j - 1 \in k .. n /\ j \in 1 .. n /\ j \in 0 .. n /\ j # 0 /\ ~(j <= j - 1)
      /\ k \in 0 .. n
  BY <1>0, <1>2, <1>4
<1>6. PICK r \in Seq(Messages) : f[j - 1] = f[k] \o r
  BY <1>2, <1>5
<1>7. f[j] = (f[k] \o r) \o s[j].data
  BY <1>3, <1>5, <1>6
<1>8. (f[k] \o r) \o s[j].data = f[k] \o (r \o s[j].data)
  <2>1. f[k] \in Seq(Messages) /\ s[j].data \in Seq(Messages)
    BY <1>0, <1>3, <1>5
  <2> QED
    BY <2>1, MessagesAssociative
<1>9. r \o s[j].data \in Seq(Messages)
  BY <1>0, <1>5, ConcatProperties
<1> QED
  BY <1>2, <1>7, <1>8, <1>9

\* Contents by its recursive equations, and what is left when buffers are dropped.
LEMMA ContentsRules ==
  /\ Contents(<<>>) = <<>>
  /\ \A s \in Seq(Buffer) : Contents(s) \in Seq(Messages)
  /\ \A s \in Seq(Buffer), b \in Buffer : Contents(Append(s, b)) = Contents(s) \o b.data
  /\ \A s \in Seq(Buffer) : \A k \in 1 .. Len(s) :
       \E r \in Seq(Messages) : Contents(s) = Contents(SubSeq(s, 1, k)) \o r
<1>1. Contents(<<>>) = <<>>
  <2>1. <<>> \in Seq(Buffer) /\ Len(<<>>) = 0
    BY EmptySeq
  <2>2. PICK f : Sums(<<>>, 0, f) /\ Contents(<<>>) = f[0]
    BY <2>1, ContentsFcn
  <2> QED
    BY <2>2 DEF Sums
<1>2. ASSUME NEW s \in Seq(Buffer) PROVE Contents(s) \in Seq(Messages)
  <2>1. PICK f : Sums(s, Len(s), f) /\ Contents(s) = f[Len(s)]
    BY ContentsFcn
  <2>2. Len(s) \in 0 .. Len(s)
    BY LenProperties
  <2> QED
    BY <2>1, <2>2, SumsType
<1>3. ASSUME NEW s \in Seq(Buffer), NEW b \in Buffer
      PROVE  Contents(Append(s, b)) = Contents(s) \o b.data
  <2>1. PICK u : u = Append(s, b)
    OBVIOUS
  <2>2. PICK n \in Nat : n = Len(s)
    BY LenProperties
  <2>3. /\ u \in Seq(Buffer) /\ Len(u) = n + 1 /\ u[n + 1] = b
        /\ \A i \in 1 .. n : s[i] = u[i]
    BY <2>1, <2>2, AppendProperties
  <2>4. PICK f : Sums(s, n, f) /\ Contents(s) = f[n]
    BY <2>2, ContentsFcn
  <2>5. PICK g : Sums(u, n + 1, g) /\ Contents(u) = g[n + 1]
    BY <2>3, ContentsFcn
  <2>6. f[n] = g[n]
    BY <2>3, <2>4, <2>5, SumsSame
  <2>7. g[n + 1] = g[n] \o b.data
    <3>1. n + 1 \in 0 .. n + 1 /\ n + 1 # 0 /\ (n + 1) - 1 = n
      OBVIOUS
    <3>2. g[n + 1] = g[(n + 1) - 1] \o u[n + 1].data
      BY <2>5, <3>1 DEF Sums
    <3> QED
      BY <2>3, <3>1, <3>2
  <2> QED
    BY <2>1, <2>4, <2>5, <2>6, <2>7
<1>4. ASSUME NEW s \in Seq(Buffer), NEW k \in 1 .. Len(s)
      PROVE  \E r \in Seq(Messages) : Contents(s) = Contents(SubSeq(s, 1, k)) \o r
  <2>1. PICK u : u = SubSeq(s, 1, k)
    OBVIOUS
  <2>2. PICK n \in Nat : n = Len(s) /\ k \in Nat /\ k <= n /\ k \in 0 .. n
    BY LenProperties
  <2>3. u \in Seq(Buffer) /\ Len(u) = k /\ \A i \in 1 .. k : u[i] = s[i]
    BY <2>1, <2>2
  <2>4. PICK f : Sums(s, n, f) /\ Contents(s) = f[n]
    BY <2>2, ContentsFcn
  <2>5. PICK g : Sums(u, k, g) /\ Contents(u) = g[k]
    BY <2>3, ContentsFcn
  <2>6. g[k] = f[k]
    BY <2>2, <2>3, <2>4, <2>5, SumsSame
  <2>7. \E r \in Seq(Messages) : f[n] = f[k] \o r
    BY <2>2, <2>4, SumsPrefix
  <2> QED
    BY <2>1, <2>4, <2>5, <2>6, <2>7
<1> QED
  BY <1>1, <1>2, <1>3, <1>4

-----------------------------------------------------------------------------
(* The buffers as one queue.                                               *)

\* A spare holds nothing; between runs there is no back end; the file is a
\* sequence of messages and notices.
SparesClean == {next_buffer, new_buffer_1, new_buffer_2} \subseteq {EmptyBuffer, None}
StoppedIsOver == owner = "stopped" => thread \in {"none", "done"}
FileType == file \in Seq(Messages \cup {Notice})
SinkInv == SparesClean /\ StoppedIsOver /\ FileType

\* Taking the front part off a queue, and adding to its end.
LEMMA CutConcat ==
  ASSUME NEW a \in Seq(Messages), NEW b \in Seq(Messages)
  PROVE  /\ a \o b \in Seq(Messages)
         /\ Len(a) \in Nat /\ Len(a \o b) \in Nat /\ Len(a) <= Len(a \o b)
         /\ SubSeq(a \o b, 1, Len(a)) = a
         /\ SubSeq(a \o b, Len(a) + 1, Len(a \o b)) = b
<1>1. PICK c : c = a \o b
  OBVIOUS
<1>2. PICK k \in Nat, n \in Nat : k = Len(a) /\ n = Len(b)
  BY LenProperties
<1>3. /\ c \in Seq(Messages) /\ Len(c) = k + n
      /\ \A i \in 1 .. k + n : c[i] = IF i <= k THEN a[i] ELSE b[i - k]
  BY <1>1, <1>2, ConcatProperties
<1>4. \A i \in 1 .. k + n : c[i] \in Messages
  BY <1>3, ElementOfSeq
<1>5. SubSeq(c, 1, k) = a
  <2>1. \A i \in 1 .. k : i \in 1 .. k + n /\ i <= k /\ 1 + i - 1 = i /\ i \in 1 .. k - 1 + 1
    OBVIOUS
  <2>2. /\ SubSeq(c, 1, k) \in Seq(Messages)
        /\ Len(SubSeq(c, 1, k)) = IF 1 <= k THEN k - 1 + 1 ELSE 0
        /\ \A i \in 1 .. k - 1 + 1 : SubSeq(c, 1, k)[i] = c[1 + i - 1]
    BY <1>4, <2>1, SubSeqProperties
  <2>3. Len(SubSeq(c, 1, k)) = k
    BY <2>2
  <2>4. \A i \in 1 .. k : SubSeq(c, 1, k)[i] = a[i]
    BY <1>3, <2>1, <2>2
  <2> QED
    BY <1>2, <2>2, <2>3, <2>4, SeqEqual
<1>6. SubSeq(c, k + 1, k + n) = b
  <2>1. PICK p \in Int, q \in Int : p = k + 1 /\ q = k + n
    OBVIOUS
  <2>2. \A i \in p .. q : c[i] \in Messages
    <3>1. \A i \in p .. q : i \in 1 .. k + n
      BY <2>1
    <3> QED
      BY <1>4, <3>1
  <2>3. PICK d : d = SubSeq(c, p, q)
    OBVIOUS
  <2>4. /\ d \in Seq(Messages) /\ Len(d) = IF p <= q THEN q - p + 1 ELSE 0
        /\ \A i \in 1 .. q - p + 1 : d[i] = c[p + i - 1]
    BY <2>2, <2>3, SubSeqProperties
  <2>5. Len(d) = n
    BY <2>1, <2>4
  <2>6. \A i \in 1 .. n : /\ i \in 1 .. q - p + 1 /\ p + i - 1 = k + i /\ k + i \in 1 .. k + n
                          /\ ~(k + i <= k) /\ (k + i) - k = i
    BY <2>1
  <2>7. \A i \in 1 .. n : d[i] = b[i]
    BY <1>3, <2>4, <2>6
  <2>8. d = b
    BY <1>2, <2>4, <2>5, <2>7, SeqEqual
  <2> QED
    BY <2>1, <2>3, <2>8
<1>7. k <= k + n /\ k + n \in Nat
  OBVIOUS
<1> QED
  BY <1>1, <1>2, <1>3, <1>5, <1>6, <1>7

\* A message appended to the last part is appended to the whole.
LEMMA ConcatAppend ==
  ASSUME NEW a \in Seq(Messages), NEW b \in Seq(Messages), NEW m \in Messages
  PROVE  a \o Append(b, m) = Append(a \o b, m)
<1>0. <<m>> \in Seq(Messages)
  OBVIOUS
<1>1. PICK x : x = <<m>> /\ x \in Seq(Messages)
  BY <1>0
<1>2. Append(b, m) = b \o x
  BY <1>1, AppendIsConcat
<1>3. a \o b \in Seq(Messages)
  BY ConcatProperties
<1>4. Append(a \o b, m) = (a \o b) \o x
  BY <1>1, <1>3, AppendIsConcat
<1> QED
  BY <1>1, <1>2, <1>4, MessagesAssociative

\* The three parts of the queue are sequences of messages.
LEMMA PartsType ==
  ASSUME IInv
  PROVE  /\ (IF thread = "write" THEN Contents(buffers_to_write) ELSE <<>>) \in Seq(Messages)
         /\ Contents(buffers) \in Seq(Messages) /\ current_buffer.data \in Seq(Messages)
<1>1. /\ buffers \in Seq(Buffer) /\ buffers_to_write \in Seq(Buffer)
      /\ current_buffer.data \in Seq(Messages)
  BY DEF IInv, TypeOK, Buffer, Messages
<1>2. <<>> \in Seq(Messages)
  BY EmptySeq
<1> QED
  BY <1>1, <1>2, ContentsRules

\* Append puts the message at the end of the queue, or refuses it.
LEMMA LogAppendSink ==
  ASSUME IInv, SinkInv, NEW len \in Lengths, LogAppend(len)
  PROVE  /\ UNCHANGED file
         /\ \/ InBuffers' = InBuffers
            \/ \E m \in Messages : InBuffers' = Append(InBuffers, m)
<1> DEFINE m == appended + 1
<1>1. PICK W : W = IF thread = "write" THEN Contents(buffers_to_write) ELSE <<>>
  OBVIOUS
<1>2. PICK C : C = Contents(buffers)
  OBVIOUS
<1>3. PICK D : D = current_buffer.data
  OBVIOUS
<1>4. W \in Seq(Messages) /\ C \in Seq(Messages) /\ D \in Seq(Messages)
  BY <1>1, <1>2, <1>3, PartsType
<1>5. InBuffers = (W \o C) \o D
  BY <1>1, <1>2, <1>3 DEF InBuffers
<1>6. /\ UNCHANGED <<thread, buffers_to_write, file>>
      /\ InBuffers' = (W \o Contents(buffers')) \o current_buffer'.data
  BY <1>1 DEF LogAppend, locals, InBuffers
<1>7. m \in Messages
  BY LoggingAssumption DEF LogAppend, IInv, TypeOK, Messages
<1>8. W \o C \in Seq(Messages) /\ (W \o C) \o D \in Seq(Messages)
  BY <1>4, ConcatProperties
<1>9. CASE Avail(current_buffer) > len
  <2>1. buffers' = buffers /\ current_buffer' = BufferAppend(current_buffer, m, len)
    BY <1>9 DEF LogAppend
  <2>2. current_buffer'.data = Append(D, m)
    BY <1>3, <1>9, <2>1 DEF BufferAppend
  <2>3. (W \o C) \o Append(D, m) = Append((W \o C) \o D, m)
    <3>1. PICK X : X = W \o C /\ X \in Seq(Messages)
      BY <1>8
    <3> QED
      BY <1>4, <1>7, <3>1, ConcatAppend
  <2>4. InBuffers' = (W \o C) \o Append(D, m)
    BY <1>2, <1>6, <2>1, <2>2
  <2>5. InBuffers' = Append(InBuffers, m)
    BY <1>5, <2>3, <2>4
  <2> QED
    BY <1>6, <1>7, <2>5
<1>10. CASE ~(Avail(current_buffer) > len)
  <2>1. /\ buffers' = Append(buffers, current_buffer)
        /\ current_buffer' = BufferAppend(EmptyBuffer, m, len)
    BY <1>10 DEF LogAppend, PushCurrent, SinkInv, SparesClean
  <2>2. Contents(buffers') = C \o D
    BY <1>2, <1>3, <2>1, ContentsRules DEF IInv, TypeOK
  <2>3. W \o (C \o D) = (W \o C) \o D
    BY <1>4, MessagesAssociative
  <2>4. InBuffers' = InBuffers \o current_buffer'.data
    BY <1>5, <1>6, <2>2, <2>3
  <2>5. current_buffer'.data = <<>> \/ current_buffer'.data = Append(<<>>, m)
    BY <2>1 DEF BufferAppend, EmptyBuffer
  <2>6. InBuffers \o <<>> = InBuffers
    BY <1>5, <1>8, ConcatEmptySeq
  <2>7. InBuffers \o Append(<<>>, m) = Append(InBuffers \o <<>>, m)
    <3>1. <<>> \in Seq(Messages)
      BY EmptySeq
    <3> QED
      BY <1>5, <1>7, <1>8, <3>1, ConcatAppend
  <2> QED
    BY <1>6, <1>7, <2>4, <2>5, <2>6, <2>7
<1> QED
  BY <1>9, <1>10

\* The swap hands the queue to the back end as it is.
LEMMA SwapSink ==
  ASSUME IInv, SinkInv, SwapBuffers, thread \in {"lock", "wait"}
  PROVE  InBuffers' = InBuffers
<1>1. PICK C : C = Contents(buffers) /\ C \in Seq(Messages)
  BY PartsType
<1>2. PICK D : D = current_buffer.data /\ D \in Seq(Messages)
  BY PartsType
<1>3. InBuffers = (<<>> \o C) \o D
  BY <1>1, <1>2 DEF InBuffers
<1>4. current_buffer' = EmptyBuffer
  BY NoneAssumption DEF SwapBuffers, SinkInv, SparesClean, IInv, SparesReady
<1>5. current_buffer'.data = <<>>
  BY <1>4 DEF EmptyBuffer
<1>6. /\ thread' = "write" /\ buffers' = <<>>
      /\ buffers_to_write' = Append(buffers, current_buffer)
  BY DEF SwapBuffers, PushCurrent
<1>7. Contents(buffers_to_write') = C \o D /\ Contents(buffers') = <<>>
  BY <1>1, <1>2, <1>6, ContentsRules DEF IInv, TypeOK
<1>8. InBuffers' = ((C \o D) \o <<>>) \o <<>>
  BY <1>5, <1>6, <1>7 DEF InBuffers
<1>9. C \o D \in Seq(Messages)
  BY <1>1, <1>2, ConcatProperties
<1>10. <<>> \o C = C /\ (C \o D) \o <<>> = C \o D
  BY <1>1, <1>9, ConcatEmptySeq
<1> QED
  BY <1>3, <1>8, <1>10

\* The back end writes the front of the queue, or, after a notice, a part of it.
LEMMA LoggerWriteSink ==
  ASSUME IInv, SinkInv, LoggerWrite
  PROVE  /\ Sink!Next \/ (InBuffers' = InBuffers /\ file' = file)
         /\ FileType'
<1>1. PICK W : W = Contents(buffers_to_write) /\ W \in Seq(Messages)
  BY PartsType DEF LoggerWrite
<1>2. PICK R : R = Contents(buffers) \o current_buffer.data /\ R \in Seq(Messages)
  BY PartsType, ConcatProperties
<1>3. InBuffers = W \o R /\ InBuffers' = R
  <2>1. PICK C : C = Contents(buffers) /\ C \in Seq(Messages)
    BY PartsType
  <2>2. PICK D : D = current_buffer.data /\ D \in Seq(Messages)
    BY PartsType
  <2>3. InBuffers = (W \o C) \o D
    BY <1>1, <2>1, <2>2 DEF InBuffers, LoggerWrite
  <2>4. InBuffers' = (<<>> \o C) \o D
    BY <2>1, <2>2 DEF InBuffers, LoggerWrite, shared
  <2>5. <<>> \o C = C
    BY <2>1, ConcatEmptySeq
  <2>6. (W \o C) \o D = W \o (C \o D)
    <3>1. W \in Seq(Messages) /\ C \in Seq(Messages) /\ D \in Seq(Messages)
      BY <1>1, <2>1, <2>2
    <3> QED
      BY <3>1, MessagesAssociative
  <2>7. R = C \o D
    BY <1>2, <2>1, <2>2
  <2>8. InBuffers = W \o R
    BY <2>3, <2>6, <2>7
  <2>9. InBuffers' = R
    BY <2>4, <2>5, <2>7
  <2> QED
    BY <2>8, <2>9
<1>4. PICK K : /\ K = Contents(Trim(buffers_to_write))
               /\ file' = (file \o DropNotice(buffers_to_write)) \o K
  BY DEF LoggerWrite
<1>5. file \in Seq(Messages \cup {Notice})
  BY DEF SinkInv, FileType
<1>6. CASE ~(Len(buffers_to_write) > DropLimit)
  <2>1. K = W /\ file' = (file \o <<>>) \o W
    BY <1>1, <1>4, <1>6 DEF Trim, DropNotice
  <2>2. file \o <<>> = file
    BY <1>5, ConcatEmptySeq
  <2>3. W \in Seq(Messages \cup {Notice})
    BY <1>1
  <2>4. FileType'
    BY <1>5, <2>1, <2>2, <2>3, ConcatProperties DEF FileType
  <2>5. CASE W = <<>>
    <3>1. file' = file
      BY <2>1, <2>2, <2>5
    <3>2. W \o R = R
      BY <1>2, <2>5, ConcatEmptySeq
    <3> QED
      BY <1>3, <2>4, <3>1, <3>2
  <2>6. CASE W # <<>>
    <3>1. Len(W) \in 1 .. Len(InBuffers)
      BY <1>1, <1>2, <1>3, <2>6, CutConcat, EmptySeq
    <3>2. /\ file' = file \o SubSeq(InBuffers, 1, Len(W))
          /\ InBuffers' = SubSeq(InBuffers, Len(W) + 1, Len(InBuffers))
      BY <1>1, <1>2, <1>3, <2>1, <2>2, CutConcat
    <3>3. Sink!Write
      BY <3>1, <3>2 DEF Sink!Write
    <3> QED
      BY <2>4, <3>3 DEF Sink!Next
  <2> QED
    BY <2>5, <2>6
<1>7. CASE Len(buffers_to_write) > DropLimit
  <2>1. K = Contents(SubSeq(buffers_to_write, 1, 2)) /\ file' = (file \o <<Notice>>) \o K
    BY <1>4, <1>7 DEF Trim, DropNotice
  <2>2. buffers_to_write \in Seq(Buffer) /\ 2 \in 1 .. Len(buffers_to_write)
    BY <1>7, LoggingAssumption DEF IInv, TypeOK
  <2>3. PICK r \in Seq(Messages) : W = K \o r
    BY <1>1, <2>1, <2>2, ContentsRules
  <2>4. K \in Seq(Messages)
    <3>1. SubSeq(buffers_to_write, 1, 2) \in Seq(Buffer)
      BY <2>2
    <3> QED
      BY <2>1, <3>1, ContentsRules
  <2>5. Append(file, Notice) = file \o <<Notice>>
    BY <1>5, AppendIsConcat
  <2>6. FileType'
    <3>1. K \in Seq(Messages \cup {Notice})
      BY <2>4
    <3>2. file \o <<Notice>> \in Seq(Messages \cup {Notice})
      BY <1>5, <2>5
    <3> QED
      BY <2>1, <3>1, <3>2, ConcatProperties DEF FileType
  <2>7. r \o R \in Seq(Messages) /\ InBuffers = K \o (r \o R)
    BY <1>2, <1>3, <2>3, <2>4, MessagesAssociative, ConcatProperties
  <2>8. Len(W) \in 0 .. Len(InBuffers) /\ Len(K) \in 0 .. Len(W)
    <3>1. Len(W) \in Nat /\ Len(W \o R) \in Nat /\ Len(W) <= Len(W \o R)
      BY <1>1, <1>2, CutConcat
    <3>2. Len(K) \in Nat /\ Len(K) <= Len(K \o r)
      BY <2>3, <2>4, CutConcat
    <3> QED
      BY <1>3, <2>3, <3>1, <3>2
  <2>9. InBuffers' = SubSeq(InBuffers, Len(W) + 1, Len(InBuffers))
    BY <1>1, <1>2, <1>3, CutConcat
  <2>10. SubSeq(InBuffers, 1, Len(K)) = K
    BY <2>4, <2>7, CutConcat
  <2>11. file' = Append(file, Notice) \o SubSeq(InBuffers, 1, Len(K))
    BY <2>1, <2>5, <2>10
  <2>12. Sink!Drop
    BY <2>8, <2>9, <2>11 DEF Sink!Drop
  <2> QED
    BY <2>6, <2>12 DEF Sink!Next
<1> QED
  BY <1>6, <1>7

\* The steps that neither append nor write leave the queue and the file alone.
LEMMA OtherSink ==
  ASSUME IInv, SinkInv,
         \/ LoggerBegin \/ LoggerTest \/ LoggerWait \/ LoggerSwap \/ LoggerWake
         \/ Start \/ Stop \/ OwnerReturns
  PROVE  InBuffers' = InBuffers /\ file' = file
<1>1. CASE LoggerSwap \/ LoggerWake
  BY <1>1, SwapSink DEF LoggerSwap, LoggerWake
<1>2. CASE \/ LoggerBegin \/ LoggerTest \/ LoggerWait
           \/ Start \/ Stop \/ OwnerReturns
  <2>1. UNCHANGED <<current_buffer, buffers, file>>
    BY <1>2 DEF LoggerBegin, LoggerTest, LoggerWait, Start, Stop, OwnerReturns,
       StartReturn, StopReturn, shared
  <2>2. \/ thread # "write" /\ thread' # "write"
        \/ UNCHANGED <<thread, buffers_to_write>>
    BY <1>2 DEF LoggerBegin, LoggerTest, LoggerWait, Start, Stop, OwnerReturns,
       StartReturn, StopReturn, locals, SinkInv, StoppedIsOver
  <2> QED
    BY <2>1, <2>2 DEF InBuffers
<1> QED
  BY <1>1, <1>2

\* Every step keeps the spares empty and the back end within a run.
LEMMA NextSink ==
  ASSUME IInv, SinkInv, [Next]_vars PROVE SinkInv'
<1>0. SparesClean /\ StoppedIsOver /\ FileType
  BY DEF SinkInv
<1>1. FileType'
  <2>1. CASE LoggerWrite
    BY <2>1, LoggerWriteSink
  <2>2. CASE UNCHANGED file
    BY <1>0, <2>2 DEF FileType
  <2> QED
    BY <2>1, <2>2 DEF Next, Logger, LogAppend, LoggerBegin, LoggerTest, LoggerWait, LoggerSwap,
       LoggerWake, Start, Stop, OwnerReturns, StartReturn, StopReturn, Over, vars
<1>2. StoppedIsOver'
  BY <1>0 DEF StoppedIsOver, Next, Logger, LogAppend, LoggerBegin, LoggerTest, LoggerWait,
     LoggerSwap, LoggerWake, LoggerWrite, SwapBuffers, Start, Stop, OwnerReturns, StartReturn,
     StopReturn, Over, vars, control
<1>3. SparesClean'
  <2>1. next_buffer' \in {next_buffer, None, new_buffer_2}
    BY DEF Next, Logger, LogAppend, LoggerBegin, LoggerTest, LoggerWait, LoggerSwap, LoggerWake,
       LoggerWrite, SwapBuffers, Start, Stop, OwnerReturns, StartReturn, StopReturn, Over, vars,
       shared
  <2>2. /\ new_buffer_1' \in {new_buffer_1, None, EmptyBuffer}
        /\ new_buffer_2' \in {new_buffer_2, None, EmptyBuffer}
    BY DEF Next, Logger, LogAppend, LoggerBegin, LoggerTest, LoggerWait, LoggerSwap, LoggerWake,
       LoggerWrite, SwapBuffers, Start, Stop, OwnerReturns, StartReturn, StopReturn, Over, vars,
       locals, Reset
  <2> QED
    BY <1>0, <2>1, <2>2 DEF SparesClean
<1> QED
  BY <1>1, <1>2, <1>3 DEF SinkInv

\* The front and back buffers, with their swaps, restarts and drops, implement
\* one queue in front of the file for every buffer size and drop limit
\* (async_logging.cpp:46-57, 80-102).
THEOREM ImplementsSink == Spec => SinkSpec
<1>1. Init => Sink!Init /\ SinkInv
  <2> SUFFICES ASSUME Init PROVE Sink!Init /\ SinkInv
    OBVIOUS
  <2>1. InBuffers = (<<>> \o <<>>) \o <<>>
    BY ContentsRules DEF Init, InBuffers, EmptyBuffer
  <2>2. <<>> \in Seq(Messages) /\ <<>> \in Seq(Messages \cup {Notice})
    BY EmptySeq
  <2>3. InBuffers = <<>>
    BY <2>1, <2>2, ConcatEmptySeq
  <2> QED
    BY <2>2, <2>3 DEF Init, Sink!Init, SinkInv, SparesClean, StoppedIsOver, FileType
<1>2. IInv /\ SinkInv /\ [Next]_vars => [Sink!Next]_(Sink!vars)
  <2> SUFFICES ASSUME IInv, SinkInv, [Next]_vars
               PROVE  Sink!Next \/ (InBuffers' = InBuffers /\ file' = file)
    BY DEF Sink!vars
  <2>1. ASSUME NEW len \in Lengths, LogAppend(len)
        PROVE  Sink!Next \/ (InBuffers' = InBuffers /\ file' = file)
    BY <2>1, LogAppendSink DEF Sink!Next, Sink!Accept, Messages
  <2>2. CASE LoggerWrite
    BY <2>2, LoggerWriteSink
  <2>3. CASE \/ LoggerBegin \/ LoggerTest \/ LoggerWait \/ LoggerSwap \/ LoggerWake
             \/ Start \/ Stop \/ OwnerReturns
    BY <2>3, OtherSink
  <2>4. CASE Over \/ UNCHANGED vars
    BY <2>4 DEF Over, vars, shared, locals, InBuffers
  <2> QED
    BY <2>1, <2>2, <2>3, <2>4 DEF Next, Logger
<1>3. IInv /\ SinkInv /\ [Next]_vars => SinkInv'
  BY NextSink
<1> QED
  BY <1>1, <1>2, <1>3, Invariance, PTL DEF Spec, SinkSpec, Sink!Spec

-----------------------------------------------------------------------------

\* Until the first thread has counted the latch down, Start has not returned.
FirstStart ==
  /\ runs = 0 => thread = "none" /\ latch = FALSE
  /\ runs = 1 /\ thread = "born" => running = TRUE /\ owner = "starting" /\ latch = FALSE

\* The back end never begins its first run with running_ already false
\* (async_logging.cpp:61): Stop cannot overtake the start.
THEOREM RunningWhenBegun == Spec => []RunningAtBegin
<1>1. Init => FirstStart
  BY DEF Init, FirstStart
<1>2. IInv /\ FirstStart /\ [Next]_vars => FirstStart'
  <2> SUFFICES ASSUME IInv, FirstStart, [Next]_vars PROVE FirstStart'
    OBVIOUS
  <2>1. runs \in Nat
    BY LoggingAssumption DEF IInv, TypeOK
  <2>2. CASE Start
    BY <2>1, <2>2 DEF Start, FirstStart
  <2>3. CASE StartReturn
    BY <2>3 DEF StartReturn, FirstStart, LatchOpen
  <2>4. CASE LoggerBegin
    BY <2>4 DEF LoggerBegin, FirstStart
  <2>5. CASE Stop \/ StopReturn
    BY <2>5 DEF Stop, StopReturn, FirstStart
  <2>6. CASE UNCHANGED control /\ (thread' = thread \/ (thread # "none" /\ thread' # "born"))
    BY <2>6 DEF control, FirstStart
  <2> QED
    BY <2>2, <2>3, <2>4, <2>5, <2>6 DEF Next, Logger, LogAppend, LoggerTest, LoggerWait,
       LoggerSwap, LoggerWake, LoggerWrite, SwapBuffers, OwnerReturns, Over, vars
<1>3. FirstStart => RunningAtBegin
  BY Zenon DEF FirstStart, RunningAtBegin
<1> QED
  BY <1>1, <1>2, <1>3, Invariance, PTL DEF Spec
=============================================================================
