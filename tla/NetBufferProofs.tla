---------------------------- MODULE NetBufferProofs ----------------------------
(***************************************************************************)
(* Proofs about NetBuffer for every prepend area, initial size, byte and   *)
(* string: the indices stay in order, the space assertions hold, and the   *)
(* buffer implements a byte queue.                                         *)
(***************************************************************************)
EXTENDS NetBuffer, SequenceTheorems, TLAPS

\* A storage of n bytes b whose indices r and w are in order.
GoodStore(b, n, r, w) ==
  /\ n \in Nat /\ n >= CheapPrepend + InitialSize
  /\ b \in [0 .. n - 1 -> Byte]
  /\ r \in Nat /\ w \in Nat /\ r <= w /\ w <= n

\* What EnsureWriteableBytes(len) makes of it: valid indices, room for len
\* bytes, and the readable bytes unchanged, wherever they are now.
GoodSpace(e, b, r, w, len) ==
  /\ GoodStore(e.buffer, e.size, e.r, e.w)
  /\ e.w - e.r = w - r
  /\ e.w + len <= e.size
  /\ \A i \in 0 .. w - r - 1 : e.buffer[e.r + i] = b[r + i]

\* The type invariant says that the storage is good.
LEMMA StoreIsGood ==
  ASSUME TypeOK
  PROVE  GoodStore(buffer, size, reader_index, write_index)
BY DEF TypeOK, GoodStore

\* Growing the storage makes good space.
LEMMA GrownGood ==
  ASSUME NEW b, NEW n, NEW r, NEW w, GoodStore(b, n, r, w),
         NEW len \in Nat, n - w < len
  PROVE  GoodSpace(Grown(b, n, r, w, len), b, r, w, len)
<1> USE BufferAssumption
<1> DEFINE e == Grown(b, n, r, w, len)
           grownBuffer == [i \in 0 .. w + len - 1 |-> IF i < n THEN b[i] ELSE 0]
<1>1. e.size = w + len /\ e.r = r /\ e.w = w /\ e.buffer = grownBuffer
  BY DEF Grown
<1>2. n < w + len /\ n \in Nat /\ r \in Nat /\ w \in Nat /\ r <= w /\ w <= n
      /\ n >= CheapPrepend + InitialSize
  BY DEF GoodStore
<1>3. grownBuffer \in [0 .. w + len - 1 -> Byte]
  BY <1>2 DEF GoodStore
<1>4. \A i \in 0 .. w - r - 1 : grownBuffer[r + i] = b[r + i]
  BY <1>2
<1>5. w + len \in Nat /\ w + len >= CheapPrepend + InitialSize /\ w <= w + len
  BY <1>2
<1> HIDE DEF e, grownBuffer
<1> QED
  BY <1>1, <1>2, <1>3, <1>4, <1>5 DEF GoodSpace, GoodStore, e

\* The part of MakeSpace that can go wrong: when it compacts there is
\* something to compact, and the readable bytes fit below their old place.
LEMMA CompactsForward ==
  ASSUME NEW b, NEW n, NEW r, NEW w, GoodStore(b, n, r, w),
         NEW len \in Nat, n - w < len, ~TooSmall(n, r, w, len)
  PROVE  CheapPrepend < r /\ CheapPrepend + (w - r) + len <= n
BY BufferAssumption DEF GoodStore, TooSmall

\* Moving the readable bytes down makes good space.
LEMMA CompactedGood ==
  ASSUME NEW b, NEW n, NEW r, NEW w, GoodStore(b, n, r, w),
         NEW len \in Nat, n - w < len, ~TooSmall(n, r, w, len)
  PROVE  GoodSpace(Compacted(b, n, r, w), b, r, w, len)
<1> USE BufferAssumption
<1> DEFINE movedBuffer ==
             [i \in DOMAIN b |->
                IF i >= CheapPrepend /\ i < CheapPrepend + (w - r)
                THEN b[r + (i - CheapPrepend)] ELSE b[i]]
           e == Compacted(b, n, r, w)
<1>1. /\ e.size = n /\ e.r = CheapPrepend
      /\ e.w = CheapPrepend + (w - r) /\ e.buffer = movedBuffer
  BY DEF Compacted
<1>2. CheapPrepend < r /\ CheapPrepend + (w - r) + len <= n
  BY CompactsForward
<1>3. /\ DOMAIN b = 0 .. n - 1 /\ n \in Nat /\ r \in Nat /\ w \in Nat
      /\ r <= w /\ w <= n /\ n >= CheapPrepend + InitialSize
      /\ b \in [0 .. n - 1 -> Byte]
  BY DEF GoodStore
<1>4. \A i \in 0 .. w - r - 1 : r + i \in 0 .. n - 1
  BY <1>3
<1>5. movedBuffer \in [0 .. n - 1 -> Byte]
  <2> SUFFICES ASSUME NEW i \in 0 .. n - 1
               PROVE  movedBuffer[i] \in Byte
    BY <1>3
  <2>1. CASE i >= CheapPrepend /\ i < CheapPrepend + (w - r)
    <3>1. r + (i - CheapPrepend) \in 0 .. n - 1
      BY <2>1, <1>3, <1>4
    <3> QED
      BY <2>1, <3>1, <1>3
  <2>2. CASE ~(i >= CheapPrepend /\ i < CheapPrepend + (w - r))
    BY <2>2, <1>3
  <2> QED
    BY <2>1, <2>2
<1>6. \A i \in 0 .. w - r - 1 : movedBuffer[CheapPrepend + i] = b[r + i]
  <2> SUFFICES ASSUME NEW i \in 0 .. w - r - 1
               PROVE  movedBuffer[CheapPrepend + i] = b[r + i]
    OBVIOUS
  <2> DEFINE j == CheapPrepend + i
  <2>1. /\ j \in 0 .. n - 1 /\ j >= CheapPrepend /\ j < CheapPrepend + (w - r)
        /\ r + (j - CheapPrepend) = r + i
    BY <1>2, <1>3
  <2> HIDE DEF j
  <2>2. movedBuffer[j] = b[r + (j - CheapPrepend)]
    BY <2>1, <1>3
  <2> QED
    BY <2>1, <2>2 DEF j
<1>7. CheapPrepend + (w - r) \in Nat /\ CheapPrepend + (w - r) <= n
  BY <1>2, <1>3
<1> HIDE DEF movedBuffer, e
<1> QED
  BY <1>1, <1>2, <1>3, <1>5, <1>6, <1>7 DEF GoodSpace, GoodStore, e

\* EnsureWriteableBytes makes good space.
LEMMA EnsuredGood ==
  ASSUME NEW b, NEW n, NEW r, NEW w, GoodStore(b, n, r, w), NEW len \in Nat
  PROVE  GoodSpace(Ensured(b, n, r, w, len), b, r, w, len)
<1>1. CASE n - w >= len
  BY <1>1 DEF Ensured, GoodSpace, GoodStore
<1>2. CASE ~(n - w >= len)
  <2>1. n - w < len
    BY <1>2 DEF GoodStore
  <2>2. CASE TooSmall(n, r, w, len)
    BY <1>2, <2>1, <2>2, GrownGood DEF Ensured
  <2>3. CASE ~TooSmall(n, r, w, len)
    BY <1>2, <2>1, <2>3, CompactedGood DEF Ensured
  <2> QED
    BY <2>2, <2>3
<1> QED
  BY <1>1, <1>2

-----------------------------------------------------------------------------
(* Reading and writing bytes.                                              *)

\* The readable bytes are a sequence of w - r bytes.
LEMMA ReadableSeq ==
  ASSUME NEW b, NEW n, NEW r, NEW w, GoodStore(b, n, r, w)
  PROVE  /\ w - r \in Nat
         /\ ReadableIn(b, r, w) \in Seq(Byte) /\ Len(ReadableIn(b, r, w)) = w - r
         /\ \A i \in 1 .. w - r : ReadableIn(b, r, w)[i] = b[r + i - 1]
<1>1. w - r \in Nat
  BY DEF GoodStore
<1>2. \A i \in 1 .. w - r : r + i - 1 \in 0 .. n - 1
  BY DEF GoodStore
<1>3. ReadableIn(b, r, w) \in [1 .. w - r -> Byte]
  BY <1>2 DEF GoodStore, ReadableIn
<1> QED
  BY <1>1, <1>3 DEF ReadableIn

\* std::copy into the array.
LEMMA CopyToGood ==
  ASSUME NEW n \in Nat, NEW b \in [0 .. n - 1 -> Byte], NEW at \in Nat,
         NEW d \in Seq(Byte)
  PROVE  /\ CopyTo(b, at, d) \in [0 .. n - 1 -> Byte]
         /\ \A i \in 0 .. n - 1 :
              CopyTo(b, at, d)[i] = IF i >= at /\ i < at + Len(d) THEN d[i - at + 1]
                                                               ELSE b[i]
<1>1. DOMAIN b = 0 .. n - 1 /\ Len(d) \in Nat
  OBVIOUS
<1>2. \A i \in 0 .. n - 1 : i >= at /\ i < at + Len(d) => d[i - at + 1] \in Byte
  <2> SUFFICES ASSUME NEW i \in 0 .. n - 1, i >= at, i < at + Len(d)
               PROVE  d[i - at + 1] \in Byte
    OBVIOUS
  <2>1. i - at + 1 \in 1 .. Len(d)
    BY <1>1
  <2> QED
    BY <2>1, ElementOfSeq
<1> QED
  BY <1>1, <1>2 DEF CopyTo

\* Bytes copied behind the readable ones extend them at the back.
LEMMA WrittenBehind ==
  ASSUME NEW b, NEW n, NEW r, NEW w, GoodStore(b, n, r, w),
         NEW d \in Seq(Byte), w + Len(d) <= n
  PROVE  /\ GoodStore(CopyTo(b, w, d), n, r, w + Len(d))
         /\ ReadableIn(CopyTo(b, w, d), r, w + Len(d)) = ReadableIn(b, r, w) \o d
<1> USE BufferAssumption
<1> DEFINE b2 == CopyTo(b, w, d)
           old == ReadableIn(b, r, w)
           new == ReadableIn(b2, r, w + Len(d))
<1>0. /\ Len(d) \in Nat /\ n \in Nat /\ r \in Nat /\ w \in Nat /\ r <= w /\ w <= n
      /\ b \in [0 .. n - 1 -> Byte]
  BY DEF GoodStore
<1>1. /\ b2 \in [0 .. n - 1 -> Byte]
      /\ \A i \in 0 .. n - 1 :
           b2[i] = IF i >= w /\ i < w + Len(d) THEN d[i - w + 1] ELSE b[i]
  BY <1>0, CopyToGood
<1> HIDE DEF b2
<1>2. GoodStore(b2, n, r, w + Len(d))
  BY <1>0, <1>1 DEF GoodStore
<1>3. /\ old \in Seq(Byte) /\ Len(old) = w - r
      /\ \A i \in 1 .. w - r : old[i] = b[r + i - 1]
  BY ReadableSeq
<1>4. /\ new \in Seq(Byte) /\ Len(new) = (w + Len(d)) - r
      /\ \A i \in 1 .. (w + Len(d)) - r : new[i] = b2[r + i - 1]
  BY <1>2, ReadableSeq
<1> HIDE DEF old, new
<1>5. /\ old \o d \in Seq(Byte) /\ Len(old \o d) = (w + Len(d)) - r
      /\ \A i \in 1 .. (w + Len(d)) - r :
           (old \o d)[i] = IF i <= w - r THEN old[i] ELSE d[i - (w - r)]
  <2>1. Len(old) + Len(d) = (w + Len(d)) - r
    BY <1>0, <1>3
  <2> QED
    BY <2>1, <1>0, <1>3, ConcatProperties
<1>6. \A i \in 1 .. (w + Len(d)) - r : new[i] = (old \o d)[i]
  <2> SUFFICES ASSUME NEW i \in 1 .. (w + Len(d)) - r
               PROVE  new[i] = (old \o d)[i]
    OBVIOUS
  <2>1. i \in Int /\ r + i - 1 \in 0 .. n - 1
    BY <1>0
  <2>2. CASE i <= w - r
    <3>1. ~(r + i - 1 >= w) /\ i \in 1 .. w - r
      BY <2>1, <2>2, <1>0
    <3> QED
      BY <3>1, <2>1, <2>2, <1>1, <1>3, <1>4, <1>5
  <2>3. CASE ~(i <= w - r)
    <3>1. r + i - 1 >= w /\ r + i - 1 < w + Len(d) /\ (r + i - 1) - w + 1 = i - (w - r)
      BY <2>1, <2>3, <1>0
    <3> QED
      BY <3>1, <2>1, <2>3, <1>1, <1>4, <1>5
  <2> QED
    BY <2>2, <2>3
<1>7. new = old \o d
  BY <1>4, <1>5, <1>6, SeqEqual
<1> QED
  BY <1>2, <1>7 DEF b2, new, old

\* Bytes copied in front of the readable ones extend them at the front.
LEMMA WrittenInFront ==
  ASSUME NEW b, NEW n, NEW r, NEW w, GoodStore(b, n, r, w),
         NEW d \in Seq(Byte), NEW r2 \in Nat, r2 = r - Len(d)
  PROVE  /\ GoodStore(CopyTo(b, r2, d), n, r2, w)
         /\ ReadableIn(CopyTo(b, r2, d), r2, w) = d \o ReadableIn(b, r, w)
<1> USE BufferAssumption
<1> DEFINE b2 == CopyTo(b, r2, d)
           old == ReadableIn(b, r, w)
           new == ReadableIn(b2, r2, w)
<1>0. /\ Len(d) \in Nat /\ n \in Nat /\ r \in Nat /\ w \in Nat /\ r <= w /\ w <= n
      /\ b \in [0 .. n - 1 -> Byte] /\ r = r2 + Len(d)
  BY DEF GoodStore
<1>1. /\ b2 \in [0 .. n - 1 -> Byte]
      /\ \A i \in 0 .. n - 1 :
           b2[i] = IF i >= r2 /\ i < r2 + Len(d) THEN d[i - r2 + 1] ELSE b[i]
  BY <1>0, CopyToGood
<1> HIDE DEF b2
<1>2. GoodStore(b2, n, r2, w)
  <2>1. r2 <= w /\ n >= CheapPrepend + InitialSize
    BY <1>0 DEF GoodStore
  <2> QED
    BY <1>0, <1>1, <2>1 DEF GoodStore
<1>3. /\ old \in Seq(Byte) /\ Len(old) = w - r
      /\ \A i \in 1 .. w - r : old[i] = b[r + i - 1]
  BY ReadableSeq
<1>4. /\ new \in Seq(Byte) /\ Len(new) = w - r2
      /\ \A i \in 1 .. w - r2 : new[i] = b2[r2 + i - 1]
  BY <1>2, ReadableSeq
<1> HIDE DEF old, new
<1>5. /\ d \o old \in Seq(Byte) /\ Len(d \o old) = w - r2
      /\ \A i \in 1 .. w - r2 :
           (d \o old)[i] = IF i <= Len(d) THEN d[i] ELSE old[i - Len(d)]
  <2>1. Len(d) + Len(old) = w - r2
    BY <1>0, <1>3
  <2>2. /\ d \o old \in Seq(Byte) /\ Len(d \o old) = Len(d) + Len(old)
        /\ \A i \in 1 .. Len(d) + Len(old) :
             (d \o old)[i] = IF i <= Len(d) THEN d[i] ELSE old[i - Len(d)]
    BY <1>3, ConcatProperties
  <2> QED
    BY <2>1, <2>2
<1>6. \A i \in 1 .. w - r2 : new[i] = (d \o old)[i]
  <2> SUFFICES ASSUME NEW i \in 1 .. w - r2
               PROVE  new[i] = (d \o old)[i]
    OBVIOUS
  <2>1. i \in Int /\ r2 + i - 1 \in 0 .. n - 1
    BY <1>0
  <2>2. CASE i <= Len(d)
    <3>1. r2 + i - 1 >= r2 /\ r2 + i - 1 < r2 + Len(d) /\ (r2 + i - 1) - r2 + 1 = i
      BY <2>1, <2>2, <1>0
    <3> QED
      BY <3>1, <2>1, <2>2, <1>1, <1>4, <1>5
  <2>3. CASE ~(i <= Len(d))
    <3>1. /\ ~(r2 + i - 1 < r2 + Len(d)) /\ i - Len(d) \in 1 .. w - r
          /\ r + (i - Len(d)) - 1 = r2 + i - 1
      BY <2>1, <2>3, <1>0
    <3>2. old[i - Len(d)] = b[r2 + i - 1]
      BY <3>1, <1>3
    <3> QED
      BY <3>1, <3>2, <2>1, <2>3, <1>1, <1>4, <1>5
  <2> QED
    BY <2>2, <2>3
<1>7. new = d \o old
  BY <1>4, <1>5, <1>6, SeqEqual
<1> QED
  BY <1>2, <1>7 DEF b2, new, old

\* Consuming k bytes drops the first k.
LEMMA ConsumedInFront ==
  ASSUME NEW b, NEW n, NEW r, NEW w, GoodStore(b, n, r, w), NEW k \in 0 .. w - r - 1
  PROVE  /\ GoodStore(b, n, r + k, w)
         /\ ReadableIn(b, r + k, w)
              = SubSeq(ReadableIn(b, r, w), k + 1, Len(ReadableIn(b, r, w)))
<1> DEFINE old == ReadableIn(b, r, w)
           new == ReadableIn(b, r + k, w)
           sub == SubSeq(old, k + 1, Len(old))
<1>0. /\ n \in Nat /\ r \in Nat /\ w \in Nat /\ r <= w /\ w <= n
      /\ b \in [0 .. n - 1 -> Byte]
  BY DEF GoodStore
<1>1. k \in Nat /\ r + k <= w
  BY <1>0
<1>2. GoodStore(b, n, r + k, w)
  BY <1>0, <1>1 DEF GoodStore
<1>3. /\ old \in Seq(Byte) /\ Len(old) = w - r
      /\ \A i \in 1 .. w - r : old[i] = b[r + i - 1]
  BY ReadableSeq
<1>4. /\ new \in Seq(Byte) /\ Len(new) = w - (r + k)
      /\ \A i \in 1 .. w - (r + k) : new[i] = b[(r + k) + i - 1]
  BY <1>2, ReadableSeq
<1> HIDE DEF old, new
<1>5. /\ sub \in Seq(Byte) /\ Len(sub) = w - (r + k)
      /\ \A i \in 1 .. w - (r + k) : sub[i] = old[k + i]
  <2>1. \A i \in k + 1 .. Len(old) : old[i] \in Byte
    BY <1>1, <1>3, ElementOfSeq
  <2>2. k + 1 \in Int /\ Len(old) \in Int
    BY <1>1, <1>3
  <2>3. /\ sub \in Seq(Byte)
        /\ Len(sub) = IF k + 1 <= Len(old) THEN Len(old) - (k + 1) + 1 ELSE 0
        /\ \A i \in 1 .. Len(old) - (k + 1) + 1 : sub[i] = old[(k + 1) + i - 1]
    BY <2>1, <2>2, SubSeqProperties
  <2>4. Len(old) - (k + 1) + 1 = w - (r + k) /\ k + 1 <= Len(old)
    BY <1>0, <1>1, <1>3
  <2>5. \A i \in 1 .. w - (r + k) : (k + 1) + i - 1 = k + i
    BY <1>0, <1>1
  <2> HIDE DEF sub
  <2> QED
    BY <2>3, <2>4, <2>5
<1>6. \A i \in 1 .. w - (r + k) : new[i] = sub[i]
  <2> SUFFICES ASSUME NEW i \in 1 .. w - (r + k)
               PROVE  new[i] = sub[i]
    OBVIOUS
  <2>1. k + i \in 1 .. w - r /\ r + (k + i) - 1 = (r + k) + i - 1
    BY <1>0, <1>1
  <2> QED
    BY <2>1, <1>3, <1>4, <1>5
<1> HIDE DEF sub
<1>7. new = sub
  BY <1>4, <1>5, <1>6, SeqEqual
<1> QED
  BY <1>2, <1>7 DEF new, sub, old

\* Storages with the same readable bytes, cell by cell, have the same content.
LEMMA SameReadable ==
  ASSUME NEW b, NEW n, NEW r, NEW w, GoodStore(b, n, r, w),
         NEW b2, NEW n2, NEW r2, NEW w2, GoodStore(b2, n2, r2, w2),
         w2 - r2 = w - r,
         \A i \in 0 .. w - r - 1 : b2[r2 + i] = b[r + i]
  PROVE  ReadableIn(b2, r2, w2) = ReadableIn(b, r, w)
<1>0. r \in Nat /\ r2 \in Nat /\ w \in Nat
  BY DEF GoodStore
<1>1. \A i \in 1 .. w - r : b2[r2 + i - 1] = b[r + i - 1]
  <2> SUFFICES ASSUME NEW i \in 1 .. w - r
               PROVE  b2[r2 + i - 1] = b[r + i - 1]
    OBVIOUS
  <2>1. i - 1 \in 0 .. w - r - 1 /\ r2 + i - 1 = r2 + (i - 1) /\ r + i - 1 = r + (i - 1)
    BY <1>0
  <2> QED
    BY <2>1
<1> QED
  BY <1>1 DEF ReadableIn

\* PushBack into a good storage: the result is good and the string is appended.
LEMMA PushedGood ==
  ASSUME NEW b, NEW n, NEW r, NEW w, GoodStore(b, n, r, w),
         NEW d \in Seq(Byte), Pushed(b, n, r, w, d)
  PROVE  /\ GoodStore(buffer', size', reader_index', write_index')
         /\ Readable' = ReadableIn(b, r, w) \o d
<1> DEFINE e == Ensured(b, n, r, w, Len(d))
<1>1. GoodSpace(e, b, r, w, Len(d))
  BY EnsuredGood
<1>2. /\ buffer' = CopyTo(e.buffer, e.w, d) /\ size' = e.size
      /\ reader_index' = e.r /\ write_index' = e.w + Len(d)
  BY DEF Pushed
<1> HIDE DEF e
<1>3. ReadableIn(e.buffer, e.r, e.w) = ReadableIn(b, r, w)
  BY <1>1, SameReadable DEF GoodSpace
<1>4. /\ GoodStore(CopyTo(e.buffer, e.w, d), e.size, e.r, e.w + Len(d))
      /\ ReadableIn(CopyTo(e.buffer, e.w, d), e.r, e.w + Len(d))
           = ReadableIn(e.buffer, e.r, e.w) \o d
  BY <1>1, WrittenBehind DEF GoodSpace
<1> QED
  BY <1>2, <1>3, <1>4 DEF Readable

-----------------------------------------------------------------------------
(* The steps of the buffer: what each does to the type and to the content.  *)

\* A good storage after a step, with out and fault in range, is the type.
LEMMA TypeFromStore ==
  ASSUME GoodStore(buffer', size', reader_index', write_index'),
         out' \in Seq(Byte),
         fault' \in {"none", "MakeSpace", "EnsureWriteableBytes", "undefined"}
  PROVE  TypeOK'
<1>1. /\ size' \in Nat /\ size' >= CheapPrepend + InitialSize
      /\ buffer' \in [0 .. size' - 1 -> Byte]
      /\ reader_index' \in Nat /\ write_index' \in Nat
      /\ reader_index' <= write_index' /\ write_index' <= size'
  BY DEF GoodStore
<1>2. reader_index' \in 0 .. write_index' /\ write_index' \in 0 .. size'
  BY <1>1
<1> QED
  BY <1>1, <1>2 DEF TypeOK

\* PushBack appends the string.
LEMMA PushBackStep ==
  ASSUME TypeOK, NEW d \in Data, PushBack(d)
  PROVE  TypeOK' /\ Readable' = Readable \o d /\ out' = out
<1>1. d \in Seq(Byte)
  BY BufferAssumption
<1>2. Pushed(buffer, size, reader_index, write_index, d) /\ out' = out /\ fault' = fault
  BY DEF PushBack
<1>3. /\ GoodStore(buffer', size', reader_index', write_index')
      /\ Readable' = ReadableIn(buffer, reader_index, write_index) \o d
  BY <1>1, <1>2, StoreIsGood, PushedGood
<1>4. TypeOK'
  BY <1>2, <1>3, TypeFromStore DEF TypeOK
<1> QED
  BY <1>2, <1>3, <1>4 DEF Readable

\* EnsureWriteableBytes leaves the content alone.
LEMMA EnsureStep ==
  ASSUME TypeOK, NEW len \in Nat, EnsureWriteableBytes(len)
  PROVE  TypeOK' /\ Readable' = Readable /\ out' = out
<1> DEFINE e == Ensured(buffer, size, reader_index, write_index, len)
<1>1. GoodSpace(e, buffer, reader_index, write_index, len)
  BY StoreIsGood, EnsuredGood
<1>2. /\ buffer' = e.buffer /\ size' = e.size /\ reader_index' = e.r /\ write_index' = e.w
      /\ out' = out /\ fault' = fault
  BY DEF EnsureWriteableBytes
<1> HIDE DEF e
<1>3. ReadableIn(e.buffer, e.r, e.w) = ReadableIn(buffer, reader_index, write_index)
  BY <1>1, StoreIsGood, SameReadable DEF GoodSpace
<1>4. TypeOK'
  <2>1. GoodStore(e.buffer, e.size, e.r, e.w)
    BY <1>1 DEF GoodSpace
  <2> QED
    BY <1>2, <2>1, TypeFromStore DEF TypeOK
<1> QED
  BY <1>2, <1>3, <1>4 DEF Readable

\* PushFront puts the string in front.
LEMMA PushFrontStep ==
  ASSUME TypeOK, NEW d \in Data, PushFront(d)
  PROVE  TypeOK' /\ Readable' = d \o Readable /\ out' = out
<1>1. d \in Seq(Byte)
  BY BufferAssumption
<1>2. /\ Len(d) <= reader_index /\ reader_index' = reader_index - Len(d)
      /\ buffer' = CopyTo(buffer, reader_index', d)
      /\ UNCHANGED <<size, write_index, out, fault>>
  BY DEF PushFront, PrependableBytes
<1>3. reader_index' \in Nat
  BY <1>1, <1>2 DEF TypeOK
<1>4. /\ GoodStore(buffer', size, reader_index', write_index)
      /\ ReadableIn(buffer', reader_index', write_index)
           = d \o ReadableIn(buffer, reader_index, write_index)
  BY <1>1, <1>2, <1>3, StoreIsGood, WrittenInFront
<1>5. TypeOK'
  BY <1>2, <1>4, TypeFromStore DEF TypeOK
<1> QED
  BY <1>2, <1>4, <1>5 DEF Readable

\* A short read appends what was read.
LEMMA ReadFdShortStep ==
  ASSUME TypeOK, NEW d \in Data, ReadFdShort(d)
  PROVE  TypeOK' /\ Readable' = Readable \o d /\ out' = out
<1>1. d \in Seq(Byte)
  BY BufferAssumption
<1>2. /\ buffer' = CopyTo(buffer, write_index, d) /\ write_index' = write_index + Len(d)
      /\ UNCHANGED <<size, reader_index, out, fault>>
  BY DEF ReadFdShort
<1>3. write_index + Len(d) <= size
  BY <1>1 DEF ReadFdShort, WriteableBytes, TypeOK
<1>4. /\ GoodStore(buffer', size, reader_index, write_index')
      /\ ReadableIn(buffer', reader_index, write_index')
           = ReadableIn(buffer, reader_index, write_index) \o d
  BY <1>1, <1>2, <1>3, StoreIsGood, WrittenBehind
<1>5. TypeOK'
  BY <1>2, <1>4, TypeFromStore DEF TypeOK
<1> QED
  BY <1>2, <1>4, <1>5 DEF Readable

\* Taking k bytes gives the first k and leaves the rest.
LEMMA TakeStep ==
  ASSUME TypeOK, NEW k \in 0 .. ReadableBytes, Take(k)
  PROVE  /\ TypeOK'
         /\ out' = SubSeq(Readable, 1, k)
         /\ Readable' = SubSeq(Readable, k + 1, Len(Readable))
<1> USE BufferAssumption
<1>1. /\ out' = SubSeq(Readable, 1, k) /\ MoveRead(k)
      /\ UNCHANGED <<buffer, size, fault>>
  BY DEF Take
<1>2. /\ Readable \in Seq(Byte) /\ Len(Readable) = ReadableBytes /\ ReadableBytes \in Nat
  BY StoreIsGood, ReadableSeq DEF Readable, ReadableBytes
<1>3. out' \in Seq(Byte)
  BY <1>1, <1>2
<1>4. CASE k < ReadableBytes
  <2>1. reader_index' = reader_index + k /\ write_index' = write_index
    BY <1>1, <1>4 DEF MoveRead
  <2>2. k \in 0 .. write_index - reader_index - 1
    BY <1>2, <1>4 DEF ReadableBytes
  <2>3. /\ GoodStore(buffer, size, reader_index + k, write_index)
        /\ ReadableIn(buffer, reader_index + k, write_index)
             = SubSeq(Readable, k + 1, Len(Readable))
    BY <2>2, StoreIsGood, ConsumedInFront DEF Readable
  <2>4. TypeOK'
    BY <1>1, <1>3, <2>1, <2>3, TypeFromStore DEF TypeOK
  <2> QED
    BY <1>1, <2>1, <2>3, <2>4 DEF Readable
<1>5. CASE ~(k < ReadableBytes)
  <2>1. reader_index' = CheapPrepend /\ write_index' = CheapPrepend /\ k = ReadableBytes
    BY <1>1, <1>2, <1>5 DEF MoveRead
  <2>2. GoodStore(buffer, size, CheapPrepend, CheapPrepend)
    BY DEF TypeOK, GoodStore
  <2>3. ReadableIn(buffer, CheapPrepend, CheapPrepend) = <<>>
    BY <2>2, ReadableSeq, EmptySeq
  <2>4. SubSeq(Readable, k + 1, Len(Readable)) = <<>>
    BY <1>2, <2>1
  <2>5. TypeOK'
    BY <1>1, <1>3, <2>1, <2>2, TypeFromStore DEF TypeOK
  <2> QED
    BY <1>1, <2>1, <2>3, <2>4, <2>5 DEF Readable
<1> QED
  BY <1>4, <1>5

\* A read that fills the buffer and wraps changes nothing but the fault.
LEMMA ReadFdFullStep ==
  ASSUME TypeOK, NEW d \in Data, ReadFdFull(d)
  PROVE  TypeOK' /\ Readable' = Readable /\ out' = out
<1>1. /\ UNCHANGED <<buffer, size, reader_index, write_index, out>>
      /\ fault' \in {"MakeSpace", "EnsureWriteableBytes", "undefined"}
  BY DEF ReadFdFull, storage
<1>2. TypeOK'
  BY <1>1 DEF TypeOK
<1> QED
  BY <1>1, <1>2 DEF Readable

\* Three cuts of a string: the first i bytes and the next j are the first i + j.
LEMMA SplitFront ==
  ASSUME NEW d \in Seq(Byte), NEW i \in Nat, NEW j \in Nat, i + j <= Len(d)
  PROVE  SubSeq(d, 1, i) \o SubSeq(SubSeq(d, i + 1, Len(d)), 1, j) = SubSeq(d, 1, i + j)
<1> DEFINE head == SubSeq(d, 1, i)
           rest == SubSeq(d, i + 1, Len(d))
           next == SubSeq(rest, 1, j)
           both == SubSeq(d, 1, i + j)
<1>0. Len(d) \in Nat
  OBVIOUS
<1>1. head \in Seq(Byte) /\ Len(head) = i /\ \A m \in 1 .. i : head[m] = d[m]
  BY <1>0
<1>2. /\ rest \in Seq(Byte) /\ Len(rest) = Len(d) - i
      /\ \A m \in 1 .. Len(d) - i : rest[m] = d[i + m]
  BY <1>0
<1>3. both \in Seq(Byte) /\ Len(both) = i + j /\ \A m \in 1 .. i + j : both[m] = d[m]
  BY <1>0
<1> HIDE DEF head, rest, both
<1>4. next \in Seq(Byte) /\ Len(next) = j /\ \A m \in 1 .. j : next[m] = rest[m]
  BY <1>0, <1>2
<1> HIDE DEF next
<1>5. /\ head \o next \in Seq(Byte) /\ Len(head \o next) = i + j
      /\ \A m \in 1 .. i + j :
           (head \o next)[m] = IF m <= i THEN head[m] ELSE next[m - i]
  BY <1>1, <1>4, ConcatProperties
<1>6. \A m \in 1 .. i + j : (head \o next)[m] = both[m]
  <2> SUFFICES ASSUME NEW m \in 1 .. i + j PROVE (head \o next)[m] = both[m]
    OBVIOUS
  <2>1. CASE m <= i
    <3>1. m \in 1 .. i /\ (head \o next)[m] = head[m]
      BY <2>1, <1>5
    <3>2. head[m] = d[m]
      BY <3>1, <1>1
    <3>3. both[m] = d[m]
      BY <1>3
    <3> QED
      BY <3>1, <3>2, <3>3
  <2>2. CASE ~(m <= i)
    <3>1. m - i \in 1 .. j /\ m - i \in 1 .. Len(d) - i /\ i + (m - i) = m
      BY <2>2, <1>0
    <3>2. (head \o next)[m] = next[m - i]
      BY <2>2, <1>5
    <3>3. next[m - i] = rest[m - i] /\ rest[m - i] = d[m]
      BY <3>1, <1>2, <1>4
    <3>4. both[m] = d[m]
      BY <1>3
    <3> QED
      BY <3>2, <3>3, <3>4
  <2> QED
    BY <2>1, <2>2
<1>7. head \o next = both
  BY <1>3, <1>5, <1>6, SeqEqual
<1> QED
  BY <1>7 DEF head, next, rest, both

\* A read as long as the buffer appends a front part of what was read.
LEMMA ReadFdLongStep ==
  ASSUME TypeOK, NEW d \in Data, ReadFdLong(d)
  PROVE  /\ TypeOK' /\ out' = out
         /\ Len(d) >= CheapPrepend + InitialSize
         /\ \E k \in 0 .. Len(d) : Readable' = Readable \o SubSeq(d, 1, k)
<1> DEFINE room == WriteableBytes
           more == Len(d) - size
           head == SubSeq(d, 1, room)
           filled == CopyTo(buffer, write_index, head)
           kept == SubSeq(SubSeq(d, room + 1, Len(d)), 1, more)
<1>1. d \in Seq(Byte) /\ Len(d) \in Nat
  BY BufferAssumption
<1>2. /\ Len(d) >= size /\ out' = out /\ fault' = fault
      /\ Pushed(filled, size, reader_index, size, kept)
  BY DEF ReadFdLong
<1>3. /\ size \in Nat /\ write_index \in 0 .. size /\ size >= CheapPrepend + InitialSize
      /\ room \in Nat /\ more \in Nat /\ room + more \in 0 .. Len(d)
      /\ write_index + room = size
  BY <1>1, <1>2 DEF TypeOK, WriteableBytes
<1> HIDE DEF room, more
<1>4. head \in Seq(Byte) /\ Len(head) = room
  BY <1>1, <1>3
<1>5. kept \in Seq(Byte)
  <2>1. SubSeq(d, room + 1, Len(d)) \in Seq(Byte)
        /\ Len(SubSeq(d, room + 1, Len(d))) = Len(d) - room
    BY <1>1, <1>3
  <2> HIDE DEF head
  <2> QED
    BY <1>1, <1>3, <2>1
<1>6. head \o kept = SubSeq(d, 1, room + more)
  BY <1>1, <1>3, SplitFront
<1> HIDE DEF head, kept
<1>7. /\ GoodStore(filled, size, reader_index, size)
      /\ ReadableIn(filled, reader_index, size) = Readable \o head
  <2>1. write_index + Len(head) = size /\ write_index + Len(head) <= size
    BY <1>3, <1>4
  <2>2. /\ GoodStore(filled, size, reader_index, write_index + Len(head))
        /\ ReadableIn(filled, reader_index, write_index + Len(head))
             = ReadableIn(buffer, reader_index, write_index) \o head
    BY <2>1, <1>4, StoreIsGood, WrittenBehind
  <2> QED
    BY <2>1, <2>2 DEF Readable
<1> HIDE DEF filled
<1>8. /\ GoodStore(buffer', size', reader_index', write_index')
      /\ Readable' = (Readable \o head) \o kept
  BY <1>2, <1>5, <1>7, PushedGood
<1>9. (Readable \o head) \o kept = Readable \o (head \o kept)
  <2>1. Readable \in Seq(Byte)
    BY StoreIsGood, ReadableSeq DEF Readable
  <2> QED
    BY <2>1, <1>4, <1>5, ConcatAssociative
<1>10. TypeOK'
  BY <1>2, <1>8, TypeFromStore DEF TypeOK
<1>11. Readable' = Readable \o SubSeq(d, 1, room + more)
  BY <1>6, <1>8, <1>9
<1>12. Len(d) >= CheapPrepend + InitialSize
  BY <1>1, <1>2, <1>3, BufferAssumption
<1> QED
  BY <1>2, <1>3, <1>10, <1>11, <1>12

-----------------------------------------------------------------------------
(* The theorems.                                                           *)

\* Initially the storage is typed and the queue is empty.
LEMMA InitGood == Init => TypeOK /\ Readable = <<>> /\ out = <<>>
<1> SUFFICES ASSUME Init PROVE TypeOK /\ Readable = <<>> /\ out = <<>>
  OBVIOUS
<1>1. TypeOK
  BY BufferAssumption DEF Init, TypeOK
<1>2. Readable \in Seq(Byte) /\ Len(Readable) = 0
  BY <1>1, BufferAssumption, StoreIsGood, ReadableSeq DEF Init, Readable
<1> QED
  BY <1>1, <1>2, EmptySeq DEF Init

\* Every step keeps the type.
LEMMA NextType == TypeOK /\ [Next]_vars => TypeOK'
<1> SUFFICES ASSUME TypeOK, [Next]_vars PROVE TypeOK'
  OBVIOUS
<1>1. ASSUME NEW d \in Data, PushBack(d) PROVE TypeOK'
  BY <1>1, PushBackStep
<1>2. ASSUME NEW d \in Data, PushFront(d) PROVE TypeOK'
  BY <1>2, PushFrontStep
<1>3. ASSUME NEW d \in Data, EnsureWriteableBytes(Len(d)) PROVE TypeOK'
  <2>1. Len(d) \in Nat
    BY BufferAssumption
  <2> QED
    BY <1>3, <2>1, EnsureStep
<1>4. ASSUME NEW d \in Data, ReadFdShort(d) PROVE TypeOK'
  BY <1>4, ReadFdShortStep
<1>5. ASSUME NEW d \in Data, ReadFdFull(d) PROVE TypeOK'
  BY <1>5, ReadFdFullStep
<1>6. ASSUME NEW d \in Data, ReadFdLong(d) PROVE TypeOK'
  BY <1>6, ReadFdLongStep
<1>7. ASSUME NEW k \in 0 .. ReadableBytes, Take(k) PROVE TypeOK'
  BY <1>7, TakeStep
<1>8. CASE UNCHANGED vars
  BY <1>8 DEF vars, storage, TypeOK
<1> QED
  BY <1>1, <1>2, <1>3, <1>4, <1>5, <1>6, <1>7, <1>8 DEF Next, WriteFd, Over

\* The indices stay ordered and inside a storage that never shrinks below its
\* first size, whatever is written, read or received (buffer.cpp:57-159).
THEOREM TypeCorrect == Spec => []TypeOK
<1>1. Init => TypeOK
  BY InitGood
<1> QED
  BY <1>1, NextType, PTL DEF Spec

\* No assertion of MakeSpace or EnsureWriteableBytes can fail for a caller of
\* PushBack or EnsureWriteableBytes (buffer.cpp:61, 68, 80).
THEOREM SpaceAssertionsHold == Spec => []SpaceAssertions
<1>1. TypeOK => SpaceAssertions
  <2> SUFFICES ASSUME TypeOK, NEW d \in Data
               PROVE
                 LET len == Len(d)
                     e == Ensured(buffer, size, reader_index, write_index, len)
                 IN
                 /\ WriteableBytes < len /\ ~TooSmall(size, reader_index, write_index, len)
                      => CheapPrepend < reader_index
                 /\ e.size - e.w >= len
                 /\ e.w - e.r = ReadableBytes
    BY DEF SpaceAssertions
  <2>1. Len(d) \in Nat
    BY BufferAssumption
  <2> DEFINE len == Len(d)
             e == Ensured(buffer, size, reader_index, write_index, len)
  <2>2. WriteableBytes < len /\ ~TooSmall(size, reader_index, write_index, len)
          => CheapPrepend < reader_index
    BY <2>1, StoreIsGood, CompactsForward DEF WriteableBytes
  <2>3. GoodSpace(e, buffer, reader_index, write_index, len)
    BY <2>1, StoreIsGood, EnsuredGood
  <2> HIDE DEF e
  <2>4. e.size - e.w >= len /\ e.w - e.r = ReadableBytes
    BY <2>1, <2>3 DEF GoodSpace, GoodStore, ReadableBytes
  <2> QED
    BY <2>2, <2>4 DEF e
<1> QED
  BY <1>1, TypeCorrect, PTL

\* The buffer implements the byte queue: PushBack, PushFront and short reads
\* lose nothing, and a read at least as long as the first buffer loses at most
\* its end (buffer.cpp:57-127, 142-147).
THEOREM ImplementsQueue == Spec => QueueSpec
<1>1. Init => Queue!Init
  BY InitGood DEF Queue!Init
<1>2. TypeOK /\ [Next]_vars => [Queue!Next]_(Queue!vars)
  <2> SUFFICES ASSUME TypeOK, [Next]_vars
               PROVE  Queue!Next \/ (Readable' = Readable /\ out' = out)
    BY DEF Queue!vars
  <2>1. ASSUME NEW d \in Data, PushBack(d) PROVE Queue!Next
    BY <2>1, PushBackStep DEF Queue!Next, Queue!WriteBack
  <2>2. ASSUME NEW d \in Data, PushFront(d) PROVE Queue!Next
    BY <2>2, PushFrontStep DEF Queue!Next, Queue!WriteFront
  <2>3. ASSUME NEW d \in Data, EnsureWriteableBytes(Len(d))
        PROVE  Readable' = Readable /\ out' = out
    <3>1. Len(d) \in Nat
      BY BufferAssumption
    <3> QED
      BY <2>3, <3>1, EnsureStep
  <2>4. ASSUME NEW d \in Data, ReadFdShort(d) PROVE Queue!Next
    BY <2>4, ReadFdShortStep DEF Queue!Next, Queue!WriteBack
  <2>5. ASSUME NEW d \in Data, ReadFdFull(d) PROVE Readable' = Readable /\ out' = out
    BY <2>5, ReadFdFullStep
  <2>6. ASSUME NEW d \in Data, ReadFdLong(d) PROVE Queue!Next
    BY <2>6, ReadFdLongStep DEF Queue!Next, Queue!ReceivePart
  <2>7. ASSUME NEW k \in 0 .. ReadableBytes, Take(k) PROVE Queue!Next
    <3>1. k \in 0 .. Len(Readable)
      BY StoreIsGood, ReadableSeq DEF Readable, ReadableBytes
    <3>2. out' = SubSeq(Readable, 1, k) /\ Readable' = SubSeq(Readable, k + 1, Len(Readable))
      BY <2>7, TakeStep
    <3> QED
      BY <3>1, <3>2 DEF Queue!Next, Queue!Consume
  <2>8. CASE UNCHANGED vars
    BY <2>8 DEF vars, storage, Readable
  <2> QED
    BY <2>1, <2>2, <2>3, <2>4, <2>5, <2>6, <2>7, <2>8 DEF Next, WriteFd, Over
<1> QED
  BY <1>1, <1>2, TypeCorrect, PTL DEF Spec, QueueSpec, Queue!Spec
=============================================================================
