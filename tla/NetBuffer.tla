------------------------------ MODULE NetBuffer ------------------------------
(***************************************************************************)
(* turbo::Buffer (src/src/net/buffer.{h,cpp}), the byte buffer of a        *)
(* connection:                                                             *)
(*                                                                         *)
(*   | prependable | readable             | writeable |                    *)
(*   0        reader_index_          write_index     size()                *)
(*                                                                         *)
(* One thread uses it.  size_t arithmetic wraps at SizeLimit.              *)
(***************************************************************************)
EXTENDS Integers, Sequences

CONSTANTS
  CheapPrepend,   \* kCheapPrepend
  InitialSize,    \* the constructor's initial_size
  ExtraSize,      \* sizeof(extra_buf) in ReadFd
  SizeLimit,      \* 2^w, where size_t wraps
  MaxSize,        \* bound: the longest buffer the model lets grow
  MaxData,        \* bound: the longest string supplied
  Byte,           \* the values of a byte, 0 among them
  Data,           \* the byte strings a caller or a peer may supply
  Debug           \* TRUE: assert() is compiled in

ASSUME BufferAssumption ==
  /\ CheapPrepend \in Nat /\ InitialSize \in Nat /\ ExtraSize \in Nat
  /\ MaxSize \in Nat /\ MaxData \in Nat /\ SizeLimit \in Nat
  /\ SizeLimit > 2 * (MaxSize + MaxData + CheapPrepend)
  /\ 0 \in Byte /\ Data \subseteq Seq(Byte)
  /\ \A d \in Data : Len(d) <= MaxData
  /\ Debug \in BOOLEAN

VARIABLES
  buffer, size,                \* buffer_ and buffer_.size()
  reader_index, write_index,   \* reader_index_ and write_index
  out,                         \* the bytes the last read returned or sent
  fault                        \* how the process died, or "none"

storage == <<buffer, size, reader_index, write_index>>
vars == <<storage, out, fault>>

-----------------------------------------------------------------------------

WriteableBytes == size - write_index
ReadableBytes == write_index - reader_index
PrependableBytes == reader_index

\* The readable bytes, in order.
ReadableIn(b, r, w) == [i \in 1 .. w - r |-> b[r + i - 1]]
Readable == ReadableIn(buffer, reader_index, write_index)

\* std::copy of d to the cells from index at on.
CopyTo(b, at, d) ==
  [i \in DOMAIN b |-> IF i >= at /\ i < at + Len(d) THEN d[i - at + 1] ELSE b[i]]

(* Making space in a storage of n bytes b with indices r and w, for len     *)
(* more bytes.  The result is a record of the same four.                    *)

\* Mutant: the prepend area is counted as free space.
TooSmallNoPrepend(n, r, w, len) == (n - w) + r < len

\* The condition of MakeSpace: compacting would not free enough.
TooSmall(n, r, w, len) == (n - w) + r < CheapPrepend + len

\* MakeSpace by growing: resize keeps the bytes, the new ones are 0.
Grown(b, n, r, w, len) ==
  [buffer |-> [i \in 0 .. w + len - 1 |-> IF i < n THEN b[i] ELSE 0],
   size |-> w + len, r |-> r, w |-> w]

\* Mutant: the bytes are not moved, only the indices are.
IndicesMoved(b, n, r, w) ==
  [buffer |-> b, size |-> n, r |-> CheapPrepend, w |-> CheapPrepend + (w - r)]

\* MakeSpace by moving the readable bytes down to CheapPrepend.
Compacted(b, n, r, w) ==
  [buffer |-> [i \in DOMAIN b |->
                 IF i >= CheapPrepend /\ i < CheapPrepend + (w - r)
                 THEN b[r + (i - CheapPrepend)] ELSE b[i]],
   size |-> n, r |-> CheapPrepend, w |-> CheapPrepend + (w - r)]

\* The storage after EnsureWriteableBytes(len).
Ensured(b, n, r, w, len) ==
  IF n - w >= len
  THEN [buffer |-> b, size |-> n, r |-> r, w |-> w]
  ELSE IF TooSmall(n, r, w, len) THEN Grown(b, n, r, w, len)
                                 ELSE Compacted(b, n, r, w)

\* PushBack in that storage: ensure, copy, MoveWriteBackward.
Pushed(b, n, r, w, d) ==
  LET e == Ensured(b, n, r, w, Len(d)) IN
  /\ e.size <= MaxSize
  /\ buffer' = CopyTo(e.buffer, e.w, d)
  /\ size' = e.size
  /\ reader_index' = e.r
  /\ write_index' = e.w + Len(d)

-----------------------------------------------------------------------------

PushBack(d) ==
  Pushed(buffer, size, reader_index, write_index, d) /\ UNCHANGED <<out, fault>>

\* A caller that reserves room, writes at WriteableAddress and then calls
\* MoveWriteBackward does what PushBack does; one that only reserves:
EnsureWriteableBytes(len) ==
  LET e == Ensured(buffer, size, reader_index, write_index, len) IN
  /\ e.size <= MaxSize
  /\ buffer' = e.buffer /\ size' = e.size
  /\ reader_index' = e.r /\ write_index' = e.w
  /\ UNCHANGED <<out, fault>>

\* The caller keeps to the asserted contract len <= PrependableBytes().
PushFront(d) ==
  /\ Len(d) <= PrependableBytes
  /\ reader_index' = reader_index - Len(d)
  /\ buffer' = CopyTo(buffer, reader_index', d)
  /\ UNCHANGED <<size, write_index, out, fault>>

\* Mutant: both indices move.
Forward(k) == reader_index' = reader_index + k /\ write_index' = write_index + k

\* MoveReadBackward: an emptied buffer starts again behind the prepend area
\* (MoveReadAll).
MoveRead(k) ==
  IF k < ReadableBytes
  THEN reader_index' = reader_index + k /\ UNCHANGED write_index
  ELSE reader_index' = CheapPrepend /\ write_index' = CheapPrepend

\* MoveReadBackward, ReadToString, ReadAllToString and MoveReadAll: the first k
\* readable bytes leave.
Take(k) ==
  /\ k <= ReadableBytes
  /\ out' = SubSeq(Readable, 1, k)
  /\ MoveRead(k)
  /\ UNCHANGED <<buffer, size, fault>>

\* WriteFd, when write() takes k of the readable bytes.
WriteFd(k) == Take(k)

-----------------------------------------------------------------------------
(* ReadFd.                                                                 *)

\* readv filled the writeable bytes only in part.  (When readv or write fails
\* only *errno_info is set: a stuttering step.)
ReadFdShort(d) ==
  /\ Len(d) < WriteableBytes
  /\ buffer' = CopyTo(buffer, write_index, d)
  /\ write_index' = write_index + Len(d)
  /\ UNCHANGED <<size, reader_index, out, fault>>

\* Bytes readv can deliver: one buffer, or two when the first is small.
ReadRoom == WriteableBytes + (IF WriteableBytes < ExtraSize THEN ExtraSize ELSE 0)

\* readv filled the writeable bytes and write_index became size().  The code
\* then pushes n - write_index of the extra bytes instead of n - write_able.
\* For n < size() that difference wraps: a Debug build dies on an assertion of
\* MakeSpace or EnsureWriteableBytes unless the wrapped sum makes resize
\* shrink the buffer; what is left is std::copy over a negative range, which
\* has no defined behaviour.
ReadFdFull(d) ==
  LET len == (Len(d) - size) % SizeLimit
      compacts == (CheapPrepend + len) % SizeLimit <= PrependableBytes
  IN
  /\ Len(d) >= WriteableBytes /\ Len(d) <= ReadRoom /\ Len(d) < size
  /\ fault' = IF Debug /\ compacts
              THEN IF CheapPrepend < reader_index THEN "EnsureWriteableBytes"
                                                  ELSE "MakeSpace"
              ELSE "undefined"
  /\ UNCHANGED <<storage, out>>

\* The same for n >= size(): the first n - size() extra bytes are kept, the
\* last size() - write_able are dropped.
ReadFdLong(d) ==
  LET filled == CopyTo(buffer, write_index, SubSeq(d, 1, WriteableBytes))
      extra == SubSeq(d, WriteableBytes + 1, Len(d))
  IN
  /\ Len(d) >= size /\ Len(d) <= ReadRoom
  /\ Pushed(filled, size, reader_index, size, SubSeq(extra, 1, Len(d) - size))
  /\ UNCHANGED <<out, fault>>

-----------------------------------------------------------------------------

Init ==
  /\ size = CheapPrepend + InitialSize
  /\ buffer = [i \in 0 .. size - 1 |-> 0]
  /\ reader_index = CheapPrepend /\ write_index = CheapPrepend
  /\ out = <<>> /\ fault = "none"

Alive == fault = "none"
Over == ~Alive /\ UNCHANGED vars

Next ==
  \/ Alive /\ \E d \in Data : \/ PushBack(d) \/ PushFront(d)
                              \/ EnsureWriteableBytes(Len(d))
                              \/ ReadFdShort(d) \/ ReadFdFull(d) \/ ReadFdLong(d)
  \/ Alive /\ \E k \in 0 .. ReadableBytes : Take(k) \/ WriteFd(k)
  \/ Over

Spec == Init /\ [][Next]_vars

-----------------------------------------------------------------------------
(* Properties.                                                             *)

\* The indices stay ordered and inside the storage, which never shrinks below
\* its first size.
TypeOK ==
  /\ size \in Nat /\ size >= CheapPrepend + InitialSize
  /\ buffer \in [0 .. size - 1 -> Byte]
  /\ reader_index \in 0 .. write_index
  /\ write_index \in 0 .. size
  /\ out \in Seq(Byte)
  /\ fault \in {"none", "MakeSpace", "EnsureWriteableBytes", "undefined"}

\* Whatever is asked for next, MakeSpace's assertion that there is something
\* to compact holds, and EnsureWriteableBytes ends with enough room
\* (buffer.cpp:61, 68, 80).
SpaceAssertions ==
  \A d \in Data :
    LET len == Len(d)
        e == Ensured(buffer, size, reader_index, write_index, len)
    IN
    /\ WriteableBytes < len /\ ~TooSmall(size, reader_index, write_index, len)
         => CheapPrepend < reader_index
    /\ e.size - e.w >= len
    /\ e.w - e.r = ReadableBytes

\* The buffer is a byte queue: growing, compacting, wrapping around after the
\* last read and reads into two places neither lose, duplicate nor reorder a
\* byte (buffer.cpp:57-127, 142-147), except that ReadFd may drop the end of a
\* read that is as long as the buffer.
Queue == INSTANCE ByteQueue WITH content <- Readable, LossFrom <- CheapPrepend + InitialSize
QueueSpec == Queue!Spec

\* MakeSpace asserts kCheapPrepend < reader_index_ (buffer.cpp:61), also when
\* ReadFd calls it through PushBack.
ReadFdMakesSpace == fault # "MakeSpace"
=============================================================================
