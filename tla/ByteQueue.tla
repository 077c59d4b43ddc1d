------------------------------ MODULE ByteQueue ------------------------------
(***************************************************************************)
(* What a network buffer promises: a queue of bytes, written at the back   *)
(* (and, for headers, at the front) and consumed from the front in order.  *)
(***************************************************************************)
EXTENDS Integers, Sequences

CONSTANTS
  Data,       \* the byte strings that can be written or received
  LossFrom    \* the length from which the end of a received string may be lost

VARIABLES content,   \* the bytes not yet consumed
          out        \* the bytes the last read gave away

vars == <<content, out>>

Init == content = <<>> /\ out = <<>>

WriteBack(d) == content' = content \o d /\ UNCHANGED out

WriteFront(d) == content' = d \o content /\ UNCHANGED out

\* Only a front part of a long string arrives.
ReceivePart(d) ==
  /\ Len(d) >= LossFrom
  /\ \E k \in 0 .. Len(d) : content' = content \o SubSeq(d, 1, k)
  /\ UNCHANGED out

Consume(k) ==
  /\ out' = SubSeq(content, 1, k)
  /\ content' = SubSeq(content, k + 1, Len(content))

Next ==
  \/ \E d \in Data : WriteBack(d) \/ WriteFront(d) \/ ReceivePart(d)
  \/ \E k \in 0 .. Len(content) : Consume(k)

Spec == Init /\ [][Next]_vars
=============================================================================
