------------------------------- MODULE LogSink -------------------------------
(***************************************************************************)
(* What asynchronous logging promises its users: messages wait in one      *)
(* queue in the order of their Append calls, and move from its front to    *)
(* the log file.  A message leaves the queue without reaching the file     *)
(* only under overload, and then the file says so first.                   *)
(***************************************************************************)
EXTENDS Integers, Sequences

CONSTANTS
  Messages,   \* what can be logged
  Notice      \* the "Drop log messages" line

VARIABLES pending, file

vars == <<pending, file>>

Init == pending = <<>> /\ file = <<>>

Accept ==
  /\ \E m \in Messages : pending' = Append(pending, m)
  /\ UNCHANGED file

\* A prefix of the queue reaches the file.
Write ==
  \E k \in 1 .. Len(pending) :
    /\ file' = file \o SubSeq(pending, 1, k)
    /\ pending' = SubSeq(pending, k + 1, Len(pending))

\* Overload: of the first n messages only the first k reach the file,
\* behind a notice.  (The queue may be overloaded by messages it refused.)
Drop ==
  \E n \in 0 .. Len(pending) : \E k \in 0 .. n :
    /\ file' = Append(file, Notice) \o SubSeq(pending, 1, k)
    /\ pending' = SubSeq(pending, n + 1, Len(pending))

Next == Accept \/ Write \/ Drop

Spec == Init /\ [][Next]_vars
=============================================================================
