-------------------------------- MODULE Latch --------------------------------
(***************************************************************************)
(* What turbo::CountDownLatch promises: Wait returns once, and only once,  *)
(* the count has come down to zero, and the latch never closes again.      *)
(***************************************************************************)
EXTENDS Integers

CONSTANTS Thread, Count

VARIABLES
  count,     \* what is left to count down
  inside     \* the threads inside Wait

vars == <<count, inside>>

Init == count = Count /\ inside = {}

EnterWait(t) ==
  /\ t \notin inside /\ inside' = inside \union {t}
  /\ UNCHANGED count

LeaveWait(t) ==
  /\ t \in inside /\ count <= 0
  /\ inside' = inside \ {t}
  /\ UNCHANGED count

CountDown == count' = count - 1 /\ UNCHANGED inside

Next == CountDown \/ \E t \in Thread : EnterWait(t) \/ LeaveWait(t)

Safety == Init /\ [][Next]_vars

Spec == Safety /\ \A t \in Thread : WF_vars(LeaveWait(t))
=============================================================================
