---------------------------- MODULE MCEpollPoller ----------------------------
(* Small instances of EpollPoller for TLC.                                   *)
EXTENDS EpollPoller, TLC

CONSTANTS c1, c2, c3   \* channels

\* c1 and c2 use the same descriptor number, one after the other.
Descriptors == c1 :> 1 @@ c2 :> 1 @@ c3 :> 2
SameDescriptor == Permutations({c1, c2})

\* One set of events for each way through HandleEvent.
SomeReported == {{"OUT"}, {"IN", "OUT", "HUP"}, {"PRI"}, {"HUP"}, {"ERR"}}

\* No callback, or all of them.
SomeCallBackSets == {{}, CallBack}
=============================================================================
