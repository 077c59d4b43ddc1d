-------------------------- MODULE EpollPollerProofs --------------------------
(***************************************************************************)
(* Proofs about EpollPoller for any channels, descriptors and list sizes,  *)
(* in both builds, with system calls that work or may fail.                *)
(***************************************************************************)
EXTENDS EpollPoller, TLAPS

\* A descriptor belongs to one channel that exists.
FdUnique == \A c, d \in alive : FdOf[c] = FdOf[d] => c = d

\* A channel that does not exist, or is not known to the poller, is as the
\* constructor made it.
NewIsBlank ==
  /\ \A c \in Channel : c \notin alive => index[c] = "kNew"
  /\ \A c \in Channel : index[c] = "kNew" => events[c] = {}

\* What epoll holds for a descriptor belongs to the channel of that descriptor.
EntryOfChannel == \A f \in Fd :
  kernel[f] # Nothing => /\ kernel[f].ptr \in alive /\ FdOf[kernel[f].ptr] = f
                         /\ index[kernel[f].ptr] = "kAdd"

\* If epoll_ctl works, every channel that counts as added is watched.
AddedIsWatched ==
  ~sys_fails => \A c \in alive :
    index[c] = "kAdd" => kernel[FdOf[c]] = [ptr |-> c, events |-> events[c]]

\* The map in a Debug build.
MapOfChannels ==
  debug => /\ \A c \in alive : index[c] # "kNew" => HaveChannel(c)
           /\ \A f \in Fd : channel_map[f] # NoChannel =>
                /\ channel_map[f] \in alive /\ FdOf[channel_map[f]] = f
                /\ index[channel_map[f]] # "kNew"

\* No assertion about the map has failed.
NoMapFault == debug => fault \notin {"UpdateChannel", "RemoveChannel"}

\* The inductive invariant.
IInv ==
  /\ TypeOK /\ NoMapFault
  /\ Running => FdUnique /\ NewIsBlank /\ EntryOfChannel /\ AddedIsWatched /\ MapOfChannels

-----------------------------------------------------------------------------
(* The operators.                                                          *)

\* An entry for a channel is not the empty one.
LEMMA EntryIsSomething ==
  ASSUME NEW c \in Channel, NEW ev PROVE [ptr |-> c, events |-> ev] # Nothing
BY PollerAssumption DEF Nothing

\* Every event takes a branch of HandleEvent: IN, PRI and OUT those of the
\* events waited for, HUP and ERR those of close and error or, if there is
\* something to read, that of reading.  (Stated of the state after a Poll.)
LEMMA EventHasBranch ==
  ASSUME TypeOK', NEW c \in Channel, NEW want \in SUBSET Interest,
         revents'[c] # {},
         revents'[c] \intersect {"IN", "PRI"} # {} => "read" \in want,
         "OUT" \in revents'[c] => "write" \in want
  PROVE  /\ CallBacks(c)' \intersect Interest \subseteq want
         /\ want \union {"close", "error"} \subseteq callbacks'[c] => CallBacks(c)' # {}
<1>1. CallBacks(c)' \intersect Interest \subseteq want
  BY DEF CallBacks, Interest
<1>2. ASSUME want \union {"close", "error"} \subseteq callbacks'[c] PROVE CallBacks(c)' # {}
  <2>1. PICK e \in revents'[c] : e \in Happened
    BY Zenon DEF TypeOK
  <2>2. CASE e \in {"IN", "PRI"}
    <3>1. "read" \in CallBacks(c)'
      BY <1>2, <2>1, <2>2 DEF CallBacks
    <3> QED
      BY <3>1
  <2>3. CASE e = "OUT"
    <3>1. "write" \in CallBacks(c)'
      BY <1>2, <2>1, <2>3 DEF CallBacks
    <3> QED
      BY <3>1
  <2>4. CASE e = "HUP"
    <3>1. "read" \in CallBacks(c)' \/ "close" \in CallBacks(c)'
      BY <1>2, <2>1, <2>4 DEF CallBacks
    <3> QED
      BY <3>1
  <2>5. CASE e = "ERR"
    <3>1. "error" \in CallBacks(c)'
      BY <1>2, <2>1, <2>5 DEF CallBacks
    <3> QED
      BY <3>1
  <2> QED
    BY <2>1, <2>2, <2>3, <2>4, <2>5 DEF Happened
<1> QED
  BY <1>1, <1>2

\* The assertions of UpdateChannel about the map hold.
LEMMA MapIsAsExpected ==
  ASSUME IInv, Running, debug, NEW c \in alive PROVE MapAsExpected(c)
<1>0. c \in Channel /\ FdOf[c] \in Fd
  BY PollerAssumption DEF IInv, TypeOK
<1>1. CASE index[c] = "kNew"
  <2>1. SUFFICES ASSUME channel_map[FdOf[c]] # NoChannel PROVE FALSE
    BY <1>1 DEF MapAsExpected
  <2>2. /\ channel_map[FdOf[c]] \in alive /\ FdOf[channel_map[FdOf[c]]] = FdOf[c]
        /\ index[channel_map[FdOf[c]]] # "kNew"
    BY <1>0, <2>1 DEF IInv, MapOfChannels
  <2>3. channel_map[FdOf[c]] = c
    BY <2>2 DEF IInv, FdUnique
  <2> QED
    BY <1>1, <2>2, <2>3
<1>2. CASE index[c] # "kNew"
  BY <1>2 DEF IInv, MapOfChannels, MapAsExpected
<1> QED
  BY <1>1, <1>2

-----------------------------------------------------------------------------
(* The steps.                                                              *)

\* The poller starts with nothing.
LEMMA InitInv == Init => IInv
<1> SUFFICES ASSUME Init PROVE IInv
  OBVIOUS
<1>1. TypeOK
  <2>1. debug \in BOOLEAN /\ sys_fails \in BOOLEAN
    BY DEF Init
  <2>2. add_to_loop \in [Channel -> BOOLEAN]
    BY Zenon DEF Init
  <2> QED
    BY <2>1, <2>2, PollerAssumption DEF Init, TypeOK, Index, Nothing
<1>2. NoMapFault
  BY DEF Init, NoMapFault
<1>3. FdUnique /\ NewIsBlank /\ EntryOfChannel /\ AddedIsWatched /\ MapOfChannels
  BY DEF Init, FdUnique, NewIsBlank, EntryOfChannel, AddedIsWatched, MapOfChannels
<1> QED
  BY <1>1, <1>2, <1>3 DEF IInv

\* A new channel has a descriptor of its own.
LEMMA ConstructInv ==
  ASSUME IInv, Running, NEW c \in Channel, Construct(c), UNCHANGED setting PROVE IInv'
<1> USE DEF Construct, poller, setting
<1>1. TypeOK'
  BY DEF IInv, TypeOK
<1>2. NoMapFault'
  BY DEF IInv, NoMapFault
<1>3. FdUnique' /\ NewIsBlank'
  BY DEF IInv, FdUnique, NewIsBlank, Running
<1>4. EntryOfChannel'
  BY DEF IInv, EntryOfChannel, Running, Nothing
<1>5. AddedIsWatched'
  BY DEF IInv, AddedIsWatched, NewIsBlank, Running
<1>6. MapOfChannels'
  BY DEF IInv, MapOfChannels, NewIsBlank, Running, HaveChannel
<1> QED
  BY <1>1, <1>2, <1>3, <1>4, <1>5, <1>6 DEF IInv

\* Callbacks are set or cleared.
LEMMA SetCallBacksInv ==
  ASSUME IInv, Running, NEW c \in Channel, SetCallBacks(c), UNCHANGED setting PROVE IInv'
<1>1. UNCHANGED <<debug, sys_fails, alive, events, revents, index, add_to_loop, handing,
                 channel_map, kernel, list_size, active, fault>>
  BY DEF SetCallBacks, poller, setting
<1>2. callbacks' \in [Channel -> SUBSET CallBack]
  <2>1. PICK set \in CallBackSets : callbacks' = [callbacks EXCEPT ![c] = set]
    BY DEF SetCallBacks
  <2>2. set \in SUBSET CallBack
    BY PollerAssumption
  <2> QED
    BY <2>1, <2>2 DEF IInv, TypeOK
<1>3. TypeOK'
  BY <1>1, <1>2 DEF IInv, TypeOK
<1>4. NoMapFault'
  BY <1>1 DEF IInv, NoMapFault
<1>5. (FdUnique /\ NewIsBlank /\ EntryOfChannel /\ AddedIsWatched /\ MapOfChannels)'
  BY <1>1 DEF IInv, FdUnique, NewIsBlank, EntryOfChannel, AddedIsWatched, MapOfChannels,
              HaveChannel, Nothing
<1> QED
  BY <1>3, <1>4, <1>5 DEF IInv

\* Update: epoll accepts the operation, or the process survives a failed ADD or
\* MOD and dies of a failed DEL.
LEMMA UpdateCases ==
  ASSUME Running, NEW op \in {"ADD", "MOD", "DEL"}, NEW c \in Channel, Update(op, c)
  PROVE  \/ /\ CtlAccepts(op, FdOf[c]) /\ fault' = "none"
            /\ kernel' = [kernel EXCEPT ![FdOf[c]] = CtlEntry(op, c)]
         \/ /\ sys_fails \/ ~CtlAccepts(op, FdOf[c])
            /\ kernel' = kernel
            /\ fault' = IF op = "DEL" THEN "abort" ELSE "none"
BY DEF Update, AfterMessage, LogLevel, IsAbort, Running

\* A channel changes its events.
LEMMA SetEventsInv ==
  ASSUME IInv, Running, NEW c \in Channel, SetEvents(c), UNCHANGED setting PROVE IInv'
<1> DEFINE f == FdOf[c]
           op == Operation(c)
<1>0. /\ TypeOK /\ c \in alive /\ f \in Fd
      /\ FdUnique /\ NewIsBlank /\ EntryOfChannel /\ AddedIsWatched /\ MapOfChannels
  BY PollerAssumption DEF IInv, SetEvents
<1>1. /\ UNCHANGED <<debug, sys_fails, alive, revents, callbacks, handing, list_size, active>>
      /\ add_to_loop' = [add_to_loop EXCEPT ![c] = TRUE]
  BY DEF SetEvents, ChannelUpdate, setting
<1>2. /\ events'[c] \in SUBSET Interest /\ events' \in [Channel -> SUBSET Interest]
      /\ \A d \in Channel : d # c => events'[d] = events[d]
  <2>1. PICK ev \in {events[c] \union {"read"}, events[c] \ {"read"},
                     events[c] \union {"write"}, events[c] \ {"write"}, {}} :
             events' = [events EXCEPT ![c] = ev]
    BY DEF SetEvents
  <2>2. ev \in SUBSET Interest
    BY <1>0, <2>1 DEF TypeOK, Interest
  <2> QED
    BY <1>0, <2>1, <2>2 DEF TypeOK
<1>3. /\ channel_map' = IF index[c] = "kNew" THEN [channel_map EXCEPT ![f] = c] ELSE channel_map
      /\ index' = [index EXCEPT ![c] = IF op = "DEL" THEN "kDel" ELSE "kAdd"]
      /\ Update(op, c)
  BY <1>0, MapIsAsExpected DEF SetEvents, ChannelUpdate, UpdateChannel
<1>4. op \in {"ADD", "MOD", "DEL"}
  BY DEF Operation
<1>5. /\ index'[c] = (IF op = "DEL" THEN "kDel" ELSE "kAdd")
      /\ \A d \in Channel : d # c => index'[d] = index[d]
      /\ index' \in [Channel -> Index]
  BY <1>0, <1>3 DEF TypeOK, Index
<1>6. \/ /\ CtlAccepts(op, f) /\ fault' = "none"
         /\ kernel' = [kernel EXCEPT ![f] = CtlEntry(op, c)]
      \/ /\ sys_fails \/ ~CtlAccepts(op, f)
         /\ kernel' = kernel
         /\ fault' = IF op = "DEL" THEN "abort" ELSE "none"
  BY <1>3, <1>4, UpdateCases
<1>7. CtlEntry(op, c) = IF op = "DEL" THEN Nothing ELSE [ptr |-> c, events |-> events'[c]]
  BY DEF CtlEntry
<1>8. /\ kernel' \in [Fd -> [ptr : Channel \union {NoChannel}, events : SUBSET Interest]]
      /\ \A g \in Fd : g # f => kernel'[g] = kernel[g]
  <2>1. CtlEntry(op, c) \in [ptr : Channel \union {NoChannel}, events : SUBSET Interest]
    BY <1>2, <1>7 DEF Nothing
  <2> QED
    BY <1>0, <1>6, <2>1 DEF TypeOK
<1>9. fault' \in {"none", "abort"}
  BY <1>6
<1>10. TypeOK'
  <2>1. channel_map' \in [Fd -> Channel \union {NoChannel}]
    BY <1>0, <1>3 DEF TypeOK
  <2>2. add_to_loop' \in [Channel -> BOOLEAN]
    BY <1>0, <1>1, Zenon DEF TypeOK
  <2> QED
    BY <1>0, <1>1, <1>2, <1>5, <1>8, <1>9, <2>1, <2>2 DEF TypeOK
<1>11. NoMapFault'
  BY <1>1, <1>9 DEF IInv, NoMapFault
\* epoll has the channel's own entry or none.
<1>12. kernel[f] # Nothing => kernel[f].ptr = c /\ index[c] = "kAdd"
  BY <1>0 DEF EntryOfChannel, FdUnique
<1>13. ASSUME Running' PROVE EntryOfChannel' /\ AddedIsWatched'
  <2>1. \A d \in alive : d # c => FdOf[d] # f /\ FdOf[d] \in Fd /\ d \in Channel
    BY <1>0, PollerAssumption DEF FdUnique, TypeOK
  <2>2. \A g \in Fd : g # f /\ kernel[g] # Nothing => kernel[g].ptr # c
    BY <1>0 DEF EntryOfChannel
  <2>3. CASE /\ CtlAccepts(op, f)
             /\ kernel'[f] = CtlEntry(op, c)
    <3>1. EntryOfChannel'
      <4> SUFFICES ASSUME NEW g \in Fd, kernel'[g] # Nothing
                   PROVE  /\ kernel'[g].ptr \in alive /\ FdOf[kernel'[g].ptr] = g
                          /\ index'[kernel'[g].ptr] = "kAdd"
        BY <1>1 DEF EntryOfChannel, Nothing
      <4>1. CASE g = f
        BY <1>0, <1>5, <1>7, <2>3, <4>1
      <4>2. CASE g # f
        BY <1>0, <1>5, <1>8, <2>2, <4>2 DEF EntryOfChannel, TypeOK
      <4> QED
        BY <4>1, <4>2
    <3>2. AddedIsWatched'
      <4> SUFFICES ASSUME ~sys_fails, NEW d \in alive, index'[d] = "kAdd"
                   PROVE  kernel'[FdOf[d]] = [ptr |-> d, events |-> events'[d]]
        BY <1>1 DEF AddedIsWatched
      <4>1. CASE d = c
        BY <1>5, <1>7, <2>3, <4>1
      <4>2. CASE d # c
        BY <1>0, <1>2, <1>5, <1>8, <2>1, <4>2 DEF AddedIsWatched
      <4> QED
        BY <4>1, <4>2
    <3> QED
      BY <3>1, <3>2
  <2>4. CASE /\ sys_fails \/ ~CtlAccepts(op, f)
             /\ kernel' = kernel /\ op # "DEL"
    <3>1. EntryOfChannel'
      <4> SUFFICES ASSUME NEW g \in Fd, kernel[g] # Nothing
                   PROVE  /\ kernel[g].ptr \in alive /\ FdOf[kernel[g].ptr] = g
                          /\ index'[kernel[g].ptr] = "kAdd"
        BY <1>1, <2>4 DEF EntryOfChannel, Nothing
      <4>1. /\ kernel[g].ptr \in alive /\ FdOf[kernel[g].ptr] = g
            /\ index[kernel[g].ptr] = "kAdd"
        BY <1>0 DEF EntryOfChannel
      <4> QED
        BY <1>0, <1>5, <2>4, <4>1 DEF TypeOK
    <3>2. ASSUME ~sys_fails PROVE FALSE
      <4>1. op = "ADD" <=> kernel[f] = Nothing
        <5>1. CASE index[c] = "kAdd"
          <6>1. kernel[f] # Nothing
            BY <1>0, <3>2, <5>1, EntryIsSomething DEF AddedIsWatched
          <6> QED
            BY <5>1, <6>1 DEF Operation
        <5>2. CASE index[c] # "kAdd"
          BY <1>0, <1>12, <5>2 DEF Operation, TypeOK, Index
        <5> QED
          BY <5>1, <5>2
      <4> QED
        BY <2>4, <3>2, <4>1 DEF CtlAccepts
    <3> QED
      BY <1>1, <3>1, <3>2 DEF AddedIsWatched
  <2>5. \/ CtlAccepts(op, f) /\ kernel'[f] = CtlEntry(op, c)
        \/ (sys_fails \/ ~CtlAccepts(op, f)) /\ kernel' = kernel /\ op # "DEL"
    <3>1. kernel' = [kernel EXCEPT ![f] = CtlEntry(op, c)] => kernel'[f] = CtlEntry(op, c)
      BY <1>0 DEF TypeOK
    <3> QED
      BY <1>6, <1>13, <3>1 DEF Running
  <2> QED
    BY <2>3, <2>4, <2>5
<1>14. FdUnique' /\ NewIsBlank'
  <2>1. index'[c] # "kNew"
    BY <1>5
  <2> QED
    BY <1>0, <1>1, <1>2, <1>5, <2>1 DEF FdUnique, NewIsBlank
<1>15. MapOfChannels'
  <2> SUFFICES ASSUME debug PROVE MapOfChannels'
    BY <1>1 DEF MapOfChannels
  <2>1. index'[c] # "kNew" /\ channel_map'[f] = c /\ \A g \in Fd : g # f => channel_map'[g] = channel_map[g]
    BY <1>0, <1>3, <1>5 DEF TypeOK, MapOfChannels, HaveChannel
  <2>2. \A d \in alive : index'[d] # "kNew" => channel_map'[FdOf[d]] = d
    BY <1>0, <1>5, <2>1, PollerAssumption DEF MapOfChannels, HaveChannel, TypeOK, FdUnique
  <2>3. \A g \in Fd : channel_map'[g] # NoChannel =>
          /\ channel_map'[g] \in alive /\ FdOf[channel_map'[g]] = g
          /\ index'[channel_map'[g]] # "kNew"
    BY <1>0, <1>5, <2>1 DEF MapOfChannels, TypeOK
  <2> QED
    BY <1>1, <2>2, <2>3 DEF MapOfChannels, HaveChannel
<1> QED
  BY <1>10, <1>11, <1>13, <1>14, <1>15 DEF IInv

\* A channel is removed.
LEMMA RemoveChannelInv ==
  ASSUME IInv, Running, NEW c \in Channel, RemoveChannel(c), UNCHANGED setting PROVE IInv'
<1> DEFINE f == FdOf[c]
<1>0. /\ TypeOK /\ c \in alive /\ f \in Fd /\ events[c] = {} /\ index[c] # "kNew"
      /\ FdUnique /\ NewIsBlank /\ EntryOfChannel /\ AddedIsWatched /\ MapOfChannels
  BY PollerAssumption DEF IInv, RemoveChannel
<1>1. UNCHANGED <<debug, sys_fails, alive, events, revents, add_to_loop, callbacks, handing,
                 list_size, active>>
  BY DEF RemoveChannel, setting
<1>2. /\ channel_map' = Erased(c)
      /\ index' = [index EXCEPT ![c] = "kNew"]
      /\ IF index[c] = "kAdd" THEN Update("DEL", c) ELSE UNCHANGED <<kernel, fault>>
  BY <1>0 DEF RemoveChannel, MapOfChannels, StillWatched
<1>3. /\ index'[c] = "kNew" /\ index' \in [Channel -> Index]
      /\ \A d \in Channel : d # c => index'[d] = index[d]
  BY <1>0, <1>2 DEF TypeOK, Index
\* epoll lets the channel go, or the process dies.
<1>4. /\ \/ kernel' = [kernel EXCEPT ![f] = Nothing] /\ fault' = "none"
         \/ kernel' = kernel /\ fault' = "abort"
         \/ kernel' = kernel /\ fault' = "none" /\ index[c] # "kAdd"
  BY <1>2, UpdateCases DEF CtlEntry, Running
<1>5. TypeOK'
  <2>1. channel_map' \in [Fd -> Channel \union {NoChannel}]
    BY <1>0, <1>2 DEF TypeOK, Erased
  <2>2. /\ kernel' \in [Fd -> [ptr : Channel \union {NoChannel}, events : SUBSET Interest]]
        /\ fault' \in {"none", "abort"}
    BY <1>0, <1>4 DEF TypeOK, Nothing
  <2> QED
    BY <1>0, <1>1, <1>3, <2>1, <2>2 DEF TypeOK
<1>6. NoMapFault'
  BY <1>1, <1>4 DEF IInv, NoMapFault
<1>7. FdUnique' /\ NewIsBlank'
  BY <1>0, <1>1, <1>3 DEF FdUnique, NewIsBlank
<1>8. ASSUME Running' PROVE EntryOfChannel' /\ AddedIsWatched'
  <2>1. kernel'[f] = Nothing /\ \A g \in Fd : g # f => kernel'[g] = kernel[g]
    <3>1. index[c] # "kAdd" => kernel[f] = Nothing
      BY <1>0 DEF EntryOfChannel, FdUnique
    <3> QED
      BY <1>0, <1>4, <1>8, <3>1 DEF Running, TypeOK
  <2>2. EntryOfChannel'
    <3> SUFFICES ASSUME NEW g \in Fd, kernel'[g] # Nothing
                 PROVE  /\ kernel'[g].ptr \in alive /\ FdOf[kernel'[g].ptr] = g
                        /\ index'[kernel'[g].ptr] = "kAdd"
      BY <1>1 DEF EntryOfChannel, Nothing
    <3> QED
      BY <1>0, <1>3, <2>1 DEF EntryOfChannel, TypeOK
  <2>3. AddedIsWatched'
    <3> SUFFICES ASSUME ~sys_fails, NEW d \in alive, index'[d] = "kAdd"
                 PROVE  kernel'[FdOf[d]] = [ptr |-> d, events |-> events[d]]
      BY <1>1 DEF AddedIsWatched
    <3>1. d # c /\ d \in Channel /\ FdOf[d] # f /\ FdOf[d] \in Fd
      BY <1>0, <1>3, PollerAssumption DEF FdUnique, TypeOK
    <3> QED
      BY <1>0, <1>3, <2>1, <3>1 DEF AddedIsWatched
  <2> QED
    BY <2>2, <2>3
<1>9. MapOfChannels'
  <2> SUFFICES ASSUME debug PROVE MapOfChannels'
    BY <1>1 DEF MapOfChannels
  <2>1. channel_map'[f] = NoChannel /\ \A g \in Fd : g # f => channel_map'[g] = channel_map[g]
    BY <1>0, <1>2 DEF TypeOK, Erased
  <2>2. \A d \in alive : index'[d] # "kNew" => channel_map'[FdOf[d]] = d
    BY <1>0, <1>3, <2>1, PollerAssumption DEF MapOfChannels, HaveChannel, TypeOK, FdUnique
  <2>3. \A g \in Fd : channel_map'[g] # NoChannel =>
          /\ channel_map'[g] \in alive /\ FdOf[channel_map'[g]] = g
          /\ index'[channel_map'[g]] # "kNew"
    BY <1>0, <1>3, <2>1 DEF MapOfChannels, TypeOK
  <2> QED
    BY <1>1, <2>2, <2>3 DEF MapOfChannels, HaveChannel
<1> QED
  BY <1>5, <1>6, <1>7, <1>8, <1>9 DEF IInv

\* A channel is destroyed: neither epoll nor the map of a Debug build has it.
LEMMA DestroyInv ==
  ASSUME IInv, Running, NEW c \in Channel, Destroy(c), UNCHANGED setting PROVE IInv'
<1> USE DEF Destroy, poller, setting
<1>0. /\ TypeOK
      /\ FdUnique /\ NewIsBlank /\ EntryOfChannel /\ AddedIsWatched /\ MapOfChannels
  BY DEF IInv
<1>1. TypeOK'
  <2>1. add_to_loop' \in [Channel -> BOOLEAN]
    BY <1>0, Zenon DEF TypeOK
  <2>2. fault' \in {"none", "~Channel"}
    OBVIOUS
  <2>3. handing' \in alive' \union {NoChannel} /\ active' \subseteq alive' /\ alive' \subseteq Channel
    BY <1>0 DEF TypeOK
  <2>4. revents' \in [Channel -> SUBSET Happened] /\ callbacks' \in [Channel -> SUBSET CallBack]
    BY <1>0 DEF TypeOK
  <2> QED
    BY <1>0, <2>1, <2>2, <2>3, <2>4 DEF TypeOK
<1>2. NoMapFault'
  BY DEF IInv, NoMapFault
<1>3. FdUnique' /\ NewIsBlank'
  BY <1>0 DEF FdUnique, NewIsBlank
<1>4. EntryOfChannel'
  BY <1>0 DEF EntryOfChannel, Nothing
<1>5. AddedIsWatched'
  BY <1>0 DEF AddedIsWatched
<1>6. MapOfChannels'
  BY <1>0 DEF MapOfChannels, HaveChannel
<1> QED
  BY <1>1, <1>2, <1>3, <1>4, <1>5, <1>6 DEF IInv

\* Poll: the pointers that epoll returns are channels, with the events reported
\* for their descriptors.
LEMMA PollInv == ASSUME IInv, Running, Poll, UNCHANGED setting PROVE IInv'
<1>0. TypeOK /\ EntryOfChannel /\ active = {} /\ handing = NoChannel
  BY DEF IInv, Poll
<1>1. UNCHANGED <<debug, sys_fails, alive, events, index, add_to_loop, callbacks, handing,
                 channel_map, kernel>>
  BY DEF Poll, setting
<1>2. PICK ready \in SUBSET {f \in Fd : kernel[f] # Nothing} \ {{}} :
      \E happened \in [ready -> Reported] :
        /\ FillActiveChannels(happened)
        /\ list_size' \in {list_size, 2 * list_size}
  BY DEF Poll
<1>3. PICK happened \in [ready -> Reported] :
        /\ FillActiveChannels(happened)
        /\ list_size' \in {list_size, 2 * list_size}
  BY <1>2
<1> DEFINE reported == {kernel[f].ptr : f \in ready}
<1>4. \A c \in reported : c \in alive /\ c \in Channel /\ FdOf[c] \in ready
  BY <1>0, <1>2 DEF EntryOfChannel, TypeOK
<1>5. DOMAIN happened = ready /\ \A f \in ready : happened[f] \in Reported
  BY <1>3
<1>6. \/ UNCHANGED <<revents, active>> /\ fault' = "FillActiveChannels"
      \/ /\ revents' = [c \in Channel |-> IF c \in reported THEN happened[FdOf[c]] ELSE revents[c]]
         /\ active' = reported /\ fault' = fault
  BY <1>3, <1>5 DEF FillActiveChannels
<1>7. TypeOK'
  <2>1. list_size' \in Nat \ {0}
    BY <1>0, <1>3 DEF TypeOK
  <2>2. revents' \in [Channel -> SUBSET Happened]
    BY <1>0, <1>4, <1>5, <1>6, PollerAssumption DEF TypeOK
  <2>3. active' \subseteq alive
    BY <1>0, <1>4, <1>6
  <2>4. fault' \in {"none", "FillActiveChannels"}
    BY <1>6 DEF Running
  <2> QED
    BY <1>0, <1>1, <2>1, <2>2, <2>3, <2>4 DEF TypeOK
<1>8. NoMapFault'
  BY <1>6 DEF NoMapFault, Running
<1>9. (FdUnique /\ NewIsBlank /\ EntryOfChannel /\ AddedIsWatched /\ MapOfChannels)'
  BY <1>1 DEF IInv, FdUnique, NewIsBlank, EntryOfChannel, AddedIsWatched, MapOfChannels,
              HaveChannel, Nothing
<1> QED
  BY <1>7, <1>8, <1>9 DEF IInv

\* An epoll_wait that fails ends the process; beginning and ending a callback
\* changes no channel.
LEMMA HandleInv ==
  ASSUME IInv, Running, UNCHANGED setting,
         PollFails \/ HandleEventEnd \/ \E c \in Channel : HandleEvent(c)
  PROVE  IInv'
<1>0. TypeOK
  BY DEF IInv
<1>1. UNCHANGED <<debug, sys_fails, alive, events, revents, index, add_to_loop, callbacks,
                 channel_map, kernel, list_size>>
  BY DEF PollFails, HandleEventEnd, HandleEvent, channels, poller, setting
<1>2. /\ fault' \in {"none", "abort"}
      /\ active' \subseteq active
      /\ handing' \in active \union {handing, NoChannel}
  BY DEF PollFails, HandleEventEnd, HandleEvent, AfterMessage, Running
<1>3. TypeOK'
  BY <1>0, <1>1, <1>2 DEF TypeOK
<1>4. NoMapFault'
  BY <1>1, <1>2 DEF IInv, NoMapFault
<1>5. (FdUnique /\ NewIsBlank /\ EntryOfChannel /\ AddedIsWatched /\ MapOfChannels)'
  BY <1>1 DEF IInv, FdUnique, NewIsBlank, EntryOfChannel, AddedIsWatched, MapOfChannels,
              HaveChannel, Nothing
<1> QED
  BY <1>3, <1>4, <1>5 DEF IInv

-----------------------------------------------------------------------------
(* The theorems.                                                           *)

\* IInv is an invariant of the poller and its channels (epoll_poller.cpp,
\* channel.cpp), whatever the client and the kernel do.
THEOREM Invariance == Spec => []IInv
<1>1. IInv /\ [Next]_vars => IInv'
  <2> SUFFICES ASSUME IInv, [Next]_vars PROVE IInv'
    OBVIOUS
  <2>1. CASE Running /\ Next
    <3>1. CASE Over
      BY <2>1, <3>1 DEF Over
    <3>2. CASE ~Over
      BY <2>1, <3>2, ConstructInv, SetCallBacksInv, SetEventsInv, RemoveChannelInv, DestroyInv, PollInv,
         HandleInv DEF Next
    <3> QED
      BY <3>1, <3>2
  <2>2. CASE UNCHANGED vars
    BY <2>2 DEF IInv, vars, setting, channels, poller, TypeOK, NoMapFault,
                Running, FdUnique, NewIsBlank, EntryOfChannel, AddedIsWatched, MapOfChannels,
                HaveChannel, Nothing
  <2> QED
    BY <2>1, <2>2 DEF Next, Over
<1> QED
  BY <1>1, InitInv, PTL DEF Spec

\* The variables have their types; in particular the channel being handled and
\* those still to be handled exist (channel.cpp:32-47).
THEOREM TypeCorrect == Spec => []TypeOK
<1>1. IInv => TypeOK
  BY DEF IInv
<1> QED
  BY <1>1, Invariance, PTL

\* As long as epoll_ctl works, epoll watches exactly the channels whose index_ is
\* kAdd, for exactly the events they last asked for (epoll_poller.cpp:56-99).
THEOREM InterestStaysInSync == Spec => []InterestInSync
<1>1. IInv => InterestInSync
  <2> SUFFICES ASSUME IInv, Running, ~sys_fails, NEW f \in Fd
               PROVE  kernel[f] = IF \E c \in alive : FdOf[c] = f /\ index[c] = "kAdd"
                                  THEN LET c == CHOOSE c \in alive : FdOf[c] = f /\ index[c] = "kAdd"
                                       IN [ptr |-> c, events |-> events[c]]
                                  ELSE Nothing
    BY DEF InterestInSync
  <2>1. CASE \E c \in alive : FdOf[c] = f /\ index[c] = "kAdd"
    <3> DEFINE c == CHOOSE c \in alive : FdOf[c] = f /\ index[c] = "kAdd"
    <3>1. c \in alive /\ FdOf[c] = f /\ index[c] = "kAdd"
      BY <2>1
    <3>2. kernel[f] = [ptr |-> c, events |-> events[c]]
      BY <3>1 DEF IInv, AddedIsWatched
    <3> QED
      BY <2>1, <3>2
  <2>2. CASE ~ \E c \in alive : FdOf[c] = f /\ index[c] = "kAdd"
    BY <2>2 DEF IInv, EntryOfChannel
  <2> QED
    BY <2>1, <2>2
<1> QED
  BY <1>1, Invariance, PTL

\* Every pointer in epoll's table is a channel that exists, although a failed
\* ADD or MOD is survived (epoll_poller.cpp:86-99, 110-117).
THEOREM PointersAreAlive == Spec => []NoDanglingPointer
<1>1. IInv => NoDanglingPointer
  BY DEF IInv, EntryOfChannel, NoDanglingPointer
<1> QED
  BY <1>1, Invariance, PTL

\* In a Debug build the map has exactly the channels that are known, and the
\* assertions about it hold (epoll_poller.cpp:65-76, 89-94).
THEOREM MapStaysExact == Spec => []MapExact
<1>1. IInv => MapExact
  <2> SUFFICES ASSUME IInv, debug PROVE MapExact
    BY DEF MapExact
  <2>1. ASSUME Running, NEW c \in alive, HaveChannel(c) PROVE index[c] # "kNew"
    <3>1. FdOf[c] \in Fd /\ c # NoChannel
      BY PollerAssumption DEF IInv, TypeOK
    <3> QED
      BY <2>1, <3>1 DEF IInv, MapOfChannels, HaveChannel
  <2> QED
    BY <2>1 DEF IInv, MapOfChannels, NoMapFault, MapExact
<1> QED
  BY <1>1, Invariance, PTL

\* As long as epoll_ctl works, a channel that Poll returns runs its read or write
\* callback only for an event it waits for, and runs some callback if it has those
\* for what it waits for and for close and error (channel.cpp:32-47).  What
\* epoll holds for the channel's descriptor is its own entry (EntryOfChannel)
\* with the events it waits for (AddedIsWatched).
THEOREM EventsAreHandled == Spec => PollFindsWork
<1> DEFINE Works(c) ==
             /\ CallBacks(c)' \intersect Interest \subseteq events[c]
             /\ events[c] \union {"close", "error"} \subseteq callbacks[c] => CallBacks(c)' # {}
           Step == ~sys_fails => \A c \in active' \ active : Works(c)
<1>1. IInv /\ IInv' /\ [Next]_vars => [Step]_vars
  <2> SUFFICES ASSUME IInv, IInv', Next, ~sys_fails, NEW c \in active', c \notin active
               PROVE  Works(c)
    BY DEF Next, Over
  <2>1. Running /\ Poll
    BY DEF Next, Over, vars, setting, channels, Construct, SetCallBacks, SetEvents,
           RemoveChannel, Destroy, PollFails, HandleEvent, HandleEventEnd
  <2>2. TypeOK /\ TypeOK' /\ EntryOfChannel /\ AddedIsWatched
    BY <2>1 DEF IInv
  <2>3. events' = events /\ callbacks' = callbacks
    BY <2>1 DEF Poll
  <2>4. PICK ready \in SUBSET {f \in Fd : kernel[f] # Nothing} :
        \E happened \in [ready -> Reported] :
          /\ \A f \in ready : CanReport(f, happened[f])
          /\ FillActiveChannels(happened)
    BY <2>1 DEF Poll
  <2>5. PICK happened \in [ready -> Reported] :
          /\ \A f \in ready : CanReport(f, happened[f])
          /\ FillActiveChannels(happened)
    BY <2>4
  <2> DEFINE reported == {kernel[f].ptr : f \in ready}
  <2>6. /\ revents' = [d \in Channel |-> IF d \in reported THEN happened[FdOf[d]] ELSE revents[d]]
        /\ c \in reported
    <3>1. DOMAIN happened = ready
      BY <2>5
    <3> QED
      BY <2>5, <3>1 DEF FillActiveChannels
  <2>7. PICK f \in ready : c = kernel[f].ptr
    BY <2>6
  <2>8. c \in alive /\ c \in Channel /\ FdOf[c] = f /\ index[c] = "kAdd"
    BY <2>2, <2>4, <2>7 DEF EntryOfChannel, TypeOK
  <2>9. kernel[f].events = events[c]
    <3>1. kernel[FdOf[c]] = [ptr |-> c, events |-> events[c]]
      BY <2>2, <2>8 DEF AddedIsWatched
    <3> QED
      BY <2>8, <3>1
  <2>10. revents'[c] = happened[f] /\ happened[f] \in Reported
    BY <2>5, <2>6, <2>8
  <2>11. revents'[c] # {}
    BY <2>10, PollerAssumption
  <2>12. /\ revents'[c] \intersect {"IN", "PRI"} # {} => "read" \in events[c]
         /\ "OUT" \in revents'[c] => "write" \in events[c]
    BY <2>5, <2>9, <2>10 DEF CanReport
  <2>13. events[c] \in SUBSET Interest
    BY <2>2, <2>8 DEF TypeOK
  <2> QED
    BY <2>2, <2>3, <2>8, <2>11, <2>12, <2>13, EventHasBranch
<1> QED
  BY <1>1, Invariance, PTL DEF Spec, PollFindsWork
=============================================================================
