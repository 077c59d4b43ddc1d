----------------------------- MODULE EpollPoller -----------------------------
(***************************************************************************)
(* turbo::EpollPoller, turbo::Poller and the turbo::Channels they watch    *)
(* (src/src/net/{epoll_poller,poller,channel,event_loop}.{h,cpp}).         *)
(*                                                                         *)
(* Everything runs in the loop's thread (AssertInLoopThread).  A client    *)
(* creates a channel per file descriptor, changes the events it waits for, *)
(* polls, hands the active channels their events, and removes a channel    *)
(* before destroying it.  It may do all of that from inside a callback.    *)
(* EventLoop passes a channel's calls on to its poller_, taken as set: the *)
(* class has no code yet that sets it.                                     *)
(***************************************************************************)
EXTENDS Integers, FiniteSets

CONSTANTS
  Channel, NoChannel,
  Fd, FdOf,        \* the descriptor of each channel; numbers are reused
  InitListSize,    \* kInitEventListSize
  MaxListSize,     \* bound: the event list is not grown beyond this
  Reported,        \* the sets of events epoll_wait reports for one descriptor
  CallBackSets     \* bound: the sets of callbacks a channel may have

Interest == {"read", "write"}                     \* kReadEvent, kWriteEvent
Happened == {"IN", "PRI", "OUT", "HUP", "ERR"}    \* EPOLLIN, ...
CallBack == {"read", "write", "close", "error"}   \* read_call_back_, ...

ASSUME PollerAssumption ==
  /\ NoChannel \notin Channel /\ FdOf \in [Channel -> Fd]
  /\ InitListSize \in Nat \ {0} /\ MaxListSize \in Nat
  /\ Reported \subseteq SUBSET Happened /\ {} \notin Reported
  /\ CallBackSets \subseteq SUBSET CallBack

VARIABLES
  debug,          \* TRUE: assert() is compiled in
  sys_fails,      \* TRUE: epoll_ctl and epoll_wait may fail for reasons of
                  \* the kernel's own
  alive,          \* the channels that exist
  events,         \* events_
  revents,        \* revents_
  index,          \* index_
  add_to_loop,    \* add_to_loop_
  callbacks,      \* the callbacks that are set (a std::function may be empty)
  handing,        \* the channel whose event_handing_ is set, or NoChannel
  channel_map,    \* channel_map_, NoChannel where there is no entry
  kernel,         \* what epoll watches: the pointer and events of each Fd
  list_size,      \* event_list_.size()
  active,         \* the caller's list of active channels not yet handled
  fault           \* how the process died, or "none"

channels == <<alive, events, revents, index, add_to_loop, callbacks>>
poller == <<channel_map, kernel, list_size>>
setting == <<debug, sys_fails>>
vars == <<setting, channels, handing, poller, active, fault>>

Index == {"kNew", "kAdd", "kDel"}
Nothing == [ptr |-> NoChannel, events |-> {}]
Running == fault = "none"

Init ==
  /\ debug \in BOOLEAN /\ sys_fails \in BOOLEAN
  /\ alive = {} /\ events = [c \in Channel |-> {}]
  /\ revents = [c \in Channel |-> {}]
  /\ index = [c \in Channel |-> "kNew"]
  /\ add_to_loop = [c \in Channel |-> FALSE]
  /\ callbacks = [c \in Channel |-> {}]
  /\ handing = NoChannel /\ active = {}
  /\ channel_map = [f \in Fd |-> NoChannel]
  /\ kernel = [f \in Fd |-> Nothing]
  /\ list_size = InitListSize /\ fault = "none"

-----------------------------------------------------------------------------
(* epoll_ctl and EpollPoller::Update.                                      *)

\* epoll_ctl refuses to add what it has and to change or delete what it has not.
CtlAccepts(op, f) == (op = "ADD") <=> (kernel[f] = Nothing)

CtlEntry(op, c) ==
  IF op = "DEL" THEN Nothing ELSE [ptr |-> c, events |-> events'[c]]

\* A failing ADD or MOD is logged with LOG_SYS_FATAL, whose is_abort is true, a
\* failing DEL with LOG_SYS_ERROR, whose is_abort is false.
IsAbort(op) == op # "DEL"

\* Logger's constructor gives the message a level the other way round.
LogLevel(is_abort) == IF is_abort THEN "ERROR" ELSE "FATAL"

\* ~Logger aborts the process after a message of level FATAL.
AfterMessage(is_abort) == IF LogLevel(is_abort) = "FATAL" THEN "abort" ELSE "none"

Update(op, c) ==
  \/ /\ CtlAccepts(op, FdOf[c])
     /\ kernel' = [kernel EXCEPT ![FdOf[c]] = CtlEntry(op, c)]
     /\ UNCHANGED fault
  \/ /\ sys_fails \/ ~CtlAccepts(op, FdOf[c])
     /\ fault' = AfterMessage(IsAbort(op))
     /\ UNCHANGED kernel

HaveChannel(c) == channel_map[FdOf[c]] = c

\* The assertions of UpdateChannel about the map.
MapAsExpected(c) ==
  IF index[c] = "kNew" THEN channel_map[FdOf[c]] = NoChannel ELSE HaveChannel(c)

\* Mutant: a channel that was disabled is modified, not added again.
OperationNoReadd(c) ==
  IF index[c] = "kNew" THEN "ADD" ELSE IF events'[c] = {} THEN "DEL" ELSE "MOD"

\* What UpdateChannel asks of epoll.
Operation(c) ==
  IF index[c] \in {"kNew", "kDel"} THEN "ADD"
  ELSE IF events'[c] = {} THEN "DEL" ELSE "MOD"

UpdateChannel(c) ==
  IF debug /\ ~MapAsExpected(c)
  THEN fault' = "UpdateChannel" /\ UNCHANGED <<index, channel_map, kernel>>
  ELSE /\ channel_map' = IF index[c] = "kNew" THEN [channel_map EXCEPT ![FdOf[c]] = c]
                                              ELSE channel_map
       /\ index' = [index EXCEPT ![c] = IF Operation(c) = "DEL" THEN "kDel" ELSE "kAdd"]
       /\ Update(Operation(c), c)

-----------------------------------------------------------------------------
(* The client's calls.                                                     *)

\* A descriptor belongs to one channel at a time.  The members of a channel
\* that does not exist are kept at the values the constructor gives them.
Construct(c) ==
  /\ c \notin alive /\ \A d \in alive : FdOf[d] # FdOf[c]
  /\ alive' = alive \union {c}
  /\ UNCHANGED <<events, revents, index, add_to_loop, callbacks, handing, poller, active,
                 fault>>

\* SetReadCallBack, SetWriteCallBack, SetCloseCallBack, SetErrorCallBack: a client
\* sets some of the callbacks, one call after the other.  The function given
\* replaces the one that was set and may itself be empty.
SetCallBacks(c) ==
  /\ c \in alive
  /\ \E set \in CallBackSets : callbacks' = [callbacks EXCEPT ![c] = set]
  /\ UNCHANGED <<alive, events, revents, index, add_to_loop, handing, poller, active, fault>>

\* Channel::Update, passed on by EventLoop::UpdateChannel.
ChannelUpdate(c) ==
  add_to_loop' = [add_to_loop EXCEPT ![c] = TRUE] /\ UpdateChannel(c)

\* EnableReading, DisableReading, EnableWriting, DisableWriting, DisableAll:
\* the new events_, then Channel::Update.
SetEvents(c) ==
  /\ c \in alive
  /\ \E ev \in {events[c] \union {"read"}, events[c] \ {"read"},
                events[c] \union {"write"}, events[c] \ {"write"}, {}} :
       events' = [events EXCEPT ![c] = ev]
  /\ ChannelUpdate(c)
  /\ UNCHANGED <<alive, revents, callbacks, handing, list_size, active>>

\* Mutant: the entry stays in every build.
NotErased(c) == channel_map

\* assert(channel_map_.erase(fd) == 1): without assertions nothing is erased.
Erased(c) == IF debug THEN [channel_map EXCEPT ![FdOf[c]] = NoChannel] ELSE channel_map

\* Mutant: the two states of a known channel are confused.
SwappedWatched(c) == index[c] = "kDel"

\* RemoveChannel deletes the channel from epoll unless DisableAll did.
StillWatched(c) == index[c] = "kAdd"

\* EventLoop::RemoveChannel, which the client calls for a channel it disabled.
\* (Channel::Remove, which would also reset add_to_loop_, is private and has
\* no caller.)
RemoveChannel(c) ==
  /\ c \in alive /\ events[c] = {} /\ index[c] # "kNew"
  /\ UNCHANGED <<alive, events, revents, add_to_loop, callbacks, handing, list_size, active>>
  /\ IF debug /\ ~HaveChannel(c)
     THEN fault' = "RemoveChannel" /\ UNCHANGED <<index, channel_map, kernel>>
     ELSE /\ channel_map' = Erased(c)
          /\ index' = [index EXCEPT ![c] = "kNew"]
          /\ IF StillWatched(c) THEN Update("DEL", c) ELSE UNCHANGED <<kernel, fault>>

\* ~Channel, of a channel that is not watched (any more) and that nobody is
\* about to use.
Destroy(c) ==
  /\ c \in alive /\ index[c] = "kNew" /\ c \notin active /\ c # handing
  /\ alive' = alive \ {c}
  /\ fault' = IF debug /\ (add_to_loop[c] \/ HaveChannel(c)) THEN "~Channel" ELSE "none"
  /\ revents' = [revents EXCEPT ![c] = {}]
  /\ add_to_loop' = [add_to_loop EXCEPT ![c] = FALSE]
  /\ callbacks' = [callbacks EXCEPT ![c] = {}]
  /\ UNCHANGED <<events, index, handing, poller, active>>

\* The events epoll can report for a descriptor.
CanReport(f, happened) ==
  /\ happened \intersect {"IN", "PRI"} # {} => "read" \in kernel[f].events
  /\ "OUT" \in happened => "write" \in kernel[f].events

\* Every reported channel gets its events and becomes active.  The list must
\* not be full, asserts the code.
FillActiveChannels(happened) ==
  LET ready == DOMAIN happened
      reported == {kernel[f].ptr : f \in ready}
  IN
  IF debug /\ ~(Cardinality(ready) < list_size)
  THEN fault' = "FillActiveChannels" /\ UNCHANGED <<revents, active>>
  ELSE /\ revents' = [c \in Channel |-> IF c \in reported THEN happened[FdOf[c]]
                                                          ELSE revents[c]]
       /\ active' = reported
       /\ UNCHANGED fault

\* Poll that returns events (a timeout and an interrupted epoll_wait change
\* nothing); a list that was full is doubled.
Poll ==
  /\ active = {} /\ handing = NoChannel
  /\ \E ready \in SUBSET {f \in Fd : kernel[f] # Nothing} \ {{}} :
     \E happened \in [ready -> Reported] :
       /\ Cardinality(ready) <= list_size
       /\ \A f \in ready : CanReport(f, happened[f])
       /\ FillActiveChannels(happened)
       /\ list_size' = IF /\ fault' = "none" /\ Cardinality(ready) = list_size
                          /\ 2 * list_size <= MaxListSize
                       THEN 2 * list_size ELSE list_size
  /\ UNCHANGED <<alive, events, index, add_to_loop, callbacks, handing, channel_map, kernel>>

\* An epoll_wait that fails, other than with EINTR, is logged with LOG_SYS_ERROR
\* (is_abort is false).
PollFails ==
  /\ active = {} /\ handing = NoChannel /\ sys_fails
  /\ fault' = AfterMessage(FALSE)
  /\ UNCHANGED <<channels, handing, poller, active>>

\* Mutant: only EPOLLIN calls the read callback.
CallBacksInOnly(c) ==
  {cb \in callbacks[c] :
     \/ cb = "read" /\ "IN" \in revents[c]
     \/ cb = "write" /\ "OUT" \in revents[c]
     \/ cb = "close" /\ "HUP" \in revents[c] /\ "IN" \notin revents[c]
     \/ cb = "error" /\ "ERR" \in revents[c]}

\* The callbacks HandleEvent runs: those of the branches it takes that are set.
\* (EPOLLRDHUP, which would also call the read callback, is not in kReadEvent:
\* epoll never reports it.)
CallBacks(c) ==
  {cb \in callbacks[c] :
     \/ cb = "read" /\ revents[c] \intersect {"IN", "PRI"} # {}
     \/ cb = "write" /\ "OUT" \in revents[c]
     \/ cb = "close" /\ "HUP" \in revents[c] /\ "IN" \notin revents[c]
     \/ cb = "error" /\ "ERR" \in revents[c]}

\* HandleEvent begins with an active channel and ends when its callbacks have
\* made whatever calls they make.
HandleEvent(c) ==
  /\ c \in active /\ handing = NoChannel
  /\ handing' = c /\ active' = active \ {c}
  /\ UNCHANGED <<channels, poller, fault>>

HandleEventEnd ==
  /\ handing # NoChannel /\ handing' = NoChannel
  /\ UNCHANGED <<channels, poller, active, fault>>

Over == ~Running /\ UNCHANGED vars

Next ==
  \/ /\ Running
     /\ \/ \E c \in Channel : \/ Construct(c) \/ SetCallBacks(c) \/ SetEvents(c)
                              \/ RemoveChannel(c) \/ Destroy(c) \/ HandleEvent(c)
        \/ Poll \/ PollFails
        \/ HandleEventEnd
     /\ UNCHANGED setting
  \/ Over

Spec == Init /\ [][Next]_vars

-----------------------------------------------------------------------------
(* Properties.                                                             *)

TypeOK ==
  /\ debug \in BOOLEAN /\ sys_fails \in BOOLEAN
  /\ alive \subseteq Channel /\ events \in [Channel -> SUBSET Interest]
  /\ revents \in [Channel -> SUBSET Happened]
  /\ index \in [Channel -> Index] /\ add_to_loop \in [Channel -> BOOLEAN]
  /\ callbacks \in [Channel -> SUBSET CallBack]
  /\ handing \in alive \union {NoChannel}
  /\ channel_map \in [Fd -> Channel \union {NoChannel}]
  /\ kernel \in [Fd -> [ptr : Channel \union {NoChannel}, events : SUBSET Interest]]
  /\ list_size \in Nat \ {0} /\ active \subseteq alive
  /\ fault \in {"none", "abort", "UpdateChannel", "RemoveChannel", "~Channel",
                "FillActiveChannels"}

\* However calls, callbacks, removals and descriptor reuse interleave, epoll
\* watches exactly the channels whose index_ says so, for exactly the events
\* they last asked for, as long as epoll_ctl works (epoll_poller.cpp:56-99).
InterestInSync ==
  Running /\ ~sys_fails => \A f \in Fd :
    kernel[f] = IF \E c \in alive : FdOf[c] = f /\ index[c] = "kAdd"
                THEN LET c == CHOOSE c \in alive : FdOf[c] = f /\ index[c] = "kAdd"
                     IN [ptr |-> c, events |-> events[c]]
                ELSE Nothing

\* A pointer that epoll holds, and so any pointer Poll returns, is a channel
\* that exists and is registered, even when epoll_ctl fails (epoll_poller.cpp:
\* 86-99, 110-117).
NoDanglingPointer ==
  Running => \A f \in Fd :
    kernel[f] # Nothing => /\ kernel[f].ptr \in alive
                           /\ index[kernel[f].ptr] = "kAdd"

\* With assertions compiled in, channel_map_ holds exactly the channels whose
\* index_ is not kNew, and no assertion of UpdateChannel or RemoveChannel fails
\* (epoll_poller.cpp:65-76, 89-94).
MapExact ==
  debug => /\ \A c \in alive : Running => (HaveChannel(c) <=> index[c] # "kNew")
           /\ fault \notin {"UpdateChannel", "RemoveChannel"}

\* Poll returns a channel only for work it asked for and, if the client has set
\* what it needs, will do.  As long as epoll_ctl works, HandleEvent would run
\* the read or write callback of a returned channel only if the channel waits
\* for that event at the time of the Poll.  And it runs at least one callback if
\* the channel has those for all it waits for and for close and error, which
\* epoll always reports: level-triggered epoll would report an event that no
\* callback takes for ever (epoll_poller.cpp:28-42, channel.cpp:32-47).
PollFindsWork ==
  [][~sys_fails => \A c \in active' \ active :
       /\ CallBacks(c)' \intersect Interest \subseteq events[c]
       /\ events[c] \union {"close", "error"} \subseteq callbacks[c] => CallBacks(c)' # {}
    ]_vars
=============================================================================
