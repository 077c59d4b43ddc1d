------------------------------- MODULE Socket -------------------------------
(***************************************************************************)
(* turbo::Socket, turbo::sockets and turbo::InetAddress                    *)
(* (src/src/net/{socket,socket_ops,inet_address}.{h,cpp}, inet_endian.h):  *)
(* a process that binds, listens, accepts and connects, with a kernel that *)
(* may refuse and peers that come, answer and reset connections.           *)
(*                                                                         *)
(* Numbers are the bytes they have in memory, on a little-endian machine,  *)
(* the lowest first; the kernel reads addresses in network order.  A       *)
(* failure logged with LOG_SYS_FATAL does not stop the process, one logged *)
(* with LOG_SYS_ERROR does (see Logger).                                   *)
(***************************************************************************)
EXTENDS Integers, Sequences, SequencesExt

CONSTANTS
  Fd,         \* the descriptors the kernel has to give
  Port,       \* port numbers, also those the kernel chooses
  Given,      \* the constructor arguments of the InetAddresses used
  Remote,     \* the endpoints of the clients
  MaxQueue    \* bound: the connections waiting to be accepted

Zeros(n) == [i \in 1 .. n |-> 0]

\* uint16_t, the type of a port.
PortNumbers == {n \in Nat : n < 65536}

Endpoints == [family : {"AF_INET", "AF_INET6"}, ip : Seq(0 .. 255), port : PortNumbers]

ASSUME SocketAssumption ==
  /\ Fd \subseteq Nat /\ Port \subseteq PortNumbers \ {0}
  /\ Remote \subseteq Endpoints /\ MaxQueue \in Nat

\* An InetAddress is made of a port, or of a port and a text that inet_pton
\* turns into 4 bytes or 16.  Port 0, for which the kernel would pick another one,
\* is not given.
ASSUME GivenAssumption == \A g \in Given :
  /\ g.port # 0
  /\ \/ g \in [by : {"port"}, port : PortNumbers, loop_back_only : BOOLEAN, ipv6 : BOOLEAN]
     \/ g \in [by : {"text"}, port : PortNumbers, ip : Seq(0 .. 255), ipv6 : BOOLEAN]
        /\ Len(g.ip) \in {4, 16}

VARIABLES
  sock,       \* the kernel's sockets, by descriptor
  queue,      \* the connections waiting at each listening socket
  objects,    \* sockfd_ of the Socket objects that exist; -1 too
  peer_addr,  \* the InetAddress that is passed to Accept
  shown,      \* history: the endpoint put into it last
  aborted

socket_vars == <<sock, queue, objects, peer_addr, shown, aborted>>

-----------------------------------------------------------------------------
(* Byte order and InetAddress.                                             *)

HostToNetwork(bytes) == Reverse(bytes)
NetworkToHost(bytes) == Reverse(bytes)

Uint16(v) == <<v % 256, v \div 256>>
Value(bytes) == bytes[1] + 256 * bytes[2]

\* The union: sin_addr lies where sin6_flowinfo is, before sin6_addr.
Blank == [family |-> "AF_UNSPEC", port |-> Zeros(2), in |-> Zeros(4), in6 |-> Zeros(16)]

INADDR_ANY == Zeros(4)
INADDR_LOOPBACK == <<1, 0, 0, 127>>
in6addr_any == Zeros(16)
in6addr_loopback == [Zeros(16) EXCEPT ![16] = 1]

\* The constructor from a port.
OfPort(g) ==
  IF g.ipv6
  THEN [Blank EXCEPT !.family = "AF_INET6", !.port = HostToNetwork(Uint16(g.port)),
          !.in6 = IF g.loop_back_only THEN in6addr_loopback ELSE in6addr_any]
  ELSE [Blank EXCEPT !.family = "AF_INET", !.port = HostToNetwork(Uint16(g.port)),
          !.in = HostToNetwork(IF g.loop_back_only THEN INADDR_LOOPBACK ELSE INADDR_ANY)]

\* inet_pton turns a text into bytes in network order; only an address with a
\* colon has 16 of them.
IpPortFromString(ip, port, family) ==
  LET a == [Blank EXCEPT !.family = family, !.port = HostToNetwork(Uint16(port))]
  IN IF family = "AF_INET6" THEN [a EXCEPT !.in6 = ip] ELSE [a EXCEPT !.in = ip]

\* The constructor from a text.
OfText(g) ==
  IpPortFromString(g.ip, g.port, IF g.ipv6 \/ Len(g.ip) = 16 THEN "AF_INET6" ELSE "AF_INET")

InetAddress(g) == IF g.by = "port" THEN OfPort(g) ELSE OfText(g)

\* IpFromString fails for a text of the other family.
Parses(g) == g.by = "text" /\ g.ipv6 => Len(g.ip) = 16

PortHost(a) == Value(NetworkToHost(a.port))

\* IpToString and IpPortToString: what is printed.
IpPortToString(a) ==
  [ip |-> CASE a.family = "AF_INET" -> a.in [] a.family = "AF_INET6" -> a.in6
            [] OTHER -> <<>>,
   port |-> PortHost(a)]

SetSockAddrInet4(a, from) == [a EXCEPT !.family = from.family, !.port = from.port, !.in = from.in]
SetSockAddrInet6(a, from) == from

-----------------------------------------------------------------------------
(* The kernel.                                                             *)

\* How the kernel reads an address it is given, and writes one.
EndpointOf(a) ==
  [family |-> a.family, ip |-> IF a.family = "AF_INET" THEN a.in ELSE a.in6,
   port |-> 256 * a.port[1] + a.port[2]]

AddressOf(e) ==
  LET a == [Blank EXCEPT !.family = e.family, !.port = <<e.port \div 256, e.port % 256>>]
  IN IF e.family = "AF_INET" THEN [a EXCEPT !.in = e.ip] ELSE [a EXCEPT !.in6 = e.ip]

Nowhere == [family |-> "AF_UNSPEC", ip |-> <<>>, port |-> 0]

AnyIp(family) == IF family = "AF_INET" THEN INADDR_ANY ELSE in6addr_any
LoopbackIp(family) ==
  IF family = "AF_INET" THEN Reverse(INADDR_LOOPBACK) ELSE in6addr_loopback

\* self, bound_to and connected_to are history: whether the socket has met
\* itself, and what bind and connect were asked for.
Free == [state |-> "free", family |-> "AF_UNSPEC", local |-> Nowhere, peer |-> Nowhere,
         error |-> FALSE, self |-> FALSE, bound_to |-> Nowhere, connected_to |-> Nowhere]

FreeFds == {fd \in Fd : sock[fd].state = "free"}

\* The end of a connection at this machine: a socket bound to any address then
\* has one of its own.
Specific(e) == IF e.ip = AnyIp(e.family) THEN [e EXCEPT !.ip = LoopbackIp(e.family)] ELSE e

\* The endpoint that the arguments of a constructor mean.
Meant(g) ==
  LET six == g.ipv6 \/ (g.by = "text" /\ Len(g.ip) = 16)
      family == IF six THEN "AF_INET6" ELSE "AF_INET"
  IN [family |-> family, port |-> g.port,
      ip |-> CASE g.by = "text" -> g.ip
               [] g.by = "port" /\ g.loop_back_only -> LoopbackIp(family)
               [] OTHER -> AnyIp(family)]

SocketInit ==
  /\ sock = [fd \in Fd |-> Free] /\ queue = [fd \in Fd |-> <<>>] /\ objects = {}
  /\ peer_addr = OfPort([by |-> "port", port |-> 0, loop_back_only |-> FALSE, ipv6 |-> FALSE])
  /\ shown = [family |-> "AF_INET", ip |-> INADDR_ANY, port |-> 0]
  /\ aborted = FALSE

\* The peer resets the connection.
PeerResets(fd) ==
  /\ sock[fd].state = "connected" /\ ~sock[fd].self
  /\ sock' = [sock EXCEPT ![fd] = [@ EXCEPT !.state = "reset", !.error = TRUE]]
  /\ UNCHANGED <<queue, objects, peer_addr, shown, aborted>>

\* A client connects to a listening socket, from an endpoint other than the one
\* this end of the connection will have.
ClientConnects(fd, e) ==
  /\ sock[fd].state = "listening" /\ e.family = sock[fd].family
  /\ e # Specific(sock[fd].local)
  /\ Len(queue[fd]) < MaxQueue
  /\ queue' = [queue EXCEPT ![fd] = Append(@, e)]
  /\ UNCHANGED <<sock, objects, peer_addr, shown, aborted>>

\* The answer to a connect: it is refused, or a server has accepted, or the
\* socket has met itself: the endpoint the kernel has chosen for it is the one
\* it connects to.
ConnectEnds(fd) ==
  /\ sock[fd].state = "connecting"
  /\ LET meets == sock[fd].peer = sock[fd].local IN
     \/ sock' = [sock EXCEPT ![fd] = [@ EXCEPT !.state = "connected", !.self = meets]]
     \/ ~meets /\ sock' = [sock EXCEPT ![fd] = [@ EXCEPT !.state = "reset", !.error = TRUE]]
  /\ UNCHANGED <<queue, objects, peer_addr, shown, aborted>>

-----------------------------------------------------------------------------
(* Socket and sockets.                                                     *)

LogSysFatal == UNCHANGED aborted
LogSysError == aborted' = TRUE

\* A call for which the descriptor must be in one of these states: LOG_SYS_ERROR
\* if the kernel refuses it.
OrDie(fd, states) ==
  IF fd \in Fd /\ sock[fd].state \in states THEN UNCHANGED aborted ELSE LogSysError

\* Socket(CreateNoBlockingSocketOrDie(family)): -1 is kept like a descriptor.
Create(family) ==
  /\ \/ \E fd \in FreeFds :
          /\ sock' = [sock EXCEPT ![fd] = [Free EXCEPT !.state = "open", !.family = family]]
          /\ objects' = objects \union {fd} /\ UNCHANGED aborted
     \/ /\ -1 \notin objects /\ objects' = objects \union {-1}
        /\ LogSysFatal /\ UNCHANGED sock
  /\ UNCHANGED <<queue, peer_addr, shown>>

\* ~Socket: CloseOrDie.
DestroySocket(fd) ==
  /\ OrDie(fd, {"open", "bound", "listening", "connecting", "connected", "reset"})
  /\ objects' = objects \ {fd}
  /\ sock' = [f \in Fd |-> IF f = fd THEN Free ELSE sock[f]]
  /\ queue' = [f \in Fd |-> IF f = fd THEN <<>> ELSE queue[f]]
  /\ UNCHANGED <<peer_addr, shown>>

\* An InetAddress cannot be made of a text of the other family.
BadText(g) ==
  /\ ~Parses(g) /\ LogSysError
  /\ UNCHANGED <<sock, queue, objects, peer_addr, shown>>

\* The kernel binds a new socket to a free port, in its own family.
MayBind(fd, e) ==
  /\ fd \in Fd /\ sock[fd].state = "open" /\ sock[fd].family = e.family
  /\ \A f \in Fd : sock[f].state \in {"bound", "listening"} => sock[f].local.port # e.port

\* BindAddress, with an InetAddress made for it.  A refusal is not fatal.
BindAddress(fd, g) ==
  /\ Parses(g) /\ LogSysFatal
  /\ LET e == EndpointOf(InetAddress(g)) IN
     \/ UNCHANGED sock
     \/ /\ MayBind(fd, e)
        /\ sock' = [sock EXCEPT ![fd] = [@ EXCEPT !.state = "bound", !.local = e,
                                                  !.bound_to = Meant(g)]]
  /\ UNCHANGED <<queue, objects, peer_addr, shown>>

\* Listen: a socket that is not bound gets any port.
Listen(fd) ==
  /\ LogSysFatal
  /\ \/ /\ fd \in Fd /\ sock[fd].state = "bound"
        /\ sock' = [sock EXCEPT ![fd] = [@ EXCEPT !.state = "listening"]]
     \/ /\ fd \in Fd /\ sock[fd].state = "open"
        /\ \E port \in Port :
             LET e == [family |-> sock[fd].family, ip |-> AnyIp(sock[fd].family), port |-> port]
             IN /\ MayBind(fd, e)
                /\ sock' = [sock EXCEPT ![fd] = [@ EXCEPT !.state = "listening", !.local = e]]
     \/ UNCHANGED sock
  /\ UNCHANGED <<queue, objects, peer_addr, shown>>

\* Mutant: the address is set although accept4 failed.
AcceptedAddressAlways(conn_fd, addr) == SetSockAddrInet6(peer_addr, addr)

\* The address is set only if a connection was accepted.
AcceptedAddress(conn_fd, addr) ==
  IF conn_fd >= 0 THEN SetSockAddrInet6(peer_addr, addr) ELSE peer_addr

\* Accept, and a Socket for the new descriptor ...
Accepted(fd) ==
  /\ fd \in Fd /\ sock[fd].state = "listening" /\ queue[fd] # <<>>
  /\ \E new \in FreeFds :
       LET e == Head(queue[fd]) IN
       /\ sock' = [sock EXCEPT ![new] = [Free EXCEPT !.state = "connected",
                     !.family = e.family, !.peer = e, !.connected_to = e,
                     !.local = Specific(sock[fd].local)]]
       /\ queue' = [queue EXCEPT ![fd] = Tail(@)]
       /\ objects' = objects \union {new}
       /\ peer_addr' = AcceptedAddress(new, AddressOf(e)) /\ shown' = e
  /\ UNCHANGED aborted

\* ... and when accept4 fails, as it does when there is no connection or no
\* descriptor left: the local addr has been zeroed and no more.
AcceptFails(fd) ==
  /\ peer_addr' = AcceptedAddress(-1, Blank) /\ LogSysFatal
  /\ UNCHANGED <<sock, queue, objects, shown>>

Accept(fd) == Accepted(fd) \/ AcceptFails(fd)

\* Connect on a new socket, to a specific address; the kernel chooses the local
\* endpoint.  What connect returns is left to the caller.
Connect(fd, g) ==
  /\ fd \in Fd /\ sock[fd].state = "open" /\ Parses(g)
  /\ LET e == EndpointOf(InetAddress(g)) IN
     /\ sock[fd].family = e.family /\ Specific(e) = e
     /\ \E port \in Port, ip \in {LoopbackIp(e.family), e.ip} :
          sock' = [sock EXCEPT ![fd] = [@ EXCEPT !.state = "connecting", !.peer = e,
                     !.connected_to = Meant(g),
                     !.local = [family |-> e.family, ip |-> ip, port |-> port]]]
  /\ UNCHANGED <<queue, objects, peer_addr, shown, aborted>>

\* ShutdownWrite of a connection, or of one that is no more.
ShutdownWrite(fd) ==
  /\ fd \in Fd => sock[fd].state # "connecting"
  /\ OrDie(fd, {"connected", "listening"})
  /\ UNCHANGED <<sock, queue, objects, peer_addr, shown>>

\* SetReusePort(true); the other options ignore what the kernel says.
SetReusePort(fd) ==
  /\ fd \notin Fd /\ LogSysError
  /\ UNCHANGED <<sock, queue, objects, peer_addr, shown>>

\* GetSocketError passes a length of 0: the kernel clears the error and hands
\* out none of it.
GetSocketError(fd) ==
  /\ fd \in Fd /\ sock[fd].error
  /\ sock' = [sock EXCEPT ![fd] = [@ EXCEPT !.error = FALSE]]
  /\ UNCHANGED <<queue, objects, peer_addr, shown, aborted>>

GetLocalAddr(fd) == AddressOf(sock[fd].local)
GetPeerAddr(fd) == AddressOf(sock[fd].peer)

\* Mutant: the addresses are compared as those of IPv6, whatever the family.
IsSelfConnectSix(fd) ==
  GetLocalAddr(fd).port = GetPeerAddr(fd).port /\ GetLocalAddr(fd).in6 = GetPeerAddr(fd).in6

IsSelfConnect(fd) ==
  LET local == GetLocalAddr(fd)  peer == GetPeerAddr(fd) IN
  /\ local.port = peer.port
  /\ \/ local.family = "AF_INET" /\ local.in = peer.in
     \/ local.family = "AF_INET6" /\ local.in6 = peer.in6

\* The question is fatal when the peer has reset the connection.
AskSelfConnect(fd) ==
  /\ OrDie(fd, {"connected"})
  /\ UNCHANGED <<sock, queue, objects, peer_addr, shown>>

\* The InetAddress for Accept is used for an address of IPv4 in between.
UsePeerAddr(e) ==
  /\ e.family = "AF_INET"
  /\ peer_addr' = SetSockAddrInet4(peer_addr, AddressOf(e)) /\ shown' = e
  /\ UNCHANGED <<sock, queue, objects, aborted>>

SocketOver == aborted /\ UNCHANGED socket_vars

SocketNext ==
  \/ /\ ~aborted
     /\ \/ \E family \in {"AF_INET", "AF_INET6"} : Create(family)
        \/ \E fd \in objects :
             \/ DestroySocket(fd) \/ Listen(fd) \/ Accept(fd) \/ ShutdownWrite(fd)
             \/ SetReusePort(fd) \/ GetSocketError(fd) \/ AskSelfConnect(fd)
             \/ \E g \in Given : BindAddress(fd, g) \/ Connect(fd, g)
        \/ \E g \in Given : BadText(g)
        \/ \E fd \in Fd : PeerResets(fd) \/ ConnectEnds(fd)
        \/ \E fd \in Fd, e \in Remote : ClientConnects(fd, e)
        \/ \E e \in Remote : UsePeerAddr(e)
  \/ SocketOver

SocketSpec == SocketInit /\ [][SocketNext]_socket_vars

-----------------------------------------------------------------------------
(* Properties.                                                             *)

\* Byte orders, families and the union come out right end to end: a socket is
\* bound and connected where the arguments of the InetAddress said, and the
\* InetAddress given to Accept prints the client of the last connection, also
\* when an Accept failed since or the families alternate (inet_address.cpp:14-73,
\* socket.cpp:61-68, socket_ops.cpp:88-130).
EndpointsExact ==
  /\ IpPortToString(peer_addr) = [ip |-> shown.ip, port |-> shown.port]
  /\ \A fd \in Fd :
       /\ sock[fd].bound_to # Nowhere => sock[fd].local = sock[fd].bound_to
       /\ sock[fd].peer = sock[fd].connected_to

\* IsSelfConnect is true of exactly the connections in which a socket has met
\* itself, in both families (socket_ops.cpp:161-175).
SelfConnectExact ==
  \A fd \in Fd : sock[fd].state = "connected" => (IsSelfConnect(fd) <=> sock[fd].self)
=============================================================================
