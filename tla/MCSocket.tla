------------------------------ MODULE MCSocket ------------------------------
(* A small instance of Socket for TLC.                                     *)
EXTENDS Socket

Ip4 == <<10, 0, 0, 2>>
Ip6 == [i \in 1 .. 16 |-> 16 * i - 1]

\* Port 80 is 20480 with its bytes swapped.
ByPort(port, loop_back_only, ipv6) ==
  [by |-> "port", port |-> port, loop_back_only |-> loop_back_only, ipv6 |-> ipv6]
ByText(ip, port, ipv6) == [by |-> "text", ip |-> ip, port |-> port, ipv6 |-> ipv6]

SomeGiven == {ByPort(80, FALSE, FALSE), ByPort(80, TRUE, FALSE), ByPort(20480, TRUE, TRUE),
              ByText(Ip4, 80, FALSE), ByText(Ip6, 80, FALSE), ByText(Ip4, 20480, TRUE)}

\* One of the clients is on this machine.
SomeRemote == {[family |-> "AF_INET", ip |-> Ip4, port |-> 20480],
               [family |-> "AF_INET", ip |-> <<127, 0, 0, 1>>, port |-> 80],
               [family |-> "AF_INET6", ip |-> Ip6, port |-> 80]}
=============================================================================
