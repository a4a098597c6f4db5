---------------------------- MODULE MCProxyServer ----------------------------
(* A small instance of ProxyServer for TLC: two plain connections, whose   *)
(* requests lead to the same address, and one that begins with a CONNECT.  *)
EXTENDS ProxyServer

CONSTANTS c1, c2, c3, there

ThreeConns == {c1, c2, c3}
Third == {c3}
Leads == [c \in ThreeConns |-> there]

=============================================================================
