--------------------------- MODULE MCSocketGateway --------------------------
(* SocketGateway for TLC: one user with a socket on each of two processes.   *)
EXTENDS SocketGateway, TLC

CONSTANTS s1, s2, u1, p1, p2

OneUser == [s \in Sockets |-> u1]
TwoProcesses == (s1 :> p2) @@ (s2 :> p1)
=============================================================================
