----------------------------- MODULE MCTcpServer ------------------------------
(* Constants for model checking TcpServer.                                *)
EXTENDS TcpServer, TLC
CONSTANTS a1, c1, c2, s1, s2
\* A client that reconnects from the same address.
MCAddrOf == [c \in Conn |-> a1]
\* Connections from one address are interchangeable, and so are calls of StopListener.
MCSymmetry == Permutations(Conn) \cup Permutations(Stopper)
===============================================================================
