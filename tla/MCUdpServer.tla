----------------------------- MODULE MCUdpServer ------------------------------
(* Constants for model checking UdpServer.                                *)
EXTENDS UdpServer, TLC
CONSTANTS a1, c1, c2, s1
\* Two sessions for one address.
MCAddrOf == [c \in Conn |-> a1]
\* Connections from one address are interchangeable, and so are calls of StopListener.
MCSymmetry == Permutations(Conn) \cup Permutations(Stopper)
===============================================================================
