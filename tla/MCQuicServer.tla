----------------------------- MODULE MCQuicServer -----------------------------
(* Constants for model checking QuicServer.                               *)
EXTENDS QuicServer, TLC
CONSTANTS a1, c1, c2, s1
\* Two connections from one socket of a client.
MCAddrOf == [c \in Conn |-> a1]
\* Connections from one address are interchangeable, and so are calls of StopListener.
MCSymmetry == Permutations(Conn) \cup Permutations(Stopper)
===============================================================================
