-------------------------- MODULE MCWebSocketServer ---------------------------
(* Constants for model checking WebSocketServer.                          *)
EXTENDS WebSocketServer, TLC
CONSTANTS a1, c1, c2, s1
\* Two clients behind one address, to keep the registry busy.
MCAddrOf == [c \in Conn |-> a1]
\* Connections from one address are interchangeable, and so are calls of StopListener.
MCSymmetry == Permutations(Conn) \cup Permutations(Stopper)
===============================================================================
