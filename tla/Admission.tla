------------------------------- MODULE Admission -------------------------------
(***************************************************************************)
(* What ServerConfig.MaxConnections promises, whatever the protocol: at    *)
(* most Max connections are in at a time, one is turned away only while    *)
(* that many are in, and each leaves once.                                 *)
(***************************************************************************)
EXTENDS Naturals, FiniteSets

CONSTANTS Conn, Max
VARIABLES in, away    \* connections let in, and being turned away

Init == in = {} /\ away = {}

LetIn(c) ==
    /\ c \notin in \cup away /\ Cardinality(in) < Max
    /\ in' = in \cup {c}
    /\ UNCHANGED away

TurnAway(c) ==
    /\ c \notin in \cup away /\ Cardinality(in) = Max
    /\ away' = away \cup {c}
    /\ UNCHANGED in

Leave(c) ==
    /\ c \in in \cup away
    /\ in' = in \ {c} /\ away' = away \ {c}

Next == \E c \in Conn : LetIn(c) \/ TurnAway(c) \/ Leave(c)

Spec == Init /\ [][Next]_<<in, away>>
===============================================================================
