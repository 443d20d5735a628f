------------------------------ MODULE BoundedFifo ------------------------------
(***************************************************************************)
(* What a session promises about the messages queued for its client: they  *)
(* go out in the order in which they were queued, none twice and none left *)
(* out before another, and at most Capacity of them wait.  The session may *)
(* end with messages still waiting.                                        *)
(***************************************************************************)
EXTENDS Naturals, Sequences

CONSTANTS Message, Capacity
VARIABLES put, got

Init == put = <<>> /\ got = <<>>

Put(m) ==
    /\ Len(put) < Len(got) + Capacity
    /\ put' = Append(put, m)
    /\ UNCHANGED got

\* Several messages may go out in one write.
Get(n) ==
    /\ Len(got) < n /\ n <= Len(put)
    /\ got' = SubSeq(put, 1, n)
    /\ UNCHANGED put

Next == (\E m \in Message : Put(m)) \/ (\E n \in 1..Len(put) : Get(n))

Spec == Init /\ [][Next]_<<put, got>>
===============================================================================
