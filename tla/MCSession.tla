------------------------------- MODULE MCSession ------------------------------
(* Constants for model checking Session.                                   *)
EXTENDS Session, TLC
CONSTANTS s1, s2, s3
\* Senders are interchangeable.
MCSymmetry == Permutations(Sender)
===============================================================================
