------------------------------- MODULE MCFraming -------------------------------
(* Constants for model checking Framing.                                   *)
EXTENDS Framing
\* One byte, two equal bytes (the default has three) and two different ones.
MCDelims == {<<1>>, <<1, 1>>, <<0, 1>>}
\* Two bytes of which lengths and delimiters are made; for Uvarint a last digit and a
\* marked one.
MCAlphabet == [c \in Codec |-> IF c = "Uvarint" THEN {1, Base} ELSE {0, 1}]
===============================================================================
