------------------------------ MODULE MCQuicLink ------------------------------
(* Constants for model checking QuicLink.                                  *)
EXTENDS QuicLink
MCName == {"gophersocks", "v2", "v3"}
MCCodec == {"legacy", "uvarint"}
\* Default re-registered with another framing, and two protocols of the programs' own.
MCPairs == {<<"gophersocks", "uvarint">>, <<"v2", "uvarint">>, <<"v3", "uvarint">>}
MCLists == {<<"v2">>, <<"v2", "gophersocks">>}
===============================================================================
