------------------------------- MODULE MCPull -------------------------------
(* Three addresses: a range of one, and one of two that can be split *)
EXTENDS Pull

MCSeed   == {{1, 2}, {3}}
MCHalves == [r \in {{1, 2}} |-> {{1}, {2}}]
=============================================================================
