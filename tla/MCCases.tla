------------------------------ MODULE MCCases -------------------------------
(* One host with one service; a verified KEV on it, a compromise flag on   *)
(* the host, and the legacy lead of the KEV.                               *)
EXTENDS Cases

CONSTANTS k1, h1, g1, a1, s1, o1, o2, n1

MCKindOf    == [l \in Lead |-> IF l = h1 THEN "compromise_tag" ELSE "kev_verified"]
MCAddrOf    == [l \in Lead |-> a1]
MCServiceOf == [l \in Lead |-> IF l = h1 THEN NoService ELSE s1]
MCFirstOwner == [a \in Addr |-> o1]
MCPerCve    == [g \in Legacy |-> {k1}]
=============================================================================
