------------------------------ MODULE MCWeekly ------------------------------
EXTENDS Weekly

CONSTANTS s1, s2, s3, p1, p2, p3, x1, r1, r2

MCSectorOf == [s \in Source |-> "sector"]
MCKindOf == [s \in Source |-> IF s = s1 THEN "urban" ELSE IF s = s2 THEN "water" ELSE "gazetteer"]
MCSeeds == <<p1, p2, p3>>
MCSeedOf == [h \in Host |-> IF h = 3 THEN p3 ELSE p2]

MCConfOf == [o \in Org |-> IF o = 1 THEN 3 ELSE 1]

(* Either a host without names, on a network of organisation 1, with the   *)
(* domains of both organisations yet to show up, or a host with names of   *)
(* two domains of organisation 1.                                          *)
MCWorld(first, names, shodan) ==
    [owned |-> [k \in Key |-> IF k = 1 THEN first ELSE IF k \in {2, r1} THEN {1} ELSE {}],
     shows |-> [a \in Addr |-> [c \in Channel |-> IF c = "rdns" THEN names ELSE {}]],
     cymru |-> [a \in Addr |-> r1], shodan |-> [a \in Addr |-> shodan]]

MCWorlds == {MCWorld({2}, {}, r2), MCWorld({1}, {1, 2}, NoAsn)}
=============================================================================
