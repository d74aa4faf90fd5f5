------------------------------ MODULE MCFeeds -------------------------------
(* Two days, a report and a newer one that repeats an event of it *)
EXTENDS Feeds

CONSTANTS r1, r2, e1, e2

MCEventsOf == [f \in ReportFile |-> IF f = r1 THEN {e1} ELSE {e1, e2}]
=============================================================================
