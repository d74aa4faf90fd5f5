-------------------------- MODULE ReferenceFeeds --------------------------
(***************************************************************************)
(* refresh_reference.py.  The IOC lists stand for the files built from     *)
(* several sources (the exploit index is refreshed alike; KEV is a file    *)
(* with one source); a CIDR is an entry like another.  EPSS is the file    *)
(* written in place.  The GeoIP download is left out.                      *)
(***************************************************************************)
EXTENDS WeeklyState

CONSTANTS Feed, Entry

VARIABLES
    published,  \* what each feed lists today
    iocs,       \* ioc_ips.json: pairs of an entry and a feed
    epss        \* epss.json: "whole", or "torn" if a write of it was cut off

feeds == <<published, iocs, epss>>

FeedsTypeOK ==
    /\ published \in [Feed -> SUBSET Entry] /\ iocs \subseteq Entry \X Feed
    /\ epss \in {"whole", "torn"}

FeedsInit ==
    /\ published = [f \in Feed |-> Entry] /\ iocs = {} /\ epss = "whole"

(* A feed starts or stops listing an entry *)
FeedChanges ==
    /\ WorldChanges
    /\ \E f \in Feed, e \in Entry :
          published' = [published EXCEPT ![f] = (@ \cup {e}) \ (@ \cap {e})]
    /\ UNCHANGED <<iocs, epss>>

(* What the feed's parser makes of its list, all but what cannot be read: *)
(* an answer that is cut short, empty or not a list at all is an answer.   *)
Parsed(f, unread) == (published[f] \X {f}) \ unread

(* previous_entries: what the file has from the feed *)
Previous(f) == iocs \cap (Entry \X {f})

(* refresh_iocs: a feed that answers gives its entries afresh, another one *)
(* keeps those it gave the last time.                                      *)
MergedEntries(ok, unread) ==
    UNION {IF f \in ok THEN Parsed(f, unread) ELSE Previous(f) : f \in Feed}

(* main: each step fails for itself, and the script returns 0 *)
RefreshReference ==
    /\ Done("feeds", "start")
    /\ \E ok \in SUBSET Feed, scores \in BOOLEAN :
       \E unread \in SUBSET UNION {published[f] \X {f} : f \in ok} :
          /\ Trouble(When(ok # Feed \/ ~scores, "api") \cup When(unread # {}, "garbled"))
          /\ iocs' = MergedEntries(ok, unread)
          /\ epss' = IF scores THEN "whole" ELSE epss
    /\ UNCHANGED published

(* Killed before the IOC lists are replaced, perhaps while EPSS is written *)
FeedsKilled ==
    /\ Failed("feeds") /\ Trouble({"timeout"})
    /\ epss' \in {"whole", "torn"} /\ UNCHANGED <<published, iocs>>
=============================================================================
