------------------------------- MODULE Cases --------------------------------
(***************************************************************************)
(* The leads, the nightly refresh, the analysts and the world they are all *)
(* about.                                                                  *)
(***************************************************************************)
EXTENDS CasePacket

(* The table as a store of old leaves it, before any refresh: legacy rows, *)
(* told or not, each of the owner its address had, and the registry not in *)
(* doubt about it.                                                         *)
Init ==
    \E told0 \in SUBSET Legacy :
    /\ leads = [g \in Legacy |->
          [attr |-> Attr(FirstOwner[AddrOf[g]], FirstOwner[AddrOf[g]], "whole", 3, FALSE),
           review |-> FALSE, status |-> IF g \in told0 THEN "notified" ELSE "new",
           notified |-> g \in told0, eligible |-> TRUE, scan |-> 0]]
    /\ told = [g \in told0 |-> FirstOwner[AddrOf[g]]]
    /\ reg \in {r \in [Addr -> RegistryRows] :
                   \A a \in Addr : r[a] # NoRow => r[a].org \in {FirstOwner[a], NoOrg} /\ ~r[a].conflict}
    /\ names = [s \in Service |-> {FirstOwner[AddrOf[l]] : l \in {k \in Lead : ServiceOf[k] = s}}]
    /\ label \in [Addr -> Label \cup {NoName}] /\ gone = {}
    /\ \/ tier = [a \in Addr |-> "priority"] /\ evidence = [l \in Lead |-> IF l \in Legacy THEN 0 ELSE 1]
       \/ /\ tier = [a \in Addr |-> "unknown"]
          /\ evidence = [l \in Lead |-> IF l \in Legacy \/ KindOf[l] \in FromStore THEN 0 ELSE 1]
    /\ changes = MaxChanges /\ acts = MaxActs
    /\ cleared = [l \in {} |-> NoName] /\ shown = [l \in Lead |-> 0] /\ migrated = {}

Next == Refresh \/ WorldChanges \/ AnalystSets

(* The nightly run refreshes; nobody has to do anything else *)
Spec == Init /\ [][Next]_vars /\ WF_vars(Refresh)

-----------------------------------------------------------------------------
(* Whoever a lead says was notified is its owner of now: an episode ends   *)
(* with the ownership it was about (leads.py refresh, ownership_change).   *)
(* Leads that took over a legacy lead's status are apart: the status       *)
(* passes to them with no look at the owner it was given for.              *)
NotifiedPresentOwner ==
    \A l \in DOMAIN leads \ migrated : leads[l].notified => told[l] = leads[l].attr.org

(* An attribution refresh needs nobody's word for *)
Sure(l, attr) ==
    \/ attr.name = NoName
    \/ attr.org # NoOrg /\ ~attr.conflict /\ (attr.method = "whole" \/ ~HostLevel(l))

SameAttribution(x, y) == x.org = y.org /\ x.method = y.method /\ x.conflict = y.conflict

(* A packet lists a lead of an organisation only if its attribution of now *)
(* is sure, or an analyst cleared this very attribution, however often the *)
(* registry and the host changed since (leads.py attr_changed,             *)
(* make_packet.py select_leads).                                           *)
ReviewedPacket ==
    \A p \in Packets : \A l \in p.leads :
        \/ leads[l].attr.org = NoOrg
        \/ Sure(l, leads[l].attr)
        \/ l \in DOMAIN cleared /\ SameAttribution(cleared[l], leads[l].attr)

(* A remediated lead of the same owner is opened again by a scan newer     *)
(* than any before, never by a banner already known (leads.py last_scan_ts)*)
ReopenedByNewerScan ==
    [][\A l \in DOMAIN leads \cap DOMAIN leads' :
          leads[l].status = "remediated" /\ leads'[l].status = "new" /\ Refresh =>
              \/ OwnershipChange(leads[l].attr, leads'[l].attr)
              \/ evidence[l] > shown[l]]_vars

(* A legacy lead goes only once leads for CVEs it names are there, and     *)
(* those made of it carry its status on (leads.py legacy_map)              *)
LegacyCarriedOn ==
    [][\A g \in DOMAIN leads \ DOMAIN leads' :
          /\ Named[g] \cap DOMAIN leads' # {}
          /\ \A l \in (Named[g] \cap DOMAIN leads') \ DOMAIN leads : leads'[l].status = leads[g].status]_vars

(* What makes these hold, however many refreshes there were: a lead of an  *)
(* organisation bears its name; a notified lead has a record of who was    *)
(* told; no row loses its flag but by an analyst's word for what it says;  *)
(* and a row remembers the newest scan a refresh ever saw of its evidence. *)
NameInv == \A l \in DOMAIN leads : leads[l].attr.org # NoOrg => leads[l].attr.name # NoName

ToldInv ==
    \A l \in DOMAIN leads \ migrated :
        leads[l].notified => l \in DOMAIN told /\ told[l] = leads[l].attr.org

Cleared(l, attr) == l \in DOMAIN cleared /\ SameAttribution(cleared[l], attr)

ReviewInv ==
    \A l \in DOMAIN leads :
        leads[l].review \/ leads[l].attr.org = NoOrg \/ Sure(l, leads[l].attr) \/ Cleared(l, leads[l].attr)

ScanInv ==
    \A l \in Lead : /\ shown[l] = IF l \in DOMAIN leads THEN leads[l].scan ELSE 0
                    /\ l \in Legacy => shown[l] = 0

IInv == TypeOK /\ NameInv /\ ToldInv /\ ReviewInv /\ ScanInv

(* Once the world stands still, the refreshes bring the table to rest.     *)
(* Then every piece of evidence has its lead; every lead with an id of     *)
(* today has, if the registry can be read, the owner of now, and the       *)
(* eligibility of now; and none of them whose service is gone waits for    *)
(* its owner.  The leads with an id of old that are left are those not all *)
(* of whose findings are named in them: they are marked for review, and    *)
(* keep the owner they had (leads.py deletes them from existing).          *)
Settled ==
    /\ Candidates \subseteq DOMAIN leads
    /\ \A l \in DOMAIN leads \ Legacy :
          /\ reg # Unavailable => leads[l].attr = FirstAttribution(l).attr
          /\ KnownHost(AddrOf[l]) => leads[l].eligible = EligibleHost(AddrOf[l])
          /\ IsGone(l) /\ l \notin Candidates => leads[l].status \notin {"notified", "acknowledged"}
    /\ \A g \in DOMAIN leads \cap Legacy : leads[g].review /\ (Mapped(g) = {} \/ Mapped(g) # Targets(g))

EventuallySettled == <>[]Settled /\ <>[][FALSE]_leads
=============================================================================
