------------------------------ MODULE CaseState ------------------------------
(***************************************************************************)
(* The leads as cases: what leads.py knows of a service or a host worth a  *)
(* notification, whose it is, and what has been done about it.  LeadStore  *)
(* is about how the rows are kept; here they are just there.  This module  *)
(* holds the rows and the world a refresh reads: the store, the ledger and *)
(* the feeds (evidence), and the registry generation CURRENT names.        *)
(*                                                                         *)
(* Notes, the event log, prior_status, sector and the texts are left out.  *)
(***************************************************************************)
EXTENDS Naturals, FiniteSets

CONSTANTS
    Lead,        \* the leads there can be, by lead_id
    Legacy,      \* those of them with an id of old, without the CVE
    KindOf,      \* evidence_type
    AddrOf,
    ServiceOf,   \* the service of a lead, NoService for a host-level one
    PerCve,      \* Legacy -> the leads of the same service and type
    Named,       \* Legacy -> those whose CVE the legacy evidence names
    Addr,
    Service,
    Org,
    Label,       \* names of network operators
    FirstOwner,  \* Addr -> the owner the leads of a store of old have there
    NoService, NoOrg, NoName, NoRow, Unavailable,
    MaxScan,     \* scans of a service (a bound)
    MaxChanges,  \* how often the world changes (a bound)
    MaxActs,     \* what analysts do (a bound)
    Settable     \* the statuses analysts set (a bound)

CveTypes  == {"kev_verified", "kev_inferred"}
FromStore == CveTypes \cup {"ics", "appliance"}
Kinds     == FromStore \cup {"compromise_tag", "shadowserver", "ioc_match"}

Tiers == {"priority", "other", "never", "unknown"}

Statuses == {"new", "queued", "notified", "acknowledged", "remediated", "disputed",
             "false_positive", "suppressed"}

ASSUME CaseAssumption ==
    /\ Legacy \subseteq Lead /\ KindOf \in [Lead -> Kinds] /\ AddrOf \in [Lead -> Addr]
    /\ ServiceOf \in [Lead -> Service \cup {NoService}]
    /\ PerCve \in [Legacy -> SUBSET (Lead \ Legacy)] /\ Named \in [Legacy -> SUBSET (Lead \ Legacy)]
    /\ \A g \in Legacy : KindOf[g] \in CveTypes /\ ServiceOf[g] # NoService /\ Named[g] \subseteq PerCve[g]
    /\ \A g, k \in Legacy : g # k => PerCve[g] \cap PerCve[k] = {}
    /\ Org \cap Label = {} /\ NoName \notin Org \cup Label /\ NoOrg \notin Org
    /\ FirstOwner \in [Addr -> Org]
    /\ MaxScan \in Nat \ {0} /\ MaxChanges \in Nat /\ MaxActs \in Nat
    /\ Settable \subseteq Statuses

VARIABLES
    evidence,    \* the scan that shows a lead's evidence last, 0 if nothing does
    gone,        \* services exposure_status calls gone
    tier,        \* tier of the host's newest observation
    label,       \* Shodan's org: the network operator
    names,       \* the organisations a service's own names give
    reg,         \* the registry: a row for each address, or Unavailable
    leads,       \* the table: a row for each lead there is
    changes,     \* changes of the world that may still happen
    acts,        \* acts of analysts that may still happen
    told,        \* the organisation a lead's owner of record was when notified (history)
    cleared,     \* the attribution an analyst cleared last (history)
    shown,       \* the newest scan a refresh has seen for a lead (history)
    migrated     \* leads that took over a legacy lead's status (history)

world   == <<evidence, gone, tier, label, names, reg, changes>>
history == <<told, cleared, shown, migrated>>
vars    == <<world, leads, acts, history>>

HostLevel(l) == ServiceOf[l] = NoService

(* What registry.Attributor says of an address.  "whole" stands for the    *)
(* methods ots_cidr and registry_network, "part" for all others;           *)
(* confidence is 3 high, 2 medium, 1 low, 0 none.                          *)
RegistryRow(org, method, conflict) ==
    [org |-> org, method |-> method, conflict |-> conflict,
     conf |-> IF org = NoOrg THEN 1 ELSE IF method = "whole" /\ ~conflict THEN 3 ELSE 2]

RegistryRows ==
    {RegistryRow(o, m, c) : o \in Org, m \in {"whole", "part"}, c \in BOOLEAN}
        \cup {RegistryRow(NoOrg, "part", c) : c \in BOOLEAN} \cup {NoRow}

Attribution ==
    [org : Org \cup {NoOrg}, name : Org \cup Label \cup {NoName},
     method : {"none", "label", "whole", "part", "unbound"}, conf : 0 .. 3, conflict : BOOLEAN]

(* A row of the table leads; notified says whether notified_on is set *)
LeadRow ==
    [attr : Attribution, review : BOOLEAN, status : Statuses, notified : BOOLEAN,
     eligible : BOOLEAN, scan : 0 .. MaxScan]

TypeOK ==
    /\ evidence \in [Lead -> 0 .. MaxScan] /\ gone \subseteq Service /\ tier \in [Addr -> Tiers]
    /\ label \in [Addr -> Label \cup {NoName}] /\ names \in [Service -> SUBSET Org]
    /\ reg = Unavailable \/ reg \in [Addr -> RegistryRows]
    /\ DOMAIN leads \subseteq Lead /\ \A l \in DOMAIN leads : leads[l] \in LeadRow
    /\ changes \in 0 .. MaxChanges /\ acts \in 0 .. MaxActs
    /\ DOMAIN told \subseteq Lead /\ DOMAIN cleared \subseteq Lead
    /\ shown \in [Lead -> 0 .. MaxScan] /\ migrated \subseteq Lead

-----------------------------------------------------------------------------
(* The world changes between two runs of leads.py *)

Changes == changes > 0 /\ changes' = changes - 1 /\ UNCHANGED <<leads, acts, history>>

(* Evidence comes, goes, or comes back with a banner already known; a      *)
(* service with evidence in the store is not gone and its host is known    *)
EvidenceChanges ==
    /\ Changes
    /\ \E l \in Lead \ Legacy, s \in 0 .. MaxScan :
          /\ s # evidence[l] /\ evidence' = [evidence EXCEPT ![l] = s]
          /\ gone' = IF s > 0 /\ KindOf[l] \in FromStore THEN gone \ {ServiceOf[l]} ELSE gone
          /\ tier' = IF s > 0 /\ KindOf[l] \in FromStore /\ tier[AddrOf[l]] = "unknown"
                     THEN [tier EXCEPT ![AddrOf[l]] = "other"] ELSE tier
    /\ UNCHANGED <<label, names, reg>>

(* No scan has shown the service for 45 days *)
ServiceGone ==
    /\ Changes
    /\ \E s \in Service \ gone :
          /\ \E l \in Lead : ServiceOf[l] = s /\ tier[AddrOf[l]] # "unknown"
          /\ gone' = gone \cup {s}
          /\ evidence' = [l \in Lead |-> IF ServiceOf[l] = s /\ KindOf[l] \in FromStore THEN 0
                                         ELSE evidence[l]]
    /\ UNCHANGED <<tier, label, names, reg>>

TierChanges ==
    /\ Changes /\ \E a \in Addr, t \in Tiers \ {"unknown"} : tier' = [tier EXCEPT ![a] = t]
    /\ UNCHANGED <<evidence, gone, label, names, reg>>

(* The host shows other names, or the operator's name changes *)
NamesChange ==
    /\ Changes
    /\ \/ \E s \in Service, N \in SUBSET Org : names' = [names EXCEPT ![s] = N] /\ UNCHANGED label
       \/ \E a \in Addr, n \in Label : label' = [label EXCEPT ![a] = n] /\ UNCHANGED names
    /\ UNCHANGED <<evidence, gone, tier, reg>>

(* The weekly job publishes another generation, or it cannot be read *)
RegistryChanges ==
    /\ Changes /\ reg' \in {Unavailable} \cup [Addr -> RegistryRows]
    /\ UNCHANGED <<evidence, gone, tier, label, names>>

WorldChanges == EvidenceChanges \/ ServiceGone \/ TierChanges \/ NamesChange \/ RegistryChanges
=============================================================================
