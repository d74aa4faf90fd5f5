---------------------------- MODULE CaseRefresh ----------------------------
(***************************************************************************)
(* leads.py refresh: find the candidates, resolve whose each lead is, and  *)
(* reconcile every row with it, in one transaction.                        *)
(*                                                                         *)
(* The attr_* columns of the store, which serve an address the registry    *)
(* does not know, are those of a registry row of an earlier build: they    *)
(* are left out, and such an address has the operator's label only.        *)
(***************************************************************************)
EXTENDS CaseState

(* host: a tier of NEVER_LEAD_TIERS is never a target *)
EligibleHost(a) == tier[a] # "never"

KnownHost(a) == tier[a] # "unknown" \/ (reg # Unavailable /\ reg[a] # NoRow)

(* kev_by_service, ics_match, appliance_match: rows of current_state; an   *)
(* inferred CVE or an appliance counts in a priority tier only             *)
StoreEvidence(l) ==
    /\ KindOf[l] \in FromStore /\ ServiceOf[l] \notin gone
    /\ KindOf[l] \in {"kev_inferred", "appliance"} => tier[AddrOf[l]] = "priority"

(* load_ledger, load_hit_ports: the tripwire's ledger, within its window *)
LedgerEvidence(l) == KindOf[l] = "compromise_tag"

(* shadowserver_recent *)
ShadowserverEvidence(l) == KindOf[l] = "shadowserver"

(* ioc_hits *)
IocEvidence(l) == KindOf[l] = "ioc_match"

(* generate_candidates *)
Candidates ==
    {l \in Lead \ Legacy :
        /\ evidence[l] > 0 /\ EligibleHost(AddrOf[l])
        /\ StoreEvidence(l) \/ LedgerEvidence(l) \/ ShadowserverEvidence(l) \/ IocEvidence(l)}

-----------------------------------------------------------------------------
(* Attribution *)

Attr(org, name, method, conf, conflict) ==
    [org |-> org, name |-> name, method |-> method, conf |-> conf, conflict |-> conflict]

Resolved(attr, review) == [attr |-> attr, review |-> review]

(* The operator's label, which is not an owner *)
Labelled(a) ==
    Resolved(IF label[a] = NoName THEN Attr(NoOrg, NoName, "none", 0, FALSE)
             ELSE Attr(NoOrg, label[a], "label", 1, FALSE),
             label[a] # NoName)

(* An explicit row without an organisation is authoritative *)
Ownerless(a, row) ==
    Resolved(Attr(NoOrg, label[a], row.method, 1, row.conflict), label[a] # NoName \/ row.conflict)

(* service_bound: the lead's own observation names the organisation *)
ServiceBound(l, org) == ~HostLevel(l) /\ org \in names[ServiceOf[l]]

(* The organisation the registry names, as far as it is bound to the lead *)
Bound(l, row) ==
    LET owner == Attr(row.org, row.org, row.method, row.conf, row.conflict)
        loose == Attr(NoOrg, IF label[AddrOf[l]] = NoName THEN row.org ELSE label[AddrOf[l]],
                      "unbound", 1, row.conflict)
    IN  CASE row.method = "whole"        -> Resolved(owner, row.conflict)
          [] row.method # "whole" /\ HostLevel(l) -> Resolved(owner, TRUE)
          [] row.method # "whole" /\ ServiceBound(l, row.org) -> Resolved(owner, row.conflict)
          [] OTHER                       -> Resolved(loose, TRUE)

(* resolve_attribution of a lead without a row *)
FirstAttribution(l) ==
    LET a == AddrOf[l]
    IN  IF reg = Unavailable \/ reg[a] = NoRow THEN Labelled(a)
        ELSE IF reg[a].org = NoOrg THEN Ownerless(a, reg[a]) ELSE Bound(l, reg[a])

(* resolve_attribution of a lead with a row: kept while the registry is    *)
(* unavailable                                                             *)
AttributionFor(l, old) ==
    IF reg = Unavailable THEN Resolved(old.attr, old.review) ELSE FirstAttribution(l)

(* ownership_change: another organisation, or less confidence *)
OwnershipChange(old, new) == old.org # new.org \/ new.conf < old.conf

(* A change of the method alone *)
AttrChangedMethod(old, new) == old.method # new.method

(* attr_changed: method, conflict or organisation *)
AttrChanged(old, new) ==
    \/ old.method # new.method \/ old.conflict # new.conflict \/ old.org # new.org

(* Another owner, or a doubt of another kind, needs a review; a clearance  *)
(* of the same attribution sticks                                          *)
NeedsReview(old, new) ==
    \/ old.review
    \/ OwnershipChange(old.attr, new.attr)
    \/ new.review /\ AttrChanged(old.attr, new.attr)

-----------------------------------------------------------------------------
(* The rows *)

(* last_scan: the newest scan that ever showed the evidence *)
Later(s, t) == IF s < t THEN t ELSE s

(* The status alone *)
ClosedStatus(row) == [row EXCEPT !.status = "new"]

(* The episode is closed: status new, notified_on cleared *)
Closed(row) == [row EXCEPT !.status = "new", !.notified = FALSE]

Attributed(row, new) == [row EXCEPT !.attr = new.attr, !.review = NeedsReview(row, new)]

(* A lead whose evidence is there again, by an old banner too *)
WithEvidenceByOld(l, old) ==
    LET new == AttributionFor(l, old)
        row == [Attributed(old, new) EXCEPT !.scan = Later(old.scan, evidence[l]), !.eligible = TRUE]
    IN  IF OwnershipChange(old.attr, new.attr) \/ old.status = "remediated" THEN Closed(row) ELSE row

(* A lead whose evidence is there *)
WithEvidence(l, old) ==
    LET new   == AttributionFor(l, old)
        again == old.status = "remediated" /\ evidence[l] > old.scan
        row   == [Attributed(old, new) EXCEPT !.scan = Later(old.scan, evidence[l]), !.eligible = TRUE]
    IN  IF OwnershipChange(old.attr, new.attr) \/ again THEN Closed(row) ELSE row

(* exposure_status: a host is gone when all its services are *)
IsGone(l) ==
    IF HostLevel(l)
    THEN LET here == {ServiceOf[k] : k \in {k \in Lead : AddrOf[k] = AddrOf[l]}} \ {NoService}
         IN  here # {} /\ here \subseteq gone
    ELSE ServiceOf[l] \in gone

(* The status exposure_status gives the service *)
WithoutEvidenceGone(l, old) ==
    IF old.status \in {"notified", "acknowledged"} /\ IsGone(l) THEN [old EXCEPT !.status = "gone"] ELSE old

(* A lead without evidence whose ineligible host is not looked at *)
WithoutEvidenceEligible(l, old) ==
    IF ~old.eligible THEN old ELSE Attributed(old, AttributionFor(l, old))

(* A lead whose evidence is not there: its owner, whether it is a target,  *)
(* and remediation, which is for a lead its owner was told of              *)
WithoutEvidence(l, old) ==
    LET new  == AttributionFor(l, old)
        elig == IF KnownHost(AddrOf[l]) THEN EligibleHost(AddrOf[l]) ELSE old.eligible
        row  == [Attributed(old, new) EXCEPT !.eligible = elig]
    IN  IF OwnershipChange(old.attr, new.attr) THEN Closed(row)
        ELSE IF old.status \in {"notified", "acknowledged"} /\ IsGone(l)
             THEN [row EXCEPT !.status = "remediated"]
             ELSE row

(* Legacy ids: the leads of the same service and type a refresh finds *)
Targets(g) == PerCve[g] \cap Candidates

Mapped(g) == Targets(g) \cap Named[g]

(* A legacy row without a lead to map it to goes, too *)
GivenUpUnmapped == {g \in DOMAIN leads \cap Legacy : Mapped(g) = Targets(g)}

(* A legacy row is deleted once its evidence names all the leads found *)
GivenUp == {g \in DOMAIN leads \cap Legacy : Mapped(g) # {} /\ Mapped(g) = Targets(g)}

LegacyOf(l) == {g \in DOMAIN leads \cap Legacy : l \in Targets(g)}

(* A new lead, with the status of the legacy lead that names its CVE *)
Created(l) ==
    LET a      == FirstAttribution(l)
        row    == [attr |-> a.attr, review |-> a.review, status |-> "new", notified |-> FALSE,
                   eligible |-> TRUE, scan |-> evidence[l]]
    IN  IF LegacyOf(l) = {} THEN row
        ELSE LET g == CHOOSE g \in LegacyOf(l) : TRUE
             IN  IF l \in Named[g]
                 THEN [row EXCEPT !.status = leads[g].status, !.notified = leads[g].notified,
                                  !.review = a.review \/ Cardinality(Named[g]) > 1]
                 ELSE [row EXCEPT !.review = TRUE]

(* What becomes of a row; a legacy row that stays is only flagged *)
Reconciled(l) ==
    CASE l \notin DOMAIN leads                     -> Created(l)
      [] l \in DOMAIN leads \cap Legacy            -> [leads[l] EXCEPT !.review = TRUE]
      [] l \in DOMAIN leads \cap Candidates        -> WithEvidence(l, leads[l])
      [] OTHER                                     -> WithoutEvidence(l, leads[l])

TookOver == {l \in Candidates \ DOMAIN leads : \E g \in LegacyOf(l) : l \in Named[g]}

Refresh ==
    /\ leads' = [l \in (DOMAIN leads \ GivenUp) \cup Candidates |-> Reconciled(l)]
    /\ told' = [l \in DOMAIN told \cup {l \in TookOver : \E g \in LegacyOf(l) : g \in DOMAIN told} |->
                   IF l \in TookOver THEN told[CHOOSE g \in LegacyOf(l) : TRUE] ELSE told[l]]
    /\ shown' = [l \in Lead |-> IF l \in Candidates THEN Later(shown[l], evidence[l]) ELSE shown[l]]
    /\ migrated' = migrated \cup TookOver
    /\ UNCHANGED <<world, acts, cleared>>
=============================================================================
