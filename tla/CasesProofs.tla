---------------------------- MODULE CasesProofs ----------------------------
(***************************************************************************)
(* What a night does to the leads as cases, for any leads, addresses,      *)
(* services, owners and names, any number of scans, and whatever the world *)
(* and the analysts do between two refreshes.                              *)
(***************************************************************************)
EXTENDS Cases, TLAPS

(* What closing an episode and remediation change of a row *)
LEMMA ClosedFields ==
  ASSUME NEW row \in LeadRow
  PROVE  /\ Closed(row) \in LeadRow /\ Closed(row).attr = row.attr
         /\ Closed(row).review = row.review /\ Closed(row).scan = row.scan
         /\ Closed(row).status = "new" /\ ~Closed(row).notified
  BY DEF Closed, LeadRow, Statuses

LEMMA RemediatedFields ==
  ASSUME NEW old \in LeadRow
  PROVE  LET row == [old EXCEPT !.status = "remediated"]
         IN  /\ row \in LeadRow /\ row.attr = old.attr /\ row.review = old.review
             /\ row.scan = old.scan /\ row.notified = old.notified /\ row.status = "remediated"
  BY DEF LeadRow, Statuses

-----------------------------------------------------------------------------
(* What the registry and the operator's label say of a lead is an          *)
(* attribution; one that asks for no review names no organisation or is    *)
(* sure; and an organisation goes by its own name.                         *)
LEMMA FirstAttributionFacts ==
  ASSUME TypeOK, NEW l \in Lead
  PROVE  LET new == FirstAttribution(l)
         IN  /\ new.attr \in Attribution /\ new.review \in BOOLEAN
             /\ new.attr.org # NoOrg => new.attr.name # NoName
             /\ new.review \/ new.attr.org = NoOrg \/ Sure(l, new.attr)
  <1> DEFINE a == AddrOf[l]
             named == label[a] # NoName
  <1> HIDE DEF a
  <1>1. a \in Addr /\ label[a] \in Label \cup {NoName} /\ named \in BOOLEAN
    BY CaseAssumption DEF TypeOK, a
  <1>2. CASE reg = Unavailable \/ reg[a] = NoRow
    <2>1. CASE ~named
      <3>1. FirstAttribution(l) = Resolved(Attr(NoOrg, NoName, "none", 0, FALSE), FALSE)
        BY <1>2, <2>1 DEF FirstAttribution, Labelled, a
      <3>2. QED
        BY <3>1 DEF Resolved, Attr, Attribution
    <2>2. CASE named
      <3>1. FirstAttribution(l) = Resolved(Attr(NoOrg, label[a], "label", 1, FALSE), TRUE)
        BY <1>2, <2>2 DEF FirstAttribution, Labelled, a
      <3>2. QED
        BY <1>1, <2>2, <3>1 DEF Resolved, Attr, Attribution
    <2>3. QED
      BY <2>1, <2>2
  <1>3. CASE ~(reg = Unavailable \/ reg[a] = NoRow)
    <2> DEFINE row == reg[a]
    <2>1. row \in RegistryRows /\ row # NoRow
      BY <1>1, <1>3 DEF TypeOK
    <2>2. /\ row.org \in Org \cup {NoOrg} /\ row.method \in {"whole", "part"}
          /\ row.conflict \in BOOLEAN /\ row.conf \in 0 .. 3
      BY <2>1 DEF RegistryRows, RegistryRow
    <2>3. CASE row.org = NoOrg
      <3>1. FirstAttribution(l)
              = Resolved(Attr(NoOrg, label[a], row.method, 1, row.conflict), named \/ row.conflict)
        BY <1>3, <2>3 DEF FirstAttribution, Ownerless, a
      <3>2. QED
        BY <1>1, <2>2, <3>1 DEF Resolved, Attr, Attribution
    <2>4. CASE row.org # NoOrg
      <3> DEFINE owner == Attr(row.org, row.org, row.method, row.conf, row.conflict)
                 loose == Attr(NoOrg, IF label[a] = NoName THEN row.org ELSE label[a],
                               "unbound", 1, row.conflict)
      <3>1. FirstAttribution(l) = Bound(l, row)
        BY <1>3, <2>4 DEF FirstAttribution, a
      <3>2. row.org # NoName /\ row.org \in Org
        BY <2>2, <2>4, CaseAssumption
      <3>3. /\ owner \in Attribution /\ owner.org = row.org /\ owner.name = row.org
            /\ owner.method = row.method /\ owner.conflict = row.conflict
            /\ \A r \in BOOLEAN : Resolved(owner, r).attr = owner /\ Resolved(owner, r).review = r
        BY <2>2, <3>2 DEF Resolved, Attr, Attribution
      <3>4. loose \in Attribution /\ loose.org = NoOrg
            /\ \A r \in BOOLEAN : Resolved(loose, r).attr = loose /\ Resolved(loose, r).review = r
        BY <1>1, <2>2, <3>2 DEF Resolved, Attr, Attribution
      <3>5. Bound(l, row) = CASE row.method = "whole" -> Resolved(owner, row.conflict)
              [] row.method # "whole" /\ HostLevel(l) -> Resolved(owner, TRUE)
              [] row.method # "whole" /\ ServiceBound(l, row.org) -> Resolved(owner, row.conflict)
              [] OTHER -> Resolved(loose, TRUE)
        BY DEF Bound, a
      <3>6. ServiceBound(l, row.org) => ~HostLevel(l)
        BY DEF ServiceBound
      <3> HIDE DEF owner, loose, row
      <3>7. CASE row.method = "whole"
        <4>1. FirstAttribution(l) = Resolved(owner, row.conflict)
          BY <3>1, <3>5, <3>7
        <4>2. QED
          BY <2>2, <3>2, <3>3, <3>7, <4>1 DEF Sure
      <3>8. CASE row.method # "whole" /\ HostLevel(l)
        <4>1. FirstAttribution(l) = Resolved(owner, TRUE)
          BY <3>1, <3>5, <3>6, <3>8
        <4>2. QED
          BY <3>2, <3>3, <4>1
      <3>9. CASE row.method # "whole" /\ ServiceBound(l, row.org)
        <4>1. FirstAttribution(l) = Resolved(owner, row.conflict)
          BY <3>1, <3>5, <3>6, <3>9
        <4>2. QED
          BY <2>2, <2>4, <3>2, <3>3, <3>6, <3>9, <4>1 DEF Sure
      <3>10. CASE row.method # "whole" /\ ~HostLevel(l) /\ ~ServiceBound(l, row.org)
        <4>1. FirstAttribution(l) = Resolved(loose, TRUE)
          BY <3>1, <3>5, <3>10
        <4>2. QED
          BY <3>4, <4>1
      <3>11. QED
        BY <3>7, <3>8, <3>9, <3>10
    <2>5. QED
      BY <2>3, <2>4
  <1>4. QED
    BY <1>2, <1>3

(* What a refresh holds of a lead it has a row for, given that row. *)
LEMMA AttributionForFacts ==
  ASSUME TypeOK, NameInv, NEW l \in DOMAIN leads
  PROVE  LET old == leads[l]
             new == AttributionFor(l, old)
         IN  /\ new.attr \in Attribution /\ new.review \in BOOLEAN
             /\ new.attr.org # NoOrg => new.attr.name # NoName
             /\ \/ new = Resolved(old.attr, old.review)
                \/ new.review \/ new.attr.org = NoOrg \/ Sure(l, new.attr)
  <1>1. l \in Lead /\ leads[l] \in LeadRow
    BY DEF TypeOK
  <1>2. CASE reg = Unavailable
    BY <1>1, <1>2 DEF AttributionFor, Resolved, LeadRow, NameInv
  <1>3. CASE reg # Unavailable
    BY <1>1, <1>3, FirstAttributionFacts DEF AttributionFor
  <1>4. QED
    BY <1>2, <1>3

(* A row without a flag stays justified when it takes its attribution of   *)
(* now and raises no flag: the new one needs no review, or it is what the  *)
(* row had, with the clearance of that.                                    *)
LEMMA FlagRaised ==
  ASSUME TypeOK, NameInv, ReviewInv, NEW l \in DOMAIN leads
  PROVE  LET new == AttributionFor(l, leads[l])
         IN  NeedsReview(leads[l], new) \/ new.attr.org = NoOrg \/ Sure(l, new.attr) \/ Cleared(l, new.attr)
  <1> DEFINE old == leads[l]
             new == AttributionFor(l, old)
  <1> SUFFICES ASSUME ~NeedsReview(old, new), new.attr.org # NoOrg, ~Sure(l, new.attr)
               PROVE  Cleared(l, new.attr)
    OBVIOUS
  <1> HIDE DEF new
  <1>1. ~old.review /\ ~(new.review /\ AttrChanged(old.attr, new.attr)) /\ old.attr.org = new.attr.org
    BY DEF NeedsReview, OwnershipChange
  <1>2. SameAttribution(old.attr, new.attr)
    <2>1. CASE new = Resolved(old.attr, old.review)
      BY <2>1 DEF Resolved, SameAttribution
    <2>2. CASE new # Resolved(old.attr, old.review)
      <3>1. new.review
        BY <2>2, AttributionForFacts DEF new
      <3>2. QED
        BY <1>1, <3>1 DEF AttrChanged, SameAttribution
    <2>3. QED
      BY <2>1, <2>2
  <1>3. old.attr.name # NoName /\ new.attr.name # NoName
    BY <1>1, AttributionForFacts DEF new, NameInv
  <1>4. ~Sure(l, old.attr)
    BY <1>1, <1>2, <1>3 DEF Sure, SameAttribution
  <1>5. Cleared(l, old.attr)
    BY <1>1, <1>4 DEF ReviewInv
  <1>6. QED
    BY <1>2, <1>5 DEF Cleared, SameAttribution

-----------------------------------------------------------------------------
(* What a refresh makes of a row: the attribution of now, flagged as       *)
(* needed; a new status only for cause; and the record of a notification   *)
(* goes with a change of owner.                                            *)
LEMMA WithEvidenceFacts ==
  ASSUME TypeOK, NameInv, NEW l \in DOMAIN leads
  PROVE  LET old == leads[l]
             new == AttributionFor(l, old)
             row == WithEvidence(l, old)
         IN  /\ row \in LeadRow /\ row.attr = new.attr /\ row.review = NeedsReview(old, new)
             /\ row.scan = Later(old.scan, evidence[l])
             /\ row.notified => old.notified /\ ~OwnershipChange(old.attr, new.attr)
             /\ old.status = "remediated" /\ row.status # "remediated" =>
                   OwnershipChange(old.attr, new.attr) \/ evidence[l] > old.scan
  <1> DEFINE old == leads[l]
             new == AttributionFor(l, old)
             need == NeedsReview(old, new)
             scan == Later(old.scan, evidence[l])
             again == old.status = "remediated" /\ evidence[l] > old.scan
             row == [[old EXCEPT !.attr = new.attr, !.review = need] EXCEPT !.scan = scan, !.eligible = TRUE]
  <1>1. l \in Lead /\ old \in LeadRow /\ evidence[l] \in 0 .. MaxScan /\ MaxScan \in Nat
    BY CaseAssumption DEF TypeOK
  <1>2. new.attr \in Attribution /\ new.review \in BOOLEAN
    BY AttributionForFacts
  <1>3. need \in BOOLEAN
    BY <1>1, <1>2 DEF NeedsReview, OwnershipChange, AttrChanged, LeadRow
  <1>4. scan \in 0 .. MaxScan
    BY <1>1 DEF Later, LeadRow
  <1>5. WithEvidence(l, old) = IF OwnershipChange(old.attr, new.attr) \/ again THEN Closed(row) ELSE row
    BY DEF WithEvidence, Attributed
  <1> HIDE DEF new, need, scan
  <1>6. /\ row \in LeadRow /\ row.attr = new.attr /\ row.review = need /\ row.scan = scan
        /\ row.status = old.status /\ row.notified = old.notified
    BY <1>1, <1>2, <1>3, <1>4 DEF LeadRow
  <1> HIDE DEF row
  <1>7. QED
    BY <1>5, <1>6, ClosedFields DEF new, need, scan

LEMMA WithoutEvidenceFacts ==
  ASSUME TypeOK, NameInv, NEW l \in DOMAIN leads
  PROVE  LET old == leads[l]
             new == AttributionFor(l, old)
             row == WithoutEvidence(l, old)
         IN  /\ row \in LeadRow /\ row.attr = new.attr /\ row.review = NeedsReview(old, new)
             /\ row.scan = old.scan
             /\ row.notified => old.notified /\ ~OwnershipChange(old.attr, new.attr)
             /\ old.status = "remediated" /\ row.status # "remediated" =>
                   OwnershipChange(old.attr, new.attr)
  <1> DEFINE old == leads[l]
             new == AttributionFor(l, old)
             need == NeedsReview(old, new)
             elig == IF KnownHost(AddrOf[l]) THEN EligibleHost(AddrOf[l]) ELSE old.eligible
             row == [[old EXCEPT !.attr = new.attr, !.review = need] EXCEPT !.eligible = elig]
  <1>1. l \in Lead /\ old \in LeadRow
    BY DEF TypeOK
  <1>2. new.attr \in Attribution /\ new.review \in BOOLEAN
    BY AttributionForFacts
  <1>3. need \in BOOLEAN
    BY <1>1, <1>2 DEF NeedsReview, OwnershipChange, AttrChanged, LeadRow
  <1>4. elig \in BOOLEAN
    BY <1>1 DEF LeadRow, EligibleHost
  <1>5. WithoutEvidence(l, old) =
          IF OwnershipChange(old.attr, new.attr) THEN Closed(row)
          ELSE IF old.status \in {"notified", "acknowledged"} /\ IsGone(l)
               THEN [row EXCEPT !.status = "remediated"]
               ELSE row
    BY DEF WithoutEvidence, Attributed
  <1> HIDE DEF new, need, elig
  <1>6. /\ row \in LeadRow /\ row.attr = new.attr /\ row.review = need /\ row.scan = old.scan
        /\ row.status = old.status /\ row.notified = old.notified
    BY <1>1, <1>2, <1>3, <1>4 DEF LeadRow
  <1> HIDE DEF row
  <1>7. QED
    BY <1>5, <1>6, ClosedFields, RemediatedFields DEF new, need

(* A new row has the attribution of now, flagged if that is in doubt; only *)
(* a row that takes over a legacy lead's is one of somebody notified, and  *)
(* it has the status of the only legacy lead of its service and type.      *)
LEMMA CreatedFacts ==
  ASSUME TypeOK, NEW l \in Candidates \ DOMAIN leads
  PROVE  LET row == Created(l)
         IN  /\ row \in LeadRow /\ row.attr = FirstAttribution(l).attr /\ row.scan = evidence[l]
             /\ FirstAttribution(l).review => row.review
             /\ row.notified => l \in TookOver
             /\ \A g \in LegacyOf(l) : l \in Named[g] => row.status = leads[g].status
  <1> DEFINE new == FirstAttribution(l)
             row == [attr |-> new.attr, review |-> new.review, status |-> "new", notified |-> FALSE,
                     eligible |-> TRUE, scan |-> evidence[l]]
             g == CHOOSE g \in LegacyOf(l) : TRUE
             over == [row EXCEPT !.status = leads[g].status, !.notified = leads[g].notified,
                                 !.review = new.review \/ Cardinality(Named[g]) > 1]
             flagged == [row EXCEPT !.review = TRUE]
  <1>1. l \in Lead \ Legacy /\ evidence[l] \in 0 .. MaxScan
    BY DEF Candidates, TypeOK
  <1>2. new.attr \in Attribution /\ new.review \in BOOLEAN
    BY <1>1, FirstAttributionFacts
  <1>3. Created(l) = IF LegacyOf(l) = {} THEN row ELSE IF l \in Named[g] THEN over ELSE flagged
    BY DEF Created
  <1>4. ASSUME LegacyOf(l) # {}
        PROVE  g \in LegacyOf(l) /\ g \in DOMAIN leads /\ leads[g] \in LeadRow
    BY <1>4 DEF LegacyOf, TypeOK
  <1>5. \A k \in LegacyOf(l) : k = g
    BY CaseAssumption DEF LegacyOf, Targets
  <1> HIDE DEF new, g
  <1>6. row \in LeadRow
    BY <1>1, <1>2 DEF LeadRow, Statuses
  <1>7. CASE LegacyOf(l) = {}
    BY <1>2, <1>3, <1>6, <1>7 DEF new
  <1>8. CASE LegacyOf(l) # {} /\ l \in Named[g]
    <2> DEFINE need == new.review \/ Cardinality(Named[g]) > 1
    <2>1. need \in BOOLEAN /\ (new.review => need)
      OBVIOUS
    <2>2. leads[g].status \in Statuses /\ leads[g].notified \in BOOLEAN
      BY <1>4, <1>8 DEF LeadRow
    <2> HIDE DEF need
    <2>3. /\ over \in LeadRow /\ over.attr = new.attr /\ over.scan = evidence[l]
          /\ over.review = need /\ over.status = leads[g].status
      BY <1>1, <1>2, <2>1, <2>2 DEF LeadRow, need
    <2>4. l \in TookOver
      BY <1>4, <1>8 DEF TookOver
    <2> HIDE DEF over
    <2>5. QED
      BY <1>2, <1>3, <1>5, <1>8, <2>1, <2>3, <2>4 DEF new
  <1>9. CASE LegacyOf(l) # {} /\ l \notin Named[g]
    <2>1. /\ flagged \in LeadRow /\ flagged.attr = new.attr /\ flagged.scan = evidence[l]
          /\ flagged.review = TRUE /\ flagged.notified = FALSE
      BY <1>1, <1>2 DEF LeadRow, Statuses
    <2> HIDE DEF flagged
    <2>2. QED
      BY <1>3, <1>5, <1>9, <2>1 DEF new
  <1>10. QED
    BY <1>7, <1>8, <1>9

(* A refresh makes each row of one of four: a new one, a legacy one it     *)
(* keeps, one with evidence and one without.                               *)
LEMMA RefreshRow ==
  ASSUME TypeOK, Refresh, NEW l \in DOMAIN leads'
  PROVE  /\ l \in Lead
         /\ \/ l \in Candidates \ DOMAIN leads /\ leads'[l] = Created(l)
            \/ l \in DOMAIN leads \cap Legacy /\ leads'[l] = [leads[l] EXCEPT !.review = TRUE]
            \/ l \in (DOMAIN leads \cap Candidates) \ Legacy /\ leads'[l] = WithEvidence(l, leads[l])
            \/ l \in DOMAIN leads \ (Candidates \cup Legacy) /\ leads'[l] = WithoutEvidence(l, leads[l])
  <1>1. /\ l \in (DOMAIN leads \ GivenUp) \cup Candidates
        /\ leads'[l] = Reconciled(l)
    BY DEF Refresh
  <1>2. l \in Lead /\ Candidates \cap Legacy = {}
    BY <1>1 DEF TypeOK, Candidates
  <1>3. QED
    BY <1>1, <1>2 DEF Reconciled

LEMMA LegacyRowFields ==
  ASSUME NEW old \in LeadRow
  PROVE  LET row == [old EXCEPT !.review = TRUE]
         IN  /\ row \in LeadRow /\ row.attr = old.attr /\ row.review
             /\ row.scan = old.scan /\ row.notified = old.notified /\ row.status = old.status
  BY DEF LeadRow

-----------------------------------------------------------------------------
(* A refresh *)

LEMMA RefreshTypes == IInv /\ Refresh => TypeOK' /\ NameInv'
  <1> SUFFICES ASSUME IInv, Refresh PROVE TypeOK' /\ NameInv'
    OBVIOUS
  <1> USE DEF IInv
  <1>1. ASSUME NEW l \in DOMAIN leads'
        PROVE  /\ l \in Lead /\ leads'[l] \in LeadRow
               /\ leads'[l].attr.org # NoOrg => leads'[l].attr.name # NoName
    <2>1. l \in Lead
      BY <1>1, RefreshRow
    <2>2. CASE l \in Candidates \ DOMAIN leads /\ leads'[l] = Created(l)
      BY <2>1, <2>2, CreatedFacts, FirstAttributionFacts
    <2>3. CASE l \in DOMAIN leads \cap Legacy /\ leads'[l] = [leads[l] EXCEPT !.review = TRUE]
      BY <2>3, LegacyRowFields DEF TypeOK, NameInv
    <2>4. CASE l \in (DOMAIN leads \cap Candidates) \ Legacy /\ leads'[l] = WithEvidence(l, leads[l])
      <3>1. leads'[l] \in LeadRow /\ leads'[l].attr = AttributionFor(l, leads[l]).attr
        BY <2>4, WithEvidenceFacts
      <3>2. QED
        BY <2>1, <2>4, <3>1, AttributionForFacts
    <2>5. CASE l \in DOMAIN leads \ (Candidates \cup Legacy) /\ leads'[l] = WithoutEvidence(l, leads[l])
      <3>1. leads'[l] \in LeadRow /\ leads'[l].attr = AttributionFor(l, leads[l]).attr
        BY <2>5, WithoutEvidenceFacts
      <3>2. QED
        BY <2>1, <2>5, <3>1, AttributionForFacts
    <2>6. QED
      BY <1>1, <2>1, <2>2, <2>3, <2>4, <2>5, RefreshRow
  <1>2. UNCHANGED <<evidence, gone, tier, label, names, reg, changes, acts, cleared>>
    BY DEF Refresh, world
  <1>3. TookOver \subseteq Lead
    BY DEF TookOver, Candidates
  <1>4. DOMAIN told' \subseteq Lead /\ migrated' \subseteq Lead
    BY <1>3 DEF Refresh, TypeOK
  <1>5. shown' \in [Lead -> 0 .. MaxScan]
    BY CaseAssumption DEF Refresh, TypeOK, Later
  <1>6. QED
    BY <1>1, <1>2, <1>4, <1>5 DEF TypeOK, NameInv

LEMMA RefreshTold == IInv /\ Refresh => ToldInv'
  <1> SUFFICES ASSUME IInv, Refresh, NEW l \in DOMAIN leads' \ migrated', leads'[l].notified
               PROVE  l \in DOMAIN told' /\ told'[l] = leads'[l].attr.org
    BY DEF ToldInv
  <1> USE DEF IInv
  <1>1. l \notin migrated /\ l \notin TookOver
    BY DEF Refresh
  <1>2. l \in DOMAIN leads /\ leads[l].notified /\ leads'[l].attr.org = leads[l].attr.org
    <2>1. CASE l \in Candidates \ DOMAIN leads /\ leads'[l] = Created(l)
      BY <1>1, <2>1, CreatedFacts
    <2>2. CASE l \in DOMAIN leads \cap Legacy /\ leads'[l] = [leads[l] EXCEPT !.review = TRUE]
      BY <2>2, LegacyRowFields DEF TypeOK
    <2>3. CASE l \in (DOMAIN leads \cap Candidates) \ Legacy /\ leads'[l] = WithEvidence(l, leads[l])
      BY <2>3, WithEvidenceFacts DEF OwnershipChange
    <2>4. CASE l \in DOMAIN leads \ (Candidates \cup Legacy) /\ leads'[l] = WithoutEvidence(l, leads[l])
      BY <2>4, WithoutEvidenceFacts DEF OwnershipChange
    <2>5. QED
      BY <2>1, <2>2, <2>3, <2>4, RefreshRow
  <1>3. l \in DOMAIN told /\ told[l] = leads[l].attr.org
    BY <1>1, <1>2 DEF ToldInv
  <1>4. QED
    BY <1>1, <1>2, <1>3 DEF Refresh

LEMMA RefreshReview == IInv /\ Refresh => ReviewInv'
  <1> SUFFICES ASSUME IInv, Refresh, NEW l \in DOMAIN leads'
               PROVE  \/ leads'[l].review \/ leads'[l].attr.org = NoOrg
                      \/ Sure(l, leads'[l].attr) \/ Cleared(l, leads'[l].attr)
    BY DEF ReviewInv, Cleared, Sure, Refresh
  <1> USE DEF IInv
  <1>1. l \in Lead
    BY RefreshRow
  <1>2. CASE l \in Candidates \ DOMAIN leads /\ leads'[l] = Created(l)
    BY <1>1, <1>2, CreatedFacts, FirstAttributionFacts
  <1>3. CASE l \in DOMAIN leads \cap Legacy /\ leads'[l] = [leads[l] EXCEPT !.review = TRUE]
    BY <1>3, LegacyRowFields DEF TypeOK
  <1>4. CASE l \in (DOMAIN leads \cap Candidates) \ Legacy /\ leads'[l] = WithEvidence(l, leads[l])
    BY <1>4, WithEvidenceFacts, FlagRaised
  <1>5. CASE l \in DOMAIN leads \ (Candidates \cup Legacy) /\ leads'[l] = WithoutEvidence(l, leads[l])
    BY <1>5, WithoutEvidenceFacts, FlagRaised
  <1>6. QED
    BY <1>2, <1>3, <1>4, <1>5, RefreshRow

LEMMA RefreshScan == IInv /\ Refresh => ScanInv'
  <1> SUFFICES ASSUME IInv, Refresh, NEW l \in Lead
               PROVE  /\ shown'[l] = IF l \in DOMAIN leads' THEN leads'[l].scan ELSE 0
                      /\ l \in Legacy => shown'[l] = 0
    BY DEF ScanInv
  <1> USE DEF IInv
  <1>1. shown'[l] = IF l \in Candidates THEN Later(shown[l], evidence[l]) ELSE shown[l]
    BY DEF Refresh
  <1>2. /\ shown[l] = IF l \in DOMAIN leads THEN leads[l].scan ELSE 0
        /\ l \in Legacy => shown[l] = 0
    BY DEF ScanInv
  <1>3. evidence[l] \in Nat /\ Candidates \cap Legacy = {}
    BY CaseAssumption DEF TypeOK, Candidates
  <1>4. CASE l \notin DOMAIN leads'
    <2>1. l \notin Candidates /\ (l \in DOMAIN leads => l \in Legacy)
      BY <1>4 DEF Refresh, GivenUp
    <2>2. QED
      BY <1>1, <1>2, <1>4, <2>1
  <1>5. CASE l \in DOMAIN leads'
    <2>1. CASE l \in Candidates \ DOMAIN leads /\ leads'[l] = Created(l)
      BY <1>1, <1>2, <1>3, <1>5, <2>1, CreatedFacts DEF Later
    <2>2. CASE l \in DOMAIN leads \cap Legacy /\ leads'[l] = [leads[l] EXCEPT !.review = TRUE]
      BY <1>1, <1>2, <1>3, <1>5, <2>2, LegacyRowFields DEF TypeOK
    <2>3. CASE l \in (DOMAIN leads \cap Candidates) \ Legacy /\ leads'[l] = WithEvidence(l, leads[l])
      BY <1>1, <1>2, <1>5, <2>3, WithEvidenceFacts
    <2>4. CASE l \in DOMAIN leads \ (Candidates \cup Legacy) /\ leads'[l] = WithoutEvidence(l, leads[l])
      BY <1>1, <1>2, <1>5, <2>4, WithoutEvidenceFacts
    <2>5. QED
      BY <1>5, <2>1, <2>2, <2>3, <2>4, RefreshRow
  <1>6. QED
    BY <1>4, <1>5

-----------------------------------------------------------------------------
(* An analyst *)

LEMMA SetStep ==
  ASSUME IInv, NEW l \in DOMAIN leads, NEW status \in Settable \cup {"kept"},
         NEW review \in {"kept", "cleared", "needed"}, Set(l, status, review)
  PROVE  IInv'
  <1> DEFINE row == leads[l]
             first == status = "notified" /\ ~row.notified
             newStatus == IF status = "kept" THEN row.status ELSE status
             newReview == IF review = "kept" THEN row.review ELSE review = "needed"
             newRow == [row EXCEPT !.status = newStatus, !.notified = row.notified \/ first,
                                   !.review = newReview]
  <1> USE DEF IInv
  <1>1. row \in LeadRow /\ l \in Lead
    BY DEF TypeOK
  <1>2. row.notified \in BOOLEAN /\ row.review \in BOOLEAN
    BY <1>1 DEF LeadRow
  <1>3. newStatus \in Statuses /\ newReview \in BOOLEAN /\ (row.notified \/ first) \in BOOLEAN
    BY <1>1, CaseAssumption DEF LeadRow
  <1>4. /\ leads' = [leads EXCEPT ![l] = newRow]
        /\ told' = IF first THEN [k \in DOMAIN told \cup {l} |-> IF k = l THEN row.attr.org ELSE told[k]]
                   ELSE told
        /\ cleared' = IF review # "cleared" THEN cleared
                      ELSE [k \in DOMAIN cleared \cup {l} |-> IF k = l THEN row.attr ELSE cleared[k]]
        /\ acts > 0 /\ acts' = acts - 1
        /\ UNCHANGED <<evidence, gone, tier, label, names, reg, changes, shown, migrated>>
    BY DEF Set, world
  <1> HIDE DEF newStatus, newReview
  <1>5. /\ newRow \in LeadRow /\ newRow.attr = row.attr /\ newRow.scan = row.scan
        /\ newRow.notified = (row.notified \/ first) /\ newRow.review = newReview
    BY <1>1, <1>3 DEF LeadRow
  <1> HIDE DEF newRow
  <1>6. DOMAIN leads' = DOMAIN leads /\ \A k \in DOMAIN leads : leads'[k] = IF k = l THEN newRow ELSE leads[k]
    BY <1>4
  <1>7. TypeOK'
    <2>1. \A k \in DOMAIN leads' : leads'[k] \in LeadRow
      BY <1>5, <1>6 DEF TypeOK
    <2>2. DOMAIN told' \subseteq Lead /\ DOMAIN cleared' \subseteq Lead
      BY <1>1, <1>4 DEF TypeOK
    <2>3. acts' \in 0 .. MaxActs
      BY <1>4, CaseAssumption DEF TypeOK
    <2>4. QED
      BY <1>4, <1>6, <2>1, <2>2, <2>3 DEF TypeOK
  <1>8. NameInv'
    BY <1>5, <1>6 DEF NameInv
  <1>9. ToldInv'
    BY <1>4, <1>5, <1>6 DEF ToldInv
  <1>10. ReviewInv'
    <2> DEFINE ClearedNow(k, attr) == k \in DOMAIN cleared' /\ SameAttribution(cleared'[k], attr)
    <2> SUFFICES ASSUME NEW k \in DOMAIN leads
                 PROVE  \/ leads'[k].review \/ leads'[k].attr.org = NoOrg
                        \/ Sure(k, leads'[k].attr) \/ ClearedNow(k, leads'[k].attr)
      BY <1>6 DEF ReviewInv, Sure, Cleared, SameAttribution
    <2>1. CASE k # l
      <3>1. Cleared(k, leads[k].attr) => ClearedNow(k, leads'[k].attr)
        BY <1>4, <1>6, <2>1 DEF Cleared, SameAttribution
      <3>2. QED
        BY <1>6, <2>1, <3>1 DEF ReviewInv
    <2>2. CASE k = l /\ review = "cleared"
      <3>1. l \in DOMAIN cleared' /\ cleared'[l] = row.attr
        BY <1>4, <2>2
      <3>2. QED
        BY <1>5, <1>6, <2>2, <3>1 DEF Cleared, SameAttribution
    <2>3. CASE k = l /\ review # "cleared"
      <3>1. newReview \/ newReview = row.review
        BY <2>3, <1>2 DEF newReview
      <3>2. Cleared(l, leads[l].attr) => ClearedNow(l, leads'[l].attr)
        BY <1>4, <1>5, <1>6, <2>3 DEF Cleared, SameAttribution
      <3>3. QED
        BY <1>5, <1>6, <2>3, <3>1, <3>2 DEF ReviewInv
    <2>4. QED
      BY <2>1, <2>2, <2>3
  <1>11. ScanInv'
    BY <1>1, <1>4, <1>5, <1>6 DEF ScanInv
  <1>12. QED
    BY <1>7, <1>8, <1>9, <1>10, <1>11

-----------------------------------------------------------------------------
(* The world around the leads *)

LEMMA WorldStep == IInv /\ WorldChanges => IInv'
  <1> SUFFICES ASSUME IInv, WorldChanges PROVE IInv'
    OBVIOUS
  <1>1. UNCHANGED <<leads, acts, told, cleared, shown, migrated>> /\ changes' \in 0 .. MaxChanges
    BY CaseAssumption
       DEF IInv, TypeOK, WorldChanges, EvidenceChanges, ServiceGone, TierChanges, NamesChange, RegistryChanges,
           Changes, history
  <1>2. /\ evidence' \in [Lead -> 0 .. MaxScan] /\ gone' \subseteq Service
        /\ tier' \in [Addr -> Tiers] /\ label' \in [Addr -> Label \cup {NoName}]
        /\ names' \in [Service -> SUBSET Org] /\ (reg' = Unavailable \/ reg' \in [Addr -> RegistryRows])
    <2> USE CaseAssumption DEF IInv, TypeOK, Tiers
    <2>1. CASE EvidenceChanges
      BY <2>1 DEF EvidenceChanges
    <2>2. CASE ServiceGone
      BY <2>2 DEF ServiceGone
    <2>3. CASE TierChanges
      BY <2>3 DEF TierChanges
    <2>4. CASE NamesChange
      BY <2>4 DEF NamesChange
    <2>5. CASE RegistryChanges
      BY <2>5 DEF RegistryChanges
    <2>6. QED
      BY <2>1, <2>2, <2>3, <2>4, <2>5 DEF WorldChanges
  <1>3. TypeOK'
    BY <1>1, <1>2 DEF IInv, TypeOK
  <1>4. NameInv' /\ ToldInv' /\ ScanInv'
    BY <1>1 DEF IInv, NameInv, ToldInv, ScanInv
  <1>5. ReviewInv'
    BY <1>1 DEF IInv, ReviewInv, Sure, Cleared, SameAttribution
  <1>6. QED
    BY <1>3, <1>4, <1>5 DEF IInv

-----------------------------------------------------------------------------
(* The invariant *)

LEMMA InvInit == Init => IInv
  <1> SUFFICES ASSUME Init PROVE IInv
    OBVIOUS
  <1>1. PICK told0 \in SUBSET Legacy :
          /\ leads = [g \in Legacy |->
                [attr |-> Attr(FirstOwner[AddrOf[g]], FirstOwner[AddrOf[g]], "whole", 3, FALSE),
                 review |-> FALSE, status |-> IF g \in told0 THEN "notified" ELSE "new",
                 notified |-> g \in told0, eligible |-> TRUE, scan |-> 0]]
          /\ told = [g \in told0 |-> FirstOwner[AddrOf[g]]]
    BY DEF Init
  <1>2. /\ DOMAIN leads = Legacy /\ Legacy \subseteq Lead
        /\ DOMAIN told = told0 /\ \A g \in told0 : told[g] = FirstOwner[AddrOf[g]]
    BY <1>1, CaseAssumption
  <1>3. ASSUME NEW g \in Legacy
        PROVE  LET owner == FirstOwner[AddrOf[g]]
               IN  /\ leads[g] \in LeadRow /\ leads[g].scan = 0 /\ leads[g].notified = (g \in told0)
                   /\ leads[g].attr.org = owner /\ leads[g].attr.name # NoName
                   /\ Sure(g, leads[g].attr)
    <2> DEFINE owner == FirstOwner[AddrOf[g]]
               attr == Attr(owner, owner, "whole", 3, FALSE)
               was == IF g \in told0 THEN "notified" ELSE "new"
               notified == g \in told0
    <2>1. owner \in Org /\ owner # NoName /\ owner # NoOrg
      BY <1>2, <1>3, CaseAssumption
    <2>2. leads[g] = [attr |-> attr, review |-> FALSE, status |-> was, notified |-> notified,
                      eligible |-> TRUE, scan |-> 0]
      BY <1>1, <1>3
    <2>3. was \in Statuses /\ notified \in BOOLEAN
      BY DEF Statuses
    <2> HIDE DEF owner, was, notified
    <2>4. /\ attr \in Attribution /\ attr.org = owner /\ attr.name = owner
          /\ attr.method = "whole" /\ attr.conflict = FALSE
      BY <2>1 DEF Attr, Attribution
    <2> HIDE DEF attr
    <2>5. leads[g] \in LeadRow
      BY <2>2, <2>3, <2>4, CaseAssumption DEF LeadRow
    <2>6. QED
      BY <2>1, <2>2, <2>4, <2>5 DEF Sure, owner, notified
  <1>4. /\ reg \in [Addr -> RegistryRows] /\ label \in [Addr -> Label \cup {NoName}] /\ gone = {}
        /\ changes = MaxChanges /\ acts = MaxActs
        /\ DOMAIN cleared = {} /\ shown = [l \in Lead |-> 0] /\ migrated = {}
    BY DEF Init
  <1>5. names \in [Service -> SUBSET Org]
    BY CaseAssumption DEF Init
  <1>6. tier \in [Addr -> Tiers]
    BY DEF Init, Tiers
  <1>7. evidence \in [Lead -> 0 .. MaxScan]
    BY CaseAssumption DEF Init
  <1>8. TypeOK
    BY <1>2, <1>3, <1>4, <1>5, <1>6, <1>7, CaseAssumption DEF TypeOK
  <1>9. NameInv /\ ToldInv /\ ReviewInv /\ ScanInv
    BY <1>2, <1>3, <1>4 DEF NameInv, ToldInv, ReviewInv, ScanInv
  <1>10. QED
    BY <1>8, <1>9 DEF IInv

LEMMA InvStep == IInv /\ [Next]_vars => IInv'
  <1> SUFFICES ASSUME IInv, [Next]_vars PROVE IInv'
    OBVIOUS
  <1>1. CASE Refresh
    BY <1>1, RefreshTypes, RefreshTold, RefreshReview, RefreshScan DEF IInv
  <1>2. CASE WorldChanges
    BY <1>2, WorldStep
  <1>3. CASE AnalystSets
    BY <1>3, SetStep DEF AnalystSets
  <1>4. CASE UNCHANGED vars
    BY <1>4 DEF vars, world, history, IInv, TypeOK, NameInv, ToldInv, ReviewInv, ScanInv, Sure, Cleared,
                SameAttribution
  <1>5. QED
    BY <1>1, <1>2, <1>3, <1>4 DEF Next

LEMMA Invariant == Spec => []IInv
  BY InvInit, InvStep, PTL DEF Spec

(* Every row of the table leads keeps its columns in their types           *)
(* (leads.py LEAD_TYPES), whatever is refreshed, set or changed.           *)
THEOREM Typing == Spec => []TypeOK
  BY Invariant, PTL DEF IInv

(* The owner of now is the one that was told (leads.py ownership_change,   *)
(* notified_on), however often the owner changed and came back.            *)
THEOREM ToldTheOwner == Spec => []NotifiedPresentOwner
  <1>1. IInv => NotifiedPresentOwner
    BY DEF IInv, ToldInv, NotifiedPresentOwner
  <1>2. QED
    BY <1>1, Invariant, PTL

(* Nothing in doubt leaves in a packet that nobody cleared (leads.py       *)
(* attr_changed, make_packet.py select_leads).                             *)
THEOREM NothingDoubtfulSent == Spec => []ReviewedPacket
  <1>1. ASSUME NEW p \in Packets, NEW l \in p.leads
        PROVE  l \in DOMAIN leads /\ ~leads[l].review
    <2>1. PICK rows \in Selections : p = PacketOf(rows)
      BY <1>1 DEF Packets
    <2>2. rows \subseteq DOMAIN leads
      BY <2>1 DEF Selections, Ranked
    <2>3. p.leads = Kept(rows)
      BY <2>1 DEF PacketOf
    <2>4. QED
      BY <1>1, <2>2, <2>3 DEF Kept
  <1>2. IInv => ReviewedPacket
    BY <1>1 DEF IInv, ReviewInv, ReviewedPacket, Cleared
  <1>3. QED
    BY <1>2, Invariant, PTL

(* A remediated lead of the same owner is opened again only by a scan      *)
(* newer than all before it (leads.py last_scan_ts, newer).                *)
THEOREM OnlyNewScansReopen == Spec => ReopenedByNewerScan
  <1>1. ASSUME IInv, NEW l \in DOMAIN leads \cap DOMAIN leads',
               leads[l].status = "remediated", leads'[l].status = "new", Refresh
        PROVE  OwnershipChange(leads[l].attr, leads'[l].attr) \/ evidence[l] > shown[l]
    <2> USE <1>1 DEF IInv
    <2>1. leads[l] \in LeadRow /\ l \in Lead /\ shown[l] = leads[l].scan
      BY DEF TypeOK, ScanInv
    <2>2. CASE leads'[l] = [leads[l] EXCEPT !.review = TRUE]
      BY <2>1, <2>2, LegacyRowFields
    <2>3. CASE leads'[l] = WithEvidence(l, leads[l])
      BY <2>1, <2>3, WithEvidenceFacts
    <2>4. CASE leads'[l] = WithoutEvidence(l, leads[l])
      BY <2>1, <2>4, WithoutEvidenceFacts
    <2>5. QED
      BY <2>2, <2>3, <2>4, RefreshRow
  <1>2. IInv /\ [Next]_vars =>
          [\A l \in DOMAIN leads \cap DOMAIN leads' :
              leads[l].status = "remediated" /\ leads'[l].status = "new" /\ Refresh =>
                  \/ OwnershipChange(leads[l].attr, leads'[l].attr)
                  \/ evidence[l] > shown[l]]_vars
    BY <1>1
  <1>3. QED
    BY <1>2, Invariant, PTL DEF Spec, ReopenedByNewerScan

(* A legacy lead is deleted only once leads of CVEs it names are in the    *)
(* table, and those made of it have its status (leads.py legacy_map).      *)
THEOREM LegacyHandedOn == Spec => LegacyCarriedOn
  <1>1. ASSUME IInv, [Next]_vars, NEW g \in DOMAIN leads \ DOMAIN leads'
        PROVE  /\ Named[g] \cap DOMAIN leads' # {}
               /\ \A l \in (Named[g] \cap DOMAIN leads') \ DOMAIN leads : leads'[l].status = leads[g].status
    <2> USE <1>1 DEF IInv
    <2>1. Refresh
      <3>1. CASE WorldChanges
        BY <3>1 DEF WorldChanges, EvidenceChanges, ServiceGone, TierChanges, NamesChange, RegistryChanges, Changes
      <3>2. CASE AnalystSets
        BY <3>2 DEF AnalystSets, Set
      <3>3. QED
        BY <3>1, <3>2 DEF Next, vars
    <2>2. DOMAIN leads' = (DOMAIN leads \ GivenUp) \cup Candidates
      BY <2>1 DEF Refresh
    <2>3. g \in DOMAIN leads \cap Legacy /\ Mapped(g) # {} /\ Mapped(g) = Targets(g)
      BY <2>2 DEF GivenUp
    <2>4. Named[g] \cap DOMAIN leads' # {}
      BY <2>2, <2>3 DEF Mapped, Targets
    <2>5. ASSUME NEW l \in (Named[g] \cap DOMAIN leads') \ DOMAIN leads
          PROVE  leads'[l].status = leads[g].status
      <3>1. l \in Candidates \ DOMAIN leads /\ leads'[l] = Created(l)
        BY <2>1, <2>5, RefreshRow
      <3>2. g \in LegacyOf(l)
        BY <2>3, <2>5, <3>1, CaseAssumption DEF LegacyOf, Targets
      <3>3. QED
        BY <2>5, <3>1, <3>2, CreatedFacts
    <2>6. QED
      BY <2>4, <2>5
  <1>2. IInv /\ [Next]_vars =>
          [\A g \in DOMAIN leads \ DOMAIN leads' :
              /\ Named[g] \cap DOMAIN leads' # {}
              /\ \A l \in (Named[g] \cap DOMAIN leads') \ DOMAIN leads :
                    leads'[l].status = leads[g].status]_vars
    BY <1>1
  <1>3. QED
    BY <1>2, Invariant, PTL DEF Spec, LegacyCarriedOn
=============================================================================
