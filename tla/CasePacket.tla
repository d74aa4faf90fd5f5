----------------------------- MODULE CasePacket -----------------------------
(***************************************************************************)
(* What analysts do with the leads: leads.py set, and make_packet.py, the  *)
(* notification for one organisation.  A packet is the leads it lists, the *)
(* name it is addressed to and the addresses whose other services its      *)
(* appendix may list; the wording and the layout are left out.             *)
(***************************************************************************)
EXTENDS CaseRefresh

(* set_status: one update of one row.  notified_on is stamped once in an   *)
(* episode.                                                                *)
Set(l, status, review) ==
    LET row   == leads[l]
        first == status = "notified" /\ ~row.notified
    IN  /\ acts > 0 /\ acts' = acts - 1 /\ (status # "kept" \/ review # "kept")
        /\ leads' = [leads EXCEPT ![l] =
              [row EXCEPT !.status = IF status = "kept" THEN @ ELSE status,
                          !.notified = @ \/ first,
                          !.review = IF review = "kept" THEN @ ELSE review = "needed"]]
        /\ told' = IF first THEN [k \in DOMAIN told \cup {l} |-> IF k = l THEN row.attr.org ELSE told[k]]
                   ELSE told
        /\ cleared' = IF review # "cleared" THEN cleared
                      ELSE [k \in DOMAIN cleared \cup {l} |-> IF k = l THEN row.attr ELSE cleared[k]]
        /\ UNCHANGED <<world, shown, migrated>>

AnalystSets ==
    \E l \in DOMAIN leads, status \in Settable \cup {"kept"}, review \in {"kept", "cleared", "needed"} :
        Set(l, status, review)

-----------------------------------------------------------------------------
(* org_key: the organisation, or the name where there is none *)
OrgKey(attr) ==
    [org |-> attr.org, name |-> IF attr.org = NoOrg THEN attr.name ELSE NoName]

OpenStatuses == {"new", "queued", "notified", "acknowledged"}

(* ranked_leads: the eligible rows in one of the statuses *)
Ranked(statuses) == {l \in DOMAIN leads : leads[l].eligible /\ leads[l].status \in statuses}

(* select_leads keeps what is no never-target today and needs no review *)
Kept(rows) == {l \in rows : tier[AddrOf[l]] # "never" /\ ~leads[l].review}

(* One organisation to a packet *)
OneOrg(rows) == rows # {} /\ \A k, l \in rows : OrgKey(leads[k].attr) = OrgKey(leads[l].attr)

(* An address the registry of now records as the organisation's own *)
WholeAddress(a, key) ==
    /\ reg # Unavailable /\ reg[a] # NoRow
    /\ reg[a].method = "whole" /\ reg[a].conf = 3 /\ ~reg[a].conflict
    /\ OrgKey(Attr(reg[a].org, reg[a].org, "whole", 3, FALSE)) = key

(* The rows of an address disagree *)
Conflicting(a) == ~OneOrg({l \in DOMAIN leads : AddrOf[l] = a})

(* gather: the packet of the rows selected *)
PacketOf(rows) ==
    LET kept == Kept(rows)
        attr == leads[CHOOSE l \in kept : TRUE].attr
    IN  [leads |-> kept, to |-> attr.name,
         others |-> {a \in {AddrOf[l] : l \in kept} : WholeAddress(a, OrgKey(attr)) /\ ~Conflicting(a)}]

Selections ==
    {{l \in Ranked(s) : leads[l].attr.name = n} : s \in {OpenStatuses, Statuses}, n \in Org \cup Label}
        \cup {{l \in Ranked(s) : AddrOf[l] = a} : s \in {OpenStatuses, Statuses}, a \in Addr}

(* main, for --org and --ip, with and without --include-closed: the        *)
(* packets that can be written now.  Writing one changes nothing else.     *)
Packets == {PacketOf(rows) : rows \in {rows \in Selections : OneOrg(Kept(rows))}}
=============================================================================
