--------------------------- MODULE OwnerRegistry ---------------------------
(***************************************************************************)
(* build_registry.py and the reader registry.py: who owns an address,      *)
(* published as generations with a CURRENT pointer.                        *)
(*                                                                         *)
(* The curated files list organisations for prefixes, domains and network  *)
(* numbers; of several rows the first counts, and organisations are        *)
(* numbered in the order of the rows.  An address stands for the longest   *)
(* prefix it is under, a name of its host for the longest domain.  Whom    *)
(* ARIN has as the registrant of a network without rows counts as a row of *)
(* it, asked for together with the number: half an answer is none.  Left   *)
(* out are the text of the evidence, the lower confidence of names on a    *)
(* carrier's network, sectors and contacts.                                *)
(***************************************************************************)
EXTENDS Rosters

CONSTANTS
    Addr,
    Domain,       \* domains of domains.csv, by their length
    Asn,
    NoAsn,        \* no number: a cache without an answer, a host Shodan has none of
    Org,          \* the organisations the curated files may hold
    ConfOf,       \* the confidence the rows of an organisation state
    Residential,  \* addresses of tier residential: never sent to Team Cymru
    Tiered,       \* addresses whose network ARIN is asked about
    RosterConf,   \* confidence of a roster's name: 2 by certificate, 1 by Shodan
    Keep,         \* KEEP_GENERATIONS
    Worlds        \* what the curated files, the hosts and the network may say at first

Key == Addr \cup Domain \cup Asn

Channel == {"rdns", "cert"}

World == [owned : [Key -> SUBSET Org], shows : [Addr -> [Channel -> SUBSET Domain]],
          cymru : [Addr -> Asn], shodan : [Addr -> Asn \cup {NoAsn}]]

NoDomain == 0

ASSUME RegistryAssumption ==
    /\ Org \subseteq Nat \ {0} /\ Org # {} /\ IsFiniteSet(Org) /\ ConfOf \in [Org -> 1 .. 3]
    /\ Domain \subseteq Nat \ {0} /\ NoAsn \notin Asn /\ Worlds \subseteq World
    /\ Residential \subseteq Addr /\ Tiered \subseteq Addr
    /\ RosterConf \in 1 .. 2 /\ Keep \in Nat \ {0}

VARIABLES
    orgs,       \* orgs.csv
    owned,      \* networks.csv, domains.csv, ARIN: the organisations of a key
    shows,      \* the domains the names of a host are under
    asn,        \* the number Team Cymru, and Shodan, has for an address
    calls,      \* the organisation the host or Shodan says an address is of
    cache,      \* cymru and RDAP caches: the last answer, NoAsn if none
    built,      \* build: the generation to publish
    gens,       \* the gen-* directories, the oldest first
    current     \* the one CURRENT names, 0 if there is none

outside == <<orgs, owned, shows, asn, calls>>
registry == <<outside, cache, built, gens, current>>

NoOrg == 0
Method == {"prefix", "names", "network", "registrant", "origin", "none", "roster"}

(* Confidence: 3 high, 2 medium, 1 low *)
Attribution == [org : Org \cup {NoOrg} \cup Name, method : Method, conf : 1 .. 3, conflict : BOOLEAN]

NoRows == [a \in {} |-> NoOrg]

(* prefixes is registry_networks.parquet, rows is ip_attribution.parquet,  *)
(* whole says that every table is there that was to be written; carried    *)
(* (the rows are those of the generation before), outage (a network        *)
(* service was not reached) and claims (the owners whom the curated rows   *)
(* that counted name) are history.                                         *)
Generation ==
    [whole : BOOLEAN, orgs : SUBSET Org, prefixes : [Addr -> SUBSET Org],
     rows : [Addr -> Attribution] \cup {NoRows},
     carried : BOOLEAN, outage : BOOLEAN, claims : [Addr -> SUBSET Org]]

EmptyGeneration ==
    [whole |-> FALSE, orgs |-> {}, prefixes |-> [a \in Addr |-> {}], rows |-> NoRows,
     carried |-> FALSE, outage |-> FALSE, claims |-> [a \in Addr |-> {}]]

RegistryTypeOK ==
    /\ orgs \subseteq Org /\ owned \in [Key -> SUBSET Org]
    /\ shows \in [Addr -> [Channel -> SUBSET Domain]]
    /\ asn \in [{"cymru", "shodan"} -> [Addr -> Asn \cup {NoAsn}]]
    /\ calls \in [Addr -> Name \cup {NoOrg}] /\ cache \in [Addr -> Asn \cup {NoAsn}]
    /\ built \in Generation /\ gens \in Seq(Generation) /\ current \in 0 .. Len(gens)

FirstOf(S) == CHOOSE o \in S : \A p \in S : o <= p

RegistryInit ==
    /\ \E w \in Worlds : owned = w.owned /\ shows = w.shows
                         /\ asn = [cymru |-> w.cymru, shodan |-> w.shodan]
    /\ orgs = Org /\ calls = [a \in Addr |-> NoOrg] /\ cache = [a \in Addr |-> NoAsn]
    /\ built = EmptyGeneration /\ gens = <<>> /\ current = 0

(* An analyst edits orgs.csv, with the rows of the organisation elsewhere *)
OrgChanges ==
    /\ WorldChanges /\ \E o \in Org : orgs' = (orgs \cup {o}) \ (orgs \cap {o})
    /\ UNCHANGED <<rosters, owned, shows, asn, calls, cache, built, gens, current>>

RowChanges ==
    /\ WorldChanges
    /\ \E k \in Key, o \in Org : owned' = [owned EXCEPT ![k] = (@ \cup {o}) \ (@ \cap {o})]
    /\ UNCHANGED <<rosters, orgs, shows, asn, calls, cache, built, gens, current>>

(* A host shows other names, or moves to another network *)
HostChanges ==
    /\ WorldChanges
    /\ \/ /\ \E a \in Addr, c \in Channel, d \in Domain :
               shows' = [shows EXCEPT ![a][c] = (@ \cup {d}) \ (@ \cap {d})]
          /\ UNCHANGED asn
       \/ /\ \E a \in Addr, n \in Asn : asn' = [asn EXCEPT !["cymru"][a] = n]
          /\ UNCHANGED shows
    /\ UNCHANGED <<rosters, orgs, owned, calls, cache, built, gens, current>>

HostRenames ==
    /\ WorldChanges /\ \E a \in Addr, n \in Name \cup {NoOrg} : calls' = [calls EXCEPT ![a] = n]
    /\ UNCHANGED <<rosters, orgs, owned, shows, asn, cache, built, gens, current>>

-----------------------------------------------------------------------------
Weaker(c, d) == IF c < d THEN c ELSE d

(* _row: a conflict caps the confidence *)
AttributionRow(org, method, conf, conflict) ==
    [org |-> org, method |-> method, conf |-> IF conflict THEN Weaker(conf, 2) ELSE conf,
     conflict |-> conflict]

(* build_context: what the rows of organisations still in orgs.csv give *)
Known(k) == owned[k] \cap orgs

Routed(number) == IF number = NoAsn THEN {} ELSE Known(number)

(* DomainTable: the organisation whose row of a domain came first *)
OwnerOf(d) == FirstOf(Known(d))

Matched(a, c) == {d \in shows[a][c] : Known(d) # {}}

(* _domain_hit: the longest domain of the organisation that most names are *)
(* of; how many names are whose is left out.                               *)
Hits(matched) ==
    IF matched = {} THEN {NoDomain}
    ELSE {d \in matched : \A e \in matched : OwnerOf(e) = OwnerOf(d) => e <= d}

IsHit(best) == \A a \in Addr, c \in Channel : best[a][c] \in Hits(Matched(a, c))

(* The organisations that rows speak for: all those of the prefix, the     *)
(* first of every domain matched, and all those of the domains that decide *)
Claims(a, hit) ==
    Known(a) \cup (UNION {{OwnerOf(d) : d \in Matched(a, c)} : c \in Channel})
             \cup (UNION {Known(d) : d \in {hit[c] : c \in Channel} \ {NoDomain}})

(* _name_conflicts and the duplicates of build_context: more than one *)
Disagree(a, hit) == Cardinality(Claims(a, hit)) > 1

(* attribute_ip: prefix, then names, then the network *)
AttributeIp(a, network, hit) ==
    LET owner == FirstOf(Known(a))  conflict == Disagree(a, hit)
        named == IF hit["rdns"] # NoDomain THEN hit["rdns"] ELSE hit["cert"]
        number == IF network # NoAsn THEN network ELSE asn["shodan"][a]
        router == FirstOf(Routed(number))
    IN  CASE Known(a) # {} -> AttributionRow(owner, "prefix", ConfOf[owner], conflict)
          [] Known(a) = {} /\ named # NoDomain ->
                AttributionRow(OwnerOf(named), "names", ConfOf[OwnerOf(named)], conflict)
          [] Known(a) = {} /\ named = NoDomain /\ Routed(number) # {} ->
                AttributionRow(router, "network", Weaker(ConfOf[router], 2), Cardinality(Routed(number)) > 1)
          [] OTHER -> AttributionRow(NoOrg, IF number = NoAsn THEN "none"
                                            ELSE IF a \in Tiered THEN "registrant" ELSE "origin", 1, FALSE)

(* load_rosters: a name on the rosters of two sectors never matches *)
OnRoster(n) == Cardinality({c \in Sector : \E r \in roster[c] : r[1] = n}) = 1

(* roster_attribution: where the registry names no owner *)
WithRoster(a, row) ==
    IF row.org = NoOrg /\ OnRoster(calls[a]) THEN AttributionRow(calls[a], "roster", RosterConf, FALSE)
    ELSE row

NetworkMethods == {"network", "registrant", "origin"}
NetworkFallback == {"origin", "none"}

(* Nothing for a row that names no organisation *)
KeepStrongerNamed(row, prev) ==
    IF /\ ~row.conflict /\ row.method \in NetworkFallback /\ prev.method \in NetworkMethods
       /\ row.org = prev.org /\ prev.org \in orgs \cup {NoOrg} /\ prev.conf > row.conf
    THEN prev ELSE row

(* Whatever is stronger *)
KeepStrongerAny(row, prev) ==
    IF prev.method \in NetworkMethods /\ prev.org \in orgs \cup {NoOrg} /\ prev.conf > row.conf
    THEN prev ELSE row

(* keep_stronger_previous: the row the last build had, if this one's names *)
(* no owner and was not made with all the network could tell               *)
KeepStronger(row, prev) ==
    IF /\ ~row.conflict /\ row.method \in NetworkFallback /\ prev.method \in NetworkMethods
       /\ row.org \in {NoOrg, prev.org} /\ prev.org \in orgs \cup {NoOrg} /\ prev.conf > row.conf
    THEN prev ELSE row

-----------------------------------------------------------------------------
Live == IF current = 0 THEN EmptyGeneration ELSE gens[current]

(* build, up to write_generation, given what the caches hold, the domains  *)
(* that decide, whether the store can be read, and whether a service       *)
(* counts as not reached; without the store and without rows to carry over *)
(* the generation has no ip_attribution.parquet.                           *)
BuiltFrom(answer, best, ok, unreached) ==
    LET fresh == [a \in Addr |-> WithRoster(a, AttributeIp(a, answer[a], best[a]))]
    IN  [whole |-> TRUE, orgs |-> orgs, prefixes |-> [a \in Addr |-> Known(a)],
         rows |-> IF ~ok THEN Live.rows
                  ELSE IF unreached /\ Live.rows # NoRows
                       THEN [a \in Addr |-> KeepStronger(fresh[a], Live.rows[a])]
                       ELSE fresh,
         carried |-> ~ok, outage |-> unreached,
         claims |-> [a \in Addr |-> Claims(a, best[a])]]

(* cymru_candidates *)
Candidates == Addr \ Residential

(* JsonCache: what the caches hold, or nothing when their files are gone *)
Held(lost) == IF lost THEN [a \in Addr |-> NoAsn] ELSE cache

(* fill_cymru, fill_rdap: what was never answered must be asked, what has  *)
(* expired is; nobody is asked about hosts that cannot be read.            *)
MayAsk(asked, held, ok) ==
    IF ok THEN {a \in Candidates : held[a] = NoAsn} \subseteq asked ELSE asked = {}

(* ... without an answer the old one serves *)
Filled(held, asked, failed) ==
    [a \in Addr |-> IF a \in asked \ failed THEN asn["cymru"][a] ELSE held[a]]

(* build: a batch of Cymru that failed counts as a service not reached, a  *)
(* session cut short does not; nor does ARIN unless it failed throughout   *)
CountsAsOutage(failed, unreached) == failed = {} => ~unreached

Build ==
    /\ Goto("registry", "start", "write")
    /\ \E lost, ok, unreached \in BOOLEAN : \E asked \in SUBSET Candidates : \E failed \in SUBSET asked :
       \E best \in [Addr -> [Channel -> Domain \cup {NoDomain}]] :
          /\ MayAsk(asked, Held(lost), ok) /\ CountsAsOutage(failed, unreached) /\ IsHit(best)
          /\ Trouble(When(lost, "cache") \cup When(~ok, "store") \cup When(failed # {}, "api"))
          /\ cache' = Filled(Held(lost), asked, failed)
          /\ built' = BuiltFrom(Filled(Held(lost), asked, failed), best, ok, unreached)
    /\ gens' = Append(gens, EmptyGeneration)
    /\ UNCHANGED <<rosters, outside, current>>

(* The tables, before the pointer *)
FillGeneration ==
    /\ Goto("registry", "write", "point") /\ NoTrouble
    /\ gens' = [gens EXCEPT ![Len(gens)] = built]
    /\ UNCHANGED <<rosters, outside, cache, built, current>>

(* write_generation removes what it could not fill *)
WriteRaises ==
    /\ step = "write" /\ Failed("registry") /\ Trouble({"raise"})
    /\ gens' = SubSeq(gens, 1, Len(gens) - 1) /\ built' = EmptyGeneration
    /\ UNCHANGED <<rosters, outside, cache, current>>

(* The pointer before the tables *)
SwitchPointerEarly ==
    /\ step \in {"write", "point"} /\ Goto("registry", step, "prune") /\ NoTrouble
    /\ current' = Len(gens) /\ UNCHANGED <<rosters, outside, cache, built, gens>>

SwitchPointer ==
    /\ Goto("registry", "point", "prune") /\ NoTrouble /\ current' = Len(gens)
    /\ UNCHANGED <<rosters, outside, cache, built, gens>>

(* The newest directories go, the pointer keeps naming one of them *)
PruneNewest ==
    /\ Done("registry", "prune") /\ NoTrouble /\ built' = EmptyGeneration
    /\ gens' = SubSeq(gens, 1, IF Len(gens) > Keep THEN Keep ELSE Len(gens))
    /\ UNCHANGED <<rosters, outside, cache, current>>

(* The newest Keep directories stay, half-built ones among them *)
Prune ==
    /\ Done("registry", "prune") /\ NoTrouble /\ built' = EmptyGeneration
    /\ LET over == IF Len(gens) > Keep THEN Len(gens) - Keep ELSE 0
       IN  gens' = SubSeq(gens, over + 1, Len(gens)) /\ current' = current - over
    /\ UNCHANGED <<rosters, outside, cache>>

(* A row of the curated files is not valid *)
RegistryRefused ==
    /\ step = "start" /\ Failed("registry") /\ Trouble({"raise"})
    /\ UNCHANGED <<rosters, registry>>

RegistryKilled ==
    /\ Failed("registry") /\ Trouble({"timeout"}) /\ built' = EmptyGeneration
    /\ UNCHANGED <<rosters, outside, cache, gens, current>>

-----------------------------------------------------------------------------
(* registry.py, of a generation as it was loaded *)

(* lookup: the prefix, with the conflict of the built row; else that row *)
Lookup(g, a) ==
    IF g.prefixes[a] # {}
    THEN LET owner == FirstOf(g.prefixes[a])
             disputed == /\ g.rows # NoRows
                         /\ \/ g.rows[a].conflict
                            \/ g.rows[a].method = "prefix" /\ g.rows[a].org # owner
         IN  AttributionRow(owner, "prefix", ConfOf[owner], disputed)
    ELSE g.rows[a]
=============================================================================
