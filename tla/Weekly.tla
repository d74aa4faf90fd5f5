------------------------------- MODULE Weekly -------------------------------
(***************************************************************************)
(* The Sunday job: the four scripts of run_weekly.sh over the world they   *)
(* ask, with the kills and failures each of them meets.                    *)
(***************************************************************************)
EXTENDS ReferenceFeeds, Discovery, OwnerRegistry

vars == <<job, feeds, rosters, discovery, registry>>

TypeOK ==
    JobTypeOK /\ FeedsTypeOK /\ RostersTypeOK /\ DiscoveryTypeOK /\ RegistryTypeOK

Init == JobInit /\ FeedsInit /\ RostersInit /\ DiscoveryInit /\ RegistryInit

(* A week without discovery: what it completed before is no longer fresh *)
Skip(s) ==
    /\ BudgetSpent(s) /\ recent' = IF s = "discover" THEN {} ELSE recent
    /\ UNCHANGED <<feeds, rosters, net, state, todo, results, found, stood, hosts, domains, registry>>

Cron == StartWeek /\ UNCHANGED <<feeds, rosters, discovery, registry>>

FeedStep == /\ RefreshReference \/ FeedsKilled
            /\ UNCHANGED <<rosters, discovery, registry>>

RosterStep == /\ \/ \E c \in Sector : RunSector(c) \/ SectorCrashes(c)
                 \/ SectorsSkipped \/ WriteManifest \/ RostersKilled
              /\ UNCHANGED <<feeds, discovery, registry>>

DiscoveryStep == /\ \/ StartDiscovery \/ JobExpired \/ WriteHosts \/ WriteDomains \/ DiscoveryKilled
                    \/ \E s \in Range(Seeds) : SeedFails(s) \/ SeedDone(s)
                 /\ UNCHANGED <<feeds, rosters, registry>>

RegistryStep == /\ \/ Build \/ FillGeneration \/ WriteRaises \/ SwitchPointer \/ Prune
                   \/ RegistryRefused \/ RegistryKilled
                /\ UNCHANGED <<feeds, discovery>>

JobStep == \/ \E i \in DOMAIN Scripts : Skip(Scripts[i])
           \/ Cron \/ FeedStep \/ RosterStep \/ DiscoveryStep \/ RegistryStep

WorldStep == \/ FeedChanges /\ UNCHANGED <<rosters, discovery, registry>>
             \/ (SourceChanges \/ ManualChanges) /\ UNCHANGED <<feeds, discovery, registry>>
             \/ (CertsChange \/ DnsChanges) /\ UNCHANGED <<feeds, rosters, registry>>
             \/ (OrgChanges \/ RowChanges \/ HostChanges \/ HostRenames) /\ UNCHANGED <<feeds, discovery>>

Next == JobStep \/ WorldStep

(* Cron starts the job every Sunday, and each script runs to its end *)
Spec == Init /\ [][Next]_vars /\ WF_vars(JobStep)

-----------------------------------------------------------------------------
(* Safety *)

(* Good data is never replaced by empty data: an entry leaves ioc_ips.json *)
(* (refresh_iocs) only when the feed that gave it has answered without it, *)
(* and a row leaves a sector's CSV (carry_over) only when its source, in   *)
(* the newest edition or the one before it, or the analyst's file, no      *)
(* longer has the name.  It holds as long as no feed's answer is garbled   *)
(* and no deadline passes just before the gazetteer is asked.              *)
SourcesKept ==
    [][/\ \A p \in iocs \ iocs' : p[1] \notin published[p[2]]
       /\ \A c \in Sector : \A r \in roster[c] \ roster'[c] :
             IF r[2] = Manual THEN r[1] \notin manual[c]
             ELSE r[1] \notin listed[r[2]] \/ r[1] \notin before[r[2]]]_vars

(* discover_domains.py: a cap, a deadline, a failed query or a kill drops  *)
(* no host row; one leaves only if its name was asked in this run and DNS  *)
(* did not have the address.                                               *)
HostRowKept == [][\A r \in hosts \ hosts' : r[1] \in DOMAIN results /\ r \notin stood]_vars

(* write_generation: whatever is killed or fails, CURRENT names a          *)
(* generation with every table that was to be written, and one with        *)
(* ip_attribution.parquet once there has been one; until a build has been  *)
(* able to read the store there is none.                                   *)
CurrentIsWhole ==
    [][current' # 0 => Live'.whole /\ (Live.rows # NoRows => Live'.rows # NoRows)]_vars

(* attribute_ip, keep_stronger_previous and lookup, where the rows are not *)
(* those of the generation before: they name no organisation that is no    *)
(* longer in the registry; where curated rows speak for an owner, a reader *)
(* is told of one of theirs, of a conflict if they speak for several, and  *)
(* of high confidence only if all speak for him; and a conflict of the     *)
(* row is never lost on the way to the reader.                             *)
Truthful(g, a) ==
    LET told == Lookup(g, a)  claims == g.claims[a]
    IN  /\ g.rows[a].org \in g.orgs \cup {NoOrg} \cup Name
        /\ claims # {} => told.org \in claims
        /\ Cardinality(claims) > 1 => told.conflict
        /\ told.conf = 3 => claims = {told.org}

AttributionSound ==
    Live.rows # NoRows =>
        \A a \in Addr : /\ Live.rows[a].conflict => Lookup(Live, a).conflict
                        /\ ~Live.carried => Truthful(Live, a)

(* A network outage does not downgrade what the last build knew from the   *)
(* network where this one has no more than a number, as long as the        *)
(* organisation is still in the registry (a roster may name another owner, *)
(* and a registrant whom the registry does not know stands for itself).    *)
KnownOwnerKept ==
    [][Live'.outage /\ ~Live'.carried /\ Live.rows # NoRows =>
          \A a \in Addr :
             LET prev == Live.rows[a]  row == Live'.rows[a]
             IN  prev.method = "network" /\ prev.org \in Live'.orgs /\ row.method \in NetworkFallback
                 => row.conf >= prev.conf]_vars

-----------------------------------------------------------------------------
(* What makes these hold: a CSV has rows of its sector's sources only;     *)
(* what a name was answered with is what DNS held then; while a generation *)
(* is written, the directory it goes to is the newest and not the one      *)
(* CURRENT names, and what is written is sound beside what readers have.   *)
RosterInv == \A c \in Sector : \A r \in roster[c] : r[2] = Manual \/ SectorOf[r[2]] = c

StoodInv == \A n \in DOMAIN results : results[n] = {a \in Address : <<n, a>> \in stood}

Sound(g) ==
    g.rows # NoRows =>
        \A a \in Addr : /\ g.rows[a].method \in NetworkMethods => g.rows[a].conf <= 2
                        /\ ~g.carried => Truthful(g, a)

Keeps(g, old) ==
    /\ old.rows # NoRows => g.rows # NoRows
    /\ g.outage /\ ~g.carried /\ old.rows # NoRows =>
          \A a \in Addr :
             LET prev == old.rows[a]  row == g.rows[a]
             IN  prev.method = "network" /\ prev.org \in g.orgs /\ row.method \in NetworkFallback
                 => row.conf >= prev.conf

Writing == script = "registry" /\ step \in {"write", "point"}

GenerationInv ==
    /\ current # 0 => Live.whole
    /\ Sound(Live)
    /\ Writing => current < Len(gens) /\ built.whole /\ Sound(built) /\ Keeps(built, Live)
    /\ Writing /\ step = "point" => gens[Len(gens)] = built
    /\ At("registry", "prune") => current = Len(gens) /\ current # 0

IInv == TypeOK /\ RosterInv /\ GenerationInv

-----------------------------------------------------------------------------
(* Liveness *)

(* When the world and the accidents have settled, the weekly runs bring    *)
(* the IOC lists to what the feeds list, and the rosters to what their     *)
(* sources list, as far as these list anything (the rows of a source that  *)
(* lists nothing stay, and the whole roster if none does); every address   *)
(* whose prefix has an owner gets that owner; and, capped as they are,     *)
(* they sweep the seeds crt.sh answers for, so that every host name within *)
(* the cap on names gets its addresses, provided that the seeds it never   *)
(* answers for, which come first in every run, leave room for another.     *)
EventuallyCurrent ==
    <>[](/\ \A f \in Feed, e \in Entry : e \in published[f] <=> <<e, f>> \in iocs
         /\ \A c \in Sector : (\E s \in SourcesOf(c) : listed[s] # {}) =>
               /\ \A n \in Name : n \in manual[c] <=> <<n, Manual>> \in roster[c]
               /\ \A n \in Name, s \in SourcesOf(c) :
                     listed[s] # {} => (n \in listed[s] <=> <<n, s>> \in roster[c])
         /\ epss = "whole"
         /\ \A a \in Addr : Live.prefixes[a] = owned[a] \cap orgs
         /\ Cardinality(DeadSeed) < MaxSeeds =>
               \A s \in Range(Seeds) \ DeadSeed : \A n \in Capped(NamesUnder(s)) :
                  /\ n \in domains
                  /\ \A a \in Address : <<n, a>> \in dns <=> <<n, a>> \in hosts)
=============================================================================
