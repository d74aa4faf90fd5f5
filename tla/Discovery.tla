----------------------------- MODULE Discovery -----------------------------
(***************************************************************************)
(* discover_domains.py: for each seed that is due ask crt.sh for the names *)
(* under it, resolve them, note the seed in state.json; when the seeds are *)
(* done, merge what was learnt into the two CSVs.                          *)
(*                                                                         *)
(* The cache of crt.sh's answers is left out: an answer from it is one of  *)
(* crt.sh that lacks some names.  A name stands for its registered domain. *)
(* The times in state.json are kept as the order of completion; a seed the *)
(* last run completed is seven days old at the next, a little more or less.*)
(***************************************************************************)
EXTENDS WeeklyState, SequencesExt

CONSTANTS
    Seeds,       \* collect_seeds: the seeds by priority
    DeadSeed,    \* seeds crt.sh answers no query about
    Host,        \* host names, by their order
    SeedOf,      \* the seed a host name is under
    Address,
    MaxSeeds,    \* --max-seeds
    MaxNames     \* --max-names

ASSUME DiscoveryAssumption ==
    /\ Host \subseteq Nat /\ SeedOf \in [Host -> Range(Seeds)] /\ DeadSeed \subseteq Range(Seeds)
    /\ MaxSeeds \in Nat \ {0} /\ MaxNames \in Nat \ {0}

VARIABLES
    certs,      \* the names in certificates
    dns,        \* the addresses the names resolve to
    state,      \* state.json: the seeds completed, the longest ago first
    recent,     \* ... by the last run, or by this one while it runs
    todo,       \* main: seeds still to run
    results,    \* main: the names answered in this run, with their addresses
    found,      \* main: the names found in this run
    stood,      \* what DNS held of those names when they were asked (history)
    hosts,      \* discovered_hosts.csv: pairs of a name and an address
    domains     \* discovered_domains.csv

net       == <<certs, dns>>
search    == <<state, recent, todo, results, found, stood>>
discovery == <<net, search, hosts, domains>>

DiscoveryTypeOK ==
    /\ certs \subseteq Host /\ dns \subseteq Host \X Address
    /\ state \in Seq(Range(Seeds)) /\ recent \subseteq Range(Seeds) /\ todo \subseteq Range(Seeds)
    /\ DOMAIN results \subseteq Host /\ \A n \in DOMAIN results : results[n] \subseteq Address
    /\ found \subseteq Host /\ stood \subseteq Host \X Address
    /\ hosts \subseteq Host \X Address /\ domains \subseteq Host

DiscoveryInit ==
    /\ certs = Host /\ dns = Host \X Address
    /\ state = <<>> /\ recent = {} /\ todo = {} /\ results = <<>> /\ found = {} /\ stood = {}
    /\ hosts = {} /\ domains = {}

CertsChange ==
    /\ WorldChanges /\ \E n \in Host : certs' = (certs \cup {n}) \ (certs \cap {n})
    /\ UNCHANGED <<dns, search, hosts, domains>>

DnsChanges ==
    /\ WorldChanges /\ \E r \in Host \X Address : dns' = (dns \cup {r}) \ (dns \cap {r})
    /\ UNCHANGED <<certs, search, hosts, domains>>

-----------------------------------------------------------------------------
Position(list, s) == CHOOSE i \in DOMAIN list : list[i] = s

(* By priority alone *)
SoonerByPriority(s, t) == Position(Seeds, s) < Position(Seeds, t)

(* order_seeds: the seeds never completed, by priority, then the others    *)
(* from the stalest on                                                     *)
Sooner(s, t) ==
    IF s \in Range(state) THEN t \in Range(state) /\ Position(state, s) < Position(state, t)
    ELSE t \in Range(state) \/ Position(Seeds, s) < Position(Seeds, t)

(* The k completed last *)
Fresh(k) == {state[i] : i \in Len(state) - k + 1 .. Len(state)}

(* The first --max-seeds of the seeds that are not fresh *)
StartDiscovery ==
    /\ Goto("discover", "start", "seeds") /\ NoTrouble
    /\ \E k \in 0 .. Len(state) :
          /\ Fresh(k) \subseteq recent
          /\ LET due == Range(Seeds) \ Fresh(k)
             IN  todo' = {s \in due : Cardinality({t \in due : Sooner(t, s)}) < MaxSeeds}
    /\ recent' = {} /\ UNCHANGED <<net, state, results, found, stood, hosts, domains>>

OnSeed(s) ==
    Goto("discover", "seeds", "seeds") /\ s \in todo /\ \A t \in todo \ {s} : Sooner(s, t)

(* crtsh_query fails in each mode *)
SeedFails(s) ==
    /\ OnSeed(s) /\ todo' = todo \ {s} /\ Trouble(When(s \notin DeadSeed, "api"))
    /\ UNCHANGED <<net, state, recent, results, found, stood, hosts, domains>>

NamesUnder(s) == {n \in certs : SeedOf[n] = s}

(* The first --max-names of the names *)
Capped(names) == {n \in names : Cardinality({m \in names : m < n}) < MaxNames}

(* A name without an answer taken for one without an address *)
PendingAsGone(names, late, broken) ==
    [n \in names |-> IF n \in broken \cup late THEN {} ELSE {a \in Address : <<n, a>> \in dns}]

(* resolve_names, of the names all but the late ones: resolve_one returns  *)
(* no address when the resolver reports an error                           *)
Resolved(names, late, broken) ==
    [n \in names \ late |-> IF n \in broken THEN {} ELSE {a \in Address : <<n, a>> \in dns}]

(* The answers of this seed in the place of those it had in this run *)
ResultsWith(s, answers) ==
    [n \in DOMAIN answers \cup {m \in DOMAIN results : SeedOf[m] # s} |->
        IF n \in DOMAIN answers THEN answers[n] ELSE results[n]]

(* A seed completed is the last in the order of completion *)
CompletedLast(s) ==
    Append(IF s \in Range(state) THEN RemoveAt(state, Position(state, s)) ELSE state, s)

(* main's loop: crt.sh answers, perhaps a smaller query only; state.json   *)
(* is saved before the CSVs are                                            *)
SeedDone(s) ==
    /\ OnSeed(s) /\ s \notin DeadSeed /\ todo' = todo \ {s}
    /\ \E names \in SUBSET NamesUnder(s) : \E late \in SUBSET Capped(names) :
       \E broken \in SUBSET (Capped(names) \ late) :
          /\ Trouble(When(names # NamesUnder(s), "api") \cup When(late # {}, "slow")
                     \cup When(broken # {}, "resolver"))
          /\ results' = ResultsWith(s, Resolved(Capped(names), late, broken))
          /\ stood' = {r \in stood \cup dns : r \in IF r[1] \in Capped(names) THEN dns ELSE stood}
          /\ found' = found \cup names
    /\ state' = CompletedLast(s) /\ recent' = recent \cup {s}
    /\ UNCHANGED <<net, hosts, domains>>

JobExpired ==
    /\ Goto("discover", "seeds", "seeds") /\ todo # {} /\ todo' = {} /\ Trouble({"slow"})
    /\ UNCHANGED <<net, state, recent, results, found, stood, hosts, domains>>

(* merge_hosts: a name answered has the rows it was answered with *)
MergedHosts ==
    {r \in Host \X Address : IF r[1] \in DOMAIN results THEN r[2] \in results[r[1]] ELSE r \in hosts}

WriteHosts ==
    /\ Goto("discover", "seeds", "domains") /\ todo = {} /\ NoTrouble /\ hosts' = MergedHosts
    /\ UNCHANGED <<net, search, domains>>

(* What only the process knows is gone *)
Exited == todo' = {} /\ results' = <<>> /\ found' = {} /\ stood' = {}

(* merge_domains drops nothing *)
WriteDomains ==
    /\ Done("discover", "domains") /\ NoTrouble /\ domains' = domains \cup found
    /\ Exited /\ UNCHANGED <<net, state, recent, hosts>>

DiscoveryKilled ==
    /\ step # "start" /\ Failed("discover") /\ Trouble({"timeout"})
    /\ Exited /\ UNCHANGED <<net, state, recent, hosts, domains>>
=============================================================================
