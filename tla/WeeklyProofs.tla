---------------------------- MODULE WeeklyProofs ----------------------------
(***************************************************************************)
(* What the weekly job promises, for any feeds, sources, seeds, hosts,     *)
(* addresses and organisations, any number of generations kept, and any    *)
(* number of kills, failures and changes of the world.                     *)
(***************************************************************************)
EXTENDS Weekly, SequenceTheorems, FiniteSetTheorems, WellFoundedInduction, TLAPS

(* The trouble of a step is of finitely many kinds, so what is left of it  *)
(* stays a number.                                                         *)
LEMMA TroubleLeft ==
  ASSUME left \in Nat, NEW kinds, Trouble(kinds)
  PROVE  left' \in Nat
  <1>1. IsFiniteSet(MishapKind)
    <2>1. MishapKind = {"timeout"} \cup {"skip"} \cup {"api"} \cup {"edition"} \cup {"raise"} \cup {"slow"}
                         \cup {"garbled"} \cup {"gazetteer"} \cup {"resolver"} \cup {"store"} \cup {"cache"}
      BY DEF MishapKind
    <2>2. QED
      BY <2>1, FS_Singleton, FS_Union
  <1>2. IsFiniteSet(kinds)
    BY <1>1, FS_Subset, WeeklyAssumption DEF Trouble
  <1>3. QED
    BY <1>2, FS_CardinalityType DEF Trouble

LEMMA NextScripts ==
  /\ NextScript("feeds") = "rosters" /\ NextScript("rosters") = "discover"
  /\ NextScript("discover") = "registry" /\ NextScript("registry") = "idle"
  BY DEF NextScript, Scripts

(* The step of a script either stays in it, is its last, or fails it. *)
LEMMA JobTypes ==
  ASSUME JobTypeOK, NEW s \in {"feeds", "rosters", "discover", "registry"}, left' \in Nat,
         \/ \E p, q \in Steps : Goto(s, p, q)
         \/ \E p \in Steps : Done(s, p)
         \/ Failed(s)
  PROVE  JobTypeOK'
  <1>1. {"idle"} \cup {Scripts[i] : i \in DOMAIN Scripts} = {"idle", "feeds", "rosters", "discover", "registry"}
    BY DEF Scripts
  <1>2. NextScript(s) \in {"idle", "feeds", "rosters", "discover", "registry"}
    BY NextScripts
  <1>3. CASE \E p, q \in Steps : Goto(s, p, q)
    BY <1>3 DEF Goto, At, JobTypeOK
  <1>4. CASE \E p \in Steps : Done(s, p)
    BY <1>1, <1>2, <1>4 DEF Done, JobTypeOK, Steps
  <1>5. CASE Failed(s)
    BY <1>1, <1>2, <1>5 DEF Failed, JobTypeOK, Steps
  <1>6. QED
    BY <1>3, <1>4, <1>5

(* A finite set of numbers has a first: one with the fewest below it. *)
LEMMA FirstIsOne ==
  ASSUME NEW S \in SUBSET Nat, IsFiniteSet(S), S # {}
  PROVE  FirstOf(S) \in S
  <1> DEFINE Upto(o) == {p \in S : p <= o}
             T == {Upto(o) : o \in S}
  <1>1. T \subseteq FiniteSubsetsOf(S) /\ T # {}
    <2>1. ASSUME NEW o \in S PROVE Upto(o) \in FiniteSubsetsOf(S)
      <3>1. Upto(o) \in SUBSET S
        OBVIOUS
      <3>2. IsFiniteSet(Upto(o))
        BY <3>1, FS_Subset
      <3>3. QED
        BY <3>1, <3>2 DEF FiniteSubsetsOf
    <2>2. QED
      BY <2>1
  <1>2. PICK U \in T : \A V \in T : ~ (<<V, U>> \in StrictSubsetOrdering(S))
    <2> HIDE DEF T
    <2>1. IsWellFoundedOn(StrictSubsetOrdering(S), FiniteSubsetsOf(S))
      BY FS_StrictSubsetOrderingWellFounded
    <2>2. \E U \in T : \A V \in T : ~ (<<V, U>> \in StrictSubsetOrdering(S))
      BY <1>1, <2>1, WFMin
    <2>3. QED
      BY <2>2
  <1>3. PICK o \in S : U = Upto(o)
    BY <1>2
  <1>4. ASSUME NEW p \in S PROVE o <= p
    <2>1. SUFFICES ASSUME p < o PROVE FALSE
      OBVIOUS
    <2>2. Upto(p) \subseteq U /\ o \in U /\ o \notin Upto(p)
      <3>1. p \in Nat /\ o \in Nat /\ \A q \in S : q \in Nat
        OBVIOUS
      <3>2. \A q \in S : (q \in Upto(p) <=> q <= p) /\ (q \in U <=> q <= o)
        BY <1>3
      <3>3. Upto(p) \subseteq S
        OBVIOUS
      <3> HIDE DEF Upto
      <3>4. QED
        BY <1>4, <2>1, <3>1, <3>2, <3>3
    <2>3. <<Upto(p), U>> \in StrictSubsetOrdering(S)
      <3>1. Upto(p) \in SUBSET S /\ U \in SUBSET S /\ Upto(p) # U
        BY <1>3, <2>2
      <3> HIDE DEF Upto
      <3>2. QED
        BY <2>2, <3>1 DEF StrictSubsetOrdering
    <2>4. QED
      BY <1>2, <2>3
  <1>5. QED
    BY <1>4 DEF FirstOf

-----------------------------------------------------------------------------
(* The job: where it is, and what may still go wrong or change *)

LEMMA JobOfFeeds == JobTypeOK /\ FeedStep => JobTypeOK'
  <1> SUFFICES ASSUME JobTypeOK, FeedStep PROVE JobTypeOK'
    OBVIOUS
  <1>1. left \in Nat /\ "start" \in Steps
    BY DEF JobTypeOK, Steps
  <1>2. CASE RefreshReference
    BY <1>1, <1>2, TroubleLeft, JobTypes DEF RefreshReference
  <1>3. CASE FeedsKilled
    BY <1>1, <1>3, TroubleLeft, JobTypes DEF FeedsKilled
  <1>4. QED
    BY <1>2, <1>3 DEF FeedStep

LEMMA JobOfRosters == JobTypeOK /\ RosterStep => JobTypeOK'
  <1> SUFFICES ASSUME JobTypeOK, RosterStep PROVE JobTypeOK'
    OBVIOUS
  <1>1. left \in Nat /\ "start" \in Steps
    BY DEF JobTypeOK, Steps
  <1>2. ASSUME NEW c \in Sector, RunSector(c) PROVE JobTypeOK'
    BY <1>1, <1>2, TroubleLeft, JobTypes DEF RunSector
  <1>3. ASSUME NEW c \in Sector, SectorCrashes(c) PROVE JobTypeOK'
    BY <1>1, <1>3, TroubleLeft, JobTypes DEF SectorCrashes
  <1>4. CASE SectorsSkipped
    BY <1>1, <1>4, TroubleLeft, JobTypes DEF SectorsSkipped
  <1>5. CASE WriteManifest
    BY <1>1, <1>5, JobTypes DEF WriteManifest, NoTrouble
  <1>6. CASE RostersKilled
    BY <1>1, <1>6, TroubleLeft, JobTypes DEF RostersKilled
  <1>7. QED
    BY <1>2, <1>3, <1>4, <1>5, <1>6 DEF RosterStep

LEMMA JobOfDiscovery == JobTypeOK /\ DiscoveryStep => JobTypeOK'
  <1> SUFFICES ASSUME JobTypeOK, DiscoveryStep PROVE JobTypeOK'
    OBVIOUS
  <1>1. left \in Nat /\ "start" \in Steps /\ "seeds" \in Steps /\ "domains" \in Steps
    BY DEF JobTypeOK, Steps
  <1>2. CASE StartDiscovery \/ WriteHosts \/ WriteDomains
    BY <1>1, <1>2, JobTypes DEF StartDiscovery, WriteHosts, WriteDomains, NoTrouble
  <1>3. CASE JobExpired
    BY <1>1, <1>3, TroubleLeft, JobTypes DEF JobExpired
  <1>4. CASE DiscoveryKilled
    BY <1>1, <1>4, TroubleLeft, JobTypes DEF DiscoveryKilled
  <1>5. ASSUME NEW s \in Range(Seeds), SeedFails(s) PROVE JobTypeOK'
    BY <1>1, <1>5, TroubleLeft, JobTypes DEF SeedFails, OnSeed
  <1>6. ASSUME NEW s \in Range(Seeds), SeedDone(s) PROVE JobTypeOK'
    BY <1>1, <1>6, TroubleLeft, JobTypes DEF SeedDone, OnSeed
  <1>7. QED
    BY <1>2, <1>3, <1>4, <1>5, <1>6 DEF DiscoveryStep

LEMMA JobOfRegistry == JobTypeOK /\ RegistryStep => JobTypeOK'
  <1> SUFFICES ASSUME JobTypeOK, RegistryStep PROVE JobTypeOK'
    OBVIOUS
  <1>1. left \in Nat /\ "start" \in Steps /\ "write" \in Steps /\ "point" \in Steps /\ "prune" \in Steps
    BY DEF JobTypeOK, Steps
  <1>2. CASE FillGeneration \/ SwitchPointer \/ Prune
    BY <1>1, <1>2, JobTypes DEF FillGeneration, SwitchPointer, Prune, NoTrouble
  <1>3. CASE Build
    BY <1>1, <1>3, TroubleLeft, JobTypes DEF Build
  <1>4. CASE WriteRaises
    BY <1>1, <1>4, TroubleLeft, JobTypes DEF WriteRaises
  <1>5. CASE RegistryRefused
    BY <1>1, <1>5, TroubleLeft, JobTypes DEF RegistryRefused
  <1>6. CASE RegistryKilled
    BY <1>1, <1>6, TroubleLeft, JobTypes DEF RegistryKilled
  <1>7. QED
    BY <1>2, <1>3, <1>4, <1>5, <1>6 DEF RegistryStep

LEMMA JobOfCron == JobTypeOK /\ (Cron \/ WorldStep) => JobTypeOK'
  <1> SUFFICES ASSUME JobTypeOK, Cron \/ WorldStep PROVE JobTypeOK'
    OBVIOUS
  <1>1. CASE Cron
    BY <1>1 DEF Cron, StartWeek, NoTrouble, JobTypeOK, Scripts
  <1>2. CASE WorldStep
    <2>1. WorldChanges
      BY <1>2 DEF WorldStep, FeedChanges, SourceChanges, ManualChanges, CertsChange, DnsChanges, OrgChanges,
                  RowChanges, HostChanges, HostRenames
    <2>2. QED
      BY <2>1 DEF WorldChanges, JobTypeOK
  <1>3. QED
    BY <1>1, <1>2

LEMMA JobOfSkip == ASSUME JobTypeOK, NEW i \in DOMAIN Scripts, Skip(Scripts[i]) PROVE JobTypeOK'
  <1>1. Scripts[i] \in {"feeds", "rosters", "discover", "registry"}
    BY DEF Scripts
  <1>2. left' \in Nat
    BY TroubleLeft DEF Skip, BudgetSpent, JobTypeOK
  <1>3. QED
    BY <1>1, <1>2, JobTypes DEF Skip, BudgetSpent

-----------------------------------------------------------------------------
(* The feeds and the rosters *)

LEMMA FeedTypes ==
  ASSUME FeedsTypeOK, RefreshReference \/ FeedsKilled \/ FeedChanges PROVE FeedsTypeOK'
  <1>1. CASE RefreshReference
    BY <1>1 DEF RefreshReference, FeedsTypeOK, MergedEntries, Parsed, Previous
  <1>2. CASE FeedsKilled
    BY <1>2 DEF FeedsKilled, FeedsTypeOK
  <1>3. CASE FeedChanges
    BY <1>3 DEF FeedChanges, FeedsTypeOK
  <1>4. QED
    BY <1>1, <1>2, <1>3

(* What a sector's file becomes is rows of its own sources. *)
LEMMA RunSectorRows ==
  ASSUME RostersTypeOK, RosterInv, NEW c \in Sector, RunSector(c)
  PROVE  /\ roster' \in [Sector -> SUBSET Row] /\ RosterInv'
         /\ entries' \in [Sector -> Verdicts]
  <1>1. PICK answer \in [SourcesOf(c) -> UNION {Answers(s) : s \in Source}] :
          WriteRoster(c, answer) /\ entries' = [entries EXCEPT ![c] = Verdict(c, answer)]
    BY DEF RunSector
  <1> DEFINE rows == IF KeptPrevious(c, answer) THEN roster[c]
                     ELSE Fetched(answer) \cup CarryOver(roster[c], answer) \cup ManualRows(c)
  <1>2. roster' = [roster EXCEPT ![c] = rows]
    BY <1>1 DEF WriteRoster
  <1>3. DOMAIN answer = SourcesOf(c)
    OBVIOUS
  <1>4. rows \in SUBSET Row /\ \A r \in rows : r[2] = Manual \/ SectorOf[r[2]] = c
    <2>1. roster[c] \in SUBSET Row /\ manual[c] \in SUBSET Name
      BY DEF RostersTypeOK
    <2>2. \A r \in Fetched(answer) : r \in Row /\ SectorOf[r[2]] = c
      BY <1>3 DEF Fetched, SourcesOf
    <2>3. CarryOver(roster[c], answer) \subseteq roster[c]
      BY DEF CarryOver
    <2>4. \A r \in ManualRows(c) : r \in Row /\ r[2] = Manual
      BY <2>1 DEF ManualRows, Row
    <2>5. \A r \in roster[c] : r[2] = Manual \/ SectorOf[r[2]] = c
      BY DEF RosterInv
    <2>6. QED
      BY <2>1, <2>2, <2>3, <2>4, <2>5
  <1> HIDE DEF rows
  <1>5. Verdict(c, answer) \in Verdicts
    BY DEF Verdict, Verdicts
  <1>6. QED
    BY <1>1, <1>2, <1>4, <1>5 DEF RostersTypeOK, RosterInv

LEMMA RosterTypes ==
  ASSUME RostersTypeOK, RosterInv, RosterStep \/ SourceChanges \/ ManualChanges
  PROVE  RostersTypeOK' /\ RosterInv'
  <1>1. ASSUME NEW c \in Sector, RunSector(c) PROVE RostersTypeOK' /\ RosterInv'
    BY <1>1, RunSectorRows DEF RunSector, RostersTypeOK
  <1>2. ASSUME NEW c \in Sector, SectorCrashes(c) PROVE RostersTypeOK' /\ RosterInv'
    <2> DEFINE rows == IF roster[c] = {} THEN ManualRows(c) ELSE roster[c]
    <2>1. rows \in SUBSET Row /\ \A r \in rows : r[2] = Manual \/ SectorOf[r[2]] = c
      BY DEF ManualRows, RostersTypeOK, RosterInv, Row
    <2>2. roster' = [roster EXCEPT ![c] = rows]
      BY <1>2 DEF SectorCrashes
    <2> HIDE DEF rows
    <2>3. QED
      BY <1>2, <2>1, <2>2 DEF SectorCrashes, RostersTypeOK, RosterInv, Verdicts
  <1>3. CASE SectorsSkipped
    BY <1>3 DEF SectorsSkipped, RostersTypeOK, RosterInv
  <1>4. CASE WriteManifest
    BY <1>4 DEF WriteManifest, NoEntries, RostersTypeOK, RosterInv, Verdicts
  <1>5. CASE RostersKilled
    BY <1>5 DEF RostersKilled, NoEntries, RostersTypeOK, RosterInv, Verdicts
  <1>6. CASE SourceChanges
    BY <1>6 DEF SourceChanges, RostersTypeOK, RosterInv
  <1>7. CASE ManualChanges
    BY <1>7 DEF ManualChanges, RostersTypeOK, RosterInv
  <1>8. QED
    BY <1>1, <1>2, <1>3, <1>4, <1>5, <1>6, <1>7 DEF RosterStep

-----------------------------------------------------------------------------
(* Discovery *)

(* Noting a seed as completed gives an order of seeds again. *)
LEMMA CompletedType ==
  ASSUME state \in Seq(Range(Seeds)), NEW s \in Range(Seeds)
  PROVE  CompletedLast(s) \in Seq(Range(Seeds))
  <1> DEFINE T == Range(Seeds)
             i == Position(state, s)
             rest == IF s \in Range(state) THEN RemoveAt(state, i) ELSE state
  <1> HIDE DEF T
  <1>1. state \in Seq(T) /\ s \in T
    BY DEF T
  <1>2. rest \in Seq(T)
    <2>1. CASE s \notin Range(state)
      BY <1>1, <2>1
    <2>2. CASE s \in Range(state)
      <3>1. i \in DOMAIN state /\ DOMAIN state = 1 .. Len(state)
        BY <1>1, <2>2 DEF Position, Range
      <3> HIDE DEF i
      <3>2. SubSeq(state, 1, i - 1) \in Seq(T) /\ SubSeq(state, i + 1, Len(state)) \in Seq(T)
        BY <1>1, <3>1
      <3>3. QED
        BY <2>2, <3>2 DEF RemoveAt
    <2>3. QED
      BY <2>1, <2>2
  <1> HIDE DEF rest
  <1>3. Append(rest, s) \in Seq(T)
    BY <1>1, <1>2
  <1>4. QED
    BY <1>3 DEF CompletedLast, T, rest, i

(* The answers to the names of a seed that is done, beside those of the    *)
(* others, are addresses of host names.                                    *)
LEMMA ResultsTypes ==
  ASSUME DiscoveryTypeOK, NEW s, NEW names \in SUBSET Host, NEW late, NEW broken
  PROVE  LET new == ResultsWith(s, Resolved(names, late, broken))
         IN  DOMAIN new \subseteq Host /\ \A n \in DOMAIN new : new[n] \subseteq Address
  BY DEF DiscoveryTypeOK, ResultsWith, Resolved

(* What a seed that is done was answered *)
LEMMA SeedAnswers ==
  ASSUME NEW s, SeedDone(s)
  PROVE  \E names, late, broken :
            /\ names \subseteq NamesUnder(s) /\ broken \subseteq Capped(names)
            /\ "resolver" \notin Mishaps => broken = {}
            /\ results' = ResultsWith(s, Resolved(Capped(names), late, broken))
            /\ stood' = {r \in stood \cup dns : r \in IF r[1] \in Capped(names) THEN dns ELSE stood}
            /\ found' = found \cup names
  <1>1. PICK names \in SUBSET NamesUnder(s) :
          \E late \in SUBSET Capped(names) : \E broken \in SUBSET (Capped(names) \ late) :
            /\ Trouble(When(names # NamesUnder(s), "api") \cup When(late # {}, "slow")
                       \cup When(broken # {}, "resolver"))
            /\ results' = ResultsWith(s, Resolved(Capped(names), late, broken))
            /\ stood' = {r \in stood \cup dns : r \in IF r[1] \in Capped(names) THEN dns ELSE stood}
            /\ found' = found \cup names
    BY DEF SeedDone
  <1>2. PICK late \in SUBSET Capped(names) : \E broken \in SUBSET (Capped(names) \ late) :
            /\ Trouble(When(names # NamesUnder(s), "api") \cup When(late # {}, "slow")
                       \cup When(broken # {}, "resolver"))
            /\ results' = ResultsWith(s, Resolved(Capped(names), late, broken))
            /\ stood' = {r \in stood \cup dns : r \in IF r[1] \in Capped(names) THEN dns ELSE stood}
            /\ found' = found \cup names
    BY <1>1
  <1>3. PICK broken \in SUBSET (Capped(names) \ late) :
            /\ Trouble(When(names # NamesUnder(s), "api") \cup When(late # {}, "slow")
                       \cup When(broken # {}, "resolver"))
            /\ results' = ResultsWith(s, Resolved(Capped(names), late, broken))
            /\ stood' = {r \in stood \cup dns : r \in IF r[1] \in Capped(names) THEN dns ELSE stood}
            /\ found' = found \cup names
    BY <1>2
  <1>4. "resolver" \notin Mishaps => broken = {}
    BY <1>3 DEF Trouble, When
  <1>5. QED
    BY <1>3, <1>4

LEMMA DiscoveryTypes ==
  ASSUME DiscoveryTypeOK, DiscoveryStep \/ CertsChange \/ DnsChanges
  PROVE  DiscoveryTypeOK'
  <1> USE DEF net, search
  <1>1. CASE StartDiscovery
    <2>1. todo' \subseteq Range(Seeds) /\ recent' = {}
      BY <1>1 DEF StartDiscovery
    <2>2. UNCHANGED <<certs, dns, state, results, found, stood, hosts, domains>>
      BY <1>1 DEF StartDiscovery
    <2>3. QED
      BY <2>1, <2>2 DEF DiscoveryTypeOK
  <1>2. ASSUME NEW s \in Range(Seeds), SeedFails(s) PROVE DiscoveryTypeOK'
    BY <1>2 DEF SeedFails, DiscoveryTypeOK
  <1>3. ASSUME NEW s \in Range(Seeds), SeedDone(s) PROVE DiscoveryTypeOK'
    <2>1. PICK names, late, broken :
            /\ names \subseteq NamesUnder(s)
            /\ results' = ResultsWith(s, Resolved(Capped(names), late, broken))
            /\ stood' = {r \in stood \cup dns : r \in IF r[1] \in Capped(names) THEN dns ELSE stood}
            /\ found' = found \cup names
      BY <1>3, SeedAnswers
    <2>2. names \subseteq Host /\ Capped(names) \subseteq Host
      BY <2>1 DEF DiscoveryTypeOK, NamesUnder, Capped
    <2>3. DOMAIN results' \subseteq Host /\ \A n \in DOMAIN results' : results'[n] \subseteq Address
      BY <2>1, <2>2, ResultsTypes
    <2>4. stood' \subseteq Host \X Address /\ found' \subseteq Host
      BY <2>1, <2>2 DEF DiscoveryTypeOK
    <2>5. /\ UNCHANGED <<certs, dns, hosts, domains>> /\ todo' = todo \ {s}
          /\ state' = CompletedLast(s) /\ recent' = recent \cup {s}
      BY <1>3 DEF SeedDone
    <2>6. state' \in Seq(Range(Seeds))
      BY <2>5, CompletedType DEF DiscoveryTypeOK
    <2>7. QED
      BY <2>3, <2>4, <2>5, <2>6 DEF DiscoveryTypeOK
  <1>4. CASE JobExpired
    BY <1>4 DEF JobExpired, DiscoveryTypeOK
  <1>5. CASE WriteHosts
    BY <1>5 DEF WriteHosts, MergedHosts, DiscoveryTypeOK
  <1>6. CASE WriteDomains
    BY <1>6 DEF WriteDomains, Exited, DiscoveryTypeOK
  <1>7. CASE DiscoveryKilled
    BY <1>7 DEF DiscoveryKilled, Exited, DiscoveryTypeOK
  <1>8. CASE CertsChange
    BY <1>8 DEF CertsChange, DiscoveryTypeOK
  <1>9. CASE DnsChanges
    BY <1>9 DEF DnsChanges, DiscoveryTypeOK
  <1>10. QED
    BY <1>1, <1>2, <1>3, <1>4, <1>5, <1>6, <1>7, <1>8, <1>9 DEF DiscoveryStep

(* Without an error of the resolver a name answered was answered with what *)
(* DNS held of it.                                                         *)
LEMMA StoodStep ==
  ASSUME "resolver" \notin Mishaps, DiscoveryTypeOK, StoodInv, DiscoveryStep
  PROVE  StoodInv'
  <1> USE DEF net, search
  <1>1. CASE StartDiscovery \/ JobExpired \/ WriteHosts
    BY <1>1 DEF StartDiscovery, JobExpired, WriteHosts, StoodInv
  <1>2. ASSUME NEW s \in Range(Seeds), SeedFails(s) PROVE StoodInv'
    BY <1>2 DEF SeedFails, StoodInv
  <1>3. CASE WriteDomains \/ DiscoveryKilled
    BY <1>3 DEF WriteDomains, DiscoveryKilled, Exited, StoodInv
  <1>4. ASSUME NEW s \in Range(Seeds), SeedDone(s) PROVE StoodInv'
    <2>1. PICK names, late, broken :
            /\ names \subseteq NamesUnder(s) /\ broken = {}
            /\ results' = ResultsWith(s, Resolved(Capped(names), late, broken))
            /\ stood' = {r \in stood \cup dns : r \in IF r[1] \in Capped(names) THEN dns ELSE stood}
      BY <1>4, SeedAnswers
    <2>2. broken = {}
      BY <2>1
    <2> DEFINE asked == Capped(names)
               answers == Resolved(asked, late, broken)
    <2>3. \A n \in asked : n \in Host /\ SeedOf[n] = s
      BY <2>1 DEF Capped, NamesUnder, DiscoveryTypeOK
    <2>4. /\ DOMAIN answers = asked \ late
          /\ \A n \in asked \ late : answers[n] = {a \in Address : <<n, a>> \in dns}
      BY <2>2 DEF Resolved
    <2> HIDE DEF asked, answers
    <2>5. /\ DOMAIN results' = (asked \ late) \cup {m \in DOMAIN results : SeedOf[m] # s}
          /\ \A n \in DOMAIN results' : results'[n] = IF n \in asked \ late THEN answers[n] ELSE results[n]
      BY <2>1, <2>4 DEF ResultsWith, asked, answers
    <2>6. \A n, a : <<n, a>> \in stood' <=> IF n \in asked THEN <<n, a>> \in dns ELSE <<n, a>> \in stood
      BY <2>1 DEF asked
    <2> SUFFICES ASSUME NEW n \in DOMAIN results'
                 PROVE  results'[n] = {a \in Address : <<n, a>> \in stood'}
      BY DEF StoodInv
    <2>7. CASE n \in asked \ late
      BY <2>4, <2>5, <2>6, <2>7
    <2>8. CASE n \notin asked \ late
      <3>1. n \in DOMAIN results /\ n \notin asked
        BY <2>3, <2>5, <2>8
      <3>2. results[n] = {a \in Address : <<n, a>> \in stood}
        BY <3>1 DEF StoodInv
      <3>3. QED
        BY <2>5, <2>6, <2>8, <3>1, <3>2
    <2>9. QED
      BY <2>7, <2>8
  <1>5. QED
    BY <1>1, <1>2, <1>3, <1>4 DEF DiscoveryStep

-----------------------------------------------------------------------------
(* The registry: what a build makes of an address *)

LEMMA OneOwner ==
  ASSUME NEW S \in SUBSET Org, ~(Cardinality(S) > 1), NEW o \in S
  PROVE  S = {o}
  <1>1. IsFiniteSet(S)
    BY FS_Subset, RegistryAssumption
  <1>2. Cardinality(S) \in Nat /\ Cardinality(S) <= 1
    BY <1>1, FS_CardinalityType
  <1>3. IsFiniteSet(S \ {o}) /\ Cardinality(S \ {o}) = Cardinality(S) - 1
    BY <1>1, FS_RemoveElement
  <1>4. Cardinality(S \ {o}) = 0
    BY <1>2, <1>3, FS_CardinalityType
  <1>5. S \ {o} = {}
    BY <1>3, <1>4, FS_EmptySet
  <1>6. QED
    BY <1>5

LEMMA FirstOwner ==
  ASSUME NEW S \in SUBSET Org, S # {}
  PROVE  FirstOf(S) \in S /\ FirstOf(S) # NoOrg
  <1>1. IsFiniteSet(S) /\ S \in SUBSET Nat /\ \A o \in S : o # 0
    BY FS_Subset, RegistryAssumption
  <1>2. QED
    BY <1>1, FirstIsOne DEF NoOrg

(* The row that _row makes *)
LEMMA RowMade ==
  ASSUME NEW org \in Org \cup {NoOrg} \cup Name, NEW method \in Method, NEW conf \in 1 .. 3, NEW conflict \in BOOLEAN
  PROVE  LET row == AttributionRow(org, method, conf, conflict)
         IN  /\ row \in Attribution /\ row.org = org /\ row.method = method /\ row.conflict = conflict
             /\ row.conf <= conf /\ (conflict => row.conf <= 2)
  BY DEF AttributionRow, Weaker, Attribution

HitOf(a, hit) == \A c \in Channel : hit[c] \in Hits(Matched(a, c))

(* The rows that count for an address speak for organisations that are     *)
(* still registered: those of its prefix, and those of the domain that     *)
(* decides; where there is neither, for none.                              *)
LEMMA ClaimsOf ==
  ASSUME RegistryTypeOK, NEW a \in Addr, NEW hit, HitOf(a, hit)
  PROVE  /\ Claims(a, hit) \in SUBSET Org /\ Claims(a, hit) \subseteq orgs
         /\ Known(a) \subseteq Claims(a, hit)
         /\ \A c \in Channel : hit[c] # NoDomain => OwnerOf(hit[c]) \in Claims(a, hit)
         /\ Known(a) = {} /\ (\A c \in Channel : hit[c] = NoDomain) => Claims(a, hit) = {}
  <1>1. \A k \in Key : Known(k) \in SUBSET Org /\ Known(k) \subseteq orgs
    BY DEF Known, RegistryTypeOK
  <1>2. \A c \in Channel : \A d \in Matched(a, c) : d \in Domain /\ Known(d) # {}
    BY DEF Matched, RegistryTypeOK
  <1>3. \A c \in Channel : /\ hit[c] \in Matched(a, c) \cup {NoDomain}
                           /\ hit[c] = NoDomain => Matched(a, c) = {}
    <2>1. TAKE c \in Channel
    <2>2. hit[c] \in Hits(Matched(a, c))
      BY DEF HitOf
    <2>3. NoDomain \notin Matched(a, c)
      BY <1>2, RegistryAssumption DEF NoDomain
    <2>4. QED
      BY <2>2, <2>3 DEF Hits
  <1>4. \A c \in Channel : \A d \in Matched(a, c) : OwnerOf(d) \in Known(d) /\ Known(d) \in SUBSET Org /\ Known(d) \subseteq orgs
    BY <1>1, <1>2, FirstOwner DEF OwnerOf, Key
  <1> DEFINE shown == UNION {{OwnerOf(d) : d \in Matched(a, c)} : c \in Channel}
             deciding == {hit[c] : c \in Channel} \ {NoDomain}
             decided == UNION {Known(d) : d \in deciding}
  <1>5. Claims(a, hit) = (Known(a) \cup shown) \cup decided
    BY DEF Claims
  <1>6. shown \in SUBSET Org /\ shown \subseteq orgs
    BY <1>4
  <1>7. decided \in SUBSET Org /\ decided \subseteq orgs
    <2>1. \A d \in deciding : Known(d) \in SUBSET Org /\ Known(d) \subseteq orgs
      BY <1>3, <1>4
    <2>2. QED
      BY <2>1
  <1>8. \A c \in Channel : hit[c] # NoDomain => OwnerOf(hit[c]) \in shown
    BY <1>3
  <1>9. (\A c \in Channel : hit[c] = NoDomain) => shown = {} /\ decided = {}
    BY <1>3
  <1>10. Known(a) \in SUBSET Org /\ Known(a) \subseteq orgs
    BY <1>1 DEF Key
  <1> HIDE DEF shown, decided
  <1>11. QED
    BY <1>5, <1>6, <1>7, <1>8, <1>9, <1>10

(* What a row says of the curated rows that counted for it *)
RowFits(a, hit, row) ==
    /\ row \in Attribution /\ row.org \in orgs \cup {NoOrg} \cup Name
    /\ row.method \in NetworkMethods => row.conf <= 2
    /\ row.conflict => row.conf <= 2
    /\ Claims(a, hit) # {} => /\ row.method \in {"prefix", "names"} /\ row.org \in Claims(a, hit)
                              /\ ~row.conflict => Claims(a, hit) = {row.org}
    /\ Claims(a, hit) = {} => row.conf <= 2
    /\ Known(a) # {} => row.method = "prefix" /\ row.org = FirstOf(Known(a))

(* A row the network could have done more for names nobody. *)
Bare(row) == row.method \in NetworkFallback => row.org = NoOrg /\ row.conf = 1 /\ ~row.conflict

LEMMA AttributeIpFits ==
  ASSUME RegistryTypeOK, NEW a \in Addr, NEW network \in Asn \cup {NoAsn}, NEW hit, HitOf(a, hit)
  PROVE  LET row == AttributeIp(a, network, hit) IN RowFits(a, hit, row) /\ Bare(row)
  <1> DEFINE owners == Known(a)
             claims == Claims(a, hit)
             dispute == Disagree(a, hit)
             named == IF hit["rdns"] # NoDomain THEN hit["rdns"] ELSE hit["cert"]
             number == IF network # NoAsn THEN network ELSE asn["shodan"][a]
             routed == Routed(number)
             row == AttributeIp(a, network, hit)
  <1> USE DEF NetworkMethods, NetworkFallback
  <1>1. /\ owners \in SUBSET Org /\ owners \subseteq orgs
        /\ routed \in SUBSET Org /\ routed \subseteq orgs
    <2>1. number \in Asn \cup {NoAsn}
      BY DEF RegistryTypeOK
    <2> HIDE DEF number
    <2>2. QED
      BY <2>1 DEF Known, Routed, Key, RegistryTypeOK
  <1>2. /\ claims \in SUBSET Org /\ claims \subseteq orgs /\ owners \subseteq claims
        /\ named # NoDomain => OwnerOf(named) \in claims
        /\ owners = {} /\ named = NoDomain => claims = {}
    BY ClaimsOf DEF Channel
  <1>3. dispute \in BOOLEAN /\ (dispute <=> Cardinality(claims) > 1)
    BY DEF Disagree
  <1>4. \A o \in claims : ~dispute => claims = {o}
    BY <1>2, <1>3, OneOwner
  <1>5. /\ ConfOf \in [Org -> 1 .. 3] /\ 1 \in 1 .. 3 /\ NoOrg \in Org \cup {NoOrg} \cup Name /\ FALSE \in BOOLEAN
        /\ {"prefix", "names", "network", "registrant", "origin", "none"} \subseteq Method
    BY RegistryAssumption DEF Method
  <1>6. /\ owners # {} => row = AttributionRow(FirstOf(owners), "prefix", ConfOf[FirstOf(owners)], dispute)
        /\ owners = {} /\ named # NoDomain => row = AttributionRow(OwnerOf(named), "names", ConfOf[OwnerOf(named)], dispute)
        /\ owners = {} /\ named = NoDomain /\ routed # {} =>
              row = AttributionRow(FirstOf(routed), "network", Weaker(ConfOf[FirstOf(routed)], 2), Cardinality(routed) > 1)
        /\ owners = {} /\ named = NoDomain /\ routed = {} =>
              row = AttributionRow(NoOrg, IF number = NoAsn THEN "none"
                                          ELSE IF a \in Tiered THEN "registrant" ELSE "origin", 1, FALSE)
    BY DEF AttributeIp
  <1> HIDE DEF owners, claims, dispute, named, routed, row
  <1>7. CASE owners # {}
    <2> DEFINE first == FirstOf(owners)
    <2>1. first \in owners
      BY <1>1, <1>7, FirstOwner
    <2>2. first \in Org /\ first \in claims /\ first \in orgs /\ ConfOf[first] \in 1 .. 3
      BY <1>1, <1>2, <1>5, <2>1
    <2>3. row = AttributionRow(first, "prefix", ConfOf[first], dispute)
      BY <1>6, <1>7
    <2> HIDE DEF first
    <2>4. /\ row \in Attribution /\ row.org = first /\ row.method = "prefix" /\ row.conflict = dispute
          /\ (row.conflict => row.conf <= 2)
      BY <1>3, <1>5, <2>2, <2>3, RowMade
    <2>5. QED
      BY <1>4, <1>7, <2>2, <2>4 DEF RowFits, Bare, owners, claims, row, first
  <1>8. CASE owners = {} /\ named # NoDomain
    <2> DEFINE first == OwnerOf(named)
    <2>1. first \in Org /\ first \in claims /\ first \in orgs /\ ConfOf[first] \in 1 .. 3
      BY <1>2, <1>5, <1>8
    <2>2. row = AttributionRow(first, "names", ConfOf[first], dispute)
      BY <1>6, <1>8
    <2> HIDE DEF first
    <2>3. /\ row \in Attribution /\ row.org = first /\ row.method = "names" /\ row.conflict = dispute
          /\ (row.conflict => row.conf <= 2)
      BY <1>3, <1>5, <2>1, <2>2, RowMade
    <2>4. QED
      BY <1>4, <1>8, <2>1, <2>3 DEF RowFits, Bare, owners, claims, row
  <1>9. CASE owners = {} /\ named = NoDomain /\ routed # {}
    <2> DEFINE first == FirstOf(routed)
               several == Cardinality(routed) > 1
               conf == Weaker(ConfOf[first], 2)
    <2>1. first \in routed /\ several \in BOOLEAN
      BY <1>1, <1>9, FirstOwner
    <2>2. first \in Org /\ first \in orgs /\ conf \in 1 .. 3 /\ conf <= 2
      BY <1>1, <1>5, <2>1 DEF Weaker
    <2>3. row = AttributionRow(first, "network", conf, several)
      BY <1>6, <1>9
    <2> HIDE DEF first, several, conf
    <2>4. row \in Attribution /\ row.org = first /\ row.method = "network" /\ row.conf <= conf /\ row.conf \in 1 .. 3
      BY <1>5, <2>1, <2>2, <2>3, RowMade DEF Attribution
    <2>5. claims = {} /\ row.conf <= 2
      BY <1>2, <1>9, <2>2, <2>4
    <2>6. QED
      BY <1>9, <2>2, <2>4, <2>5 DEF RowFits, Bare, owners, claims, row
  <1>10. CASE owners = {} /\ named = NoDomain /\ routed = {}
    <2> DEFINE how == IF number = NoAsn THEN "none" ELSE IF a \in Tiered THEN "registrant" ELSE "origin"
    <2>1. how \in {"none", "registrant", "origin"} /\ how \in Method
      BY <1>5
    <2>2. row = AttributionRow(NoOrg, how, 1, FALSE)
      BY <1>6, <1>10
    <2> HIDE DEF how
    <2>3. row \in Attribution /\ row.org = NoOrg /\ row.method = how /\ row.conf = 1 /\ row.conflict = FALSE
      BY <1>5, <2>1, <2>2 DEF AttributionRow, Attribution
    <2>4. claims = {}
      BY <1>2, <1>10
    <2>5. QED
      BY <1>10, <2>1, <2>3, <2>4 DEF RowFits, Bare, owners, claims, row
  <1>11. QED
    BY <1>7, <1>8, <1>9, <1>10 DEF row

LEMMA WithRosterFits ==
  ASSUME RegistryTypeOK, NEW a \in Addr, NEW hit, HitOf(a, hit), NEW row, RowFits(a, hit, row), Bare(row)
  PROVE  RowFits(a, hit, WithRoster(a, row)) /\ Bare(WithRoster(a, row))
  <1>1. CASE ~(row.org = NoOrg /\ OnRoster(calls[a]))
    BY <1>1 DEF WithRoster
  <1>2. CASE row.org = NoOrg /\ OnRoster(calls[a])
    <2> DEFINE caller == calls[a]
               new == AttributionRow(caller, "roster", RosterConf, FALSE)
    <2>1. caller \in Org \cup {NoOrg} \cup Name /\ caller \in {NoOrg} \cup Name
      BY DEF RegistryTypeOK
    <2>2. "roster" \in Method /\ RosterConf \in 1 .. 3 /\ RosterConf <= 2 /\ FALSE \in BOOLEAN
      BY RegistryAssumption DEF Method
    <2>3. WithRoster(a, row) = new
      BY <1>2 DEF WithRoster
    <2> HIDE DEF caller
    <2>4. new \in Attribution /\ new.org = caller /\ new.method = "roster" /\ new.conf = RosterConf /\ new.conflict = FALSE
      BY <2>1, <2>2 DEF AttributionRow, Attribution
    <2> HIDE DEF new
    <2>5. Claims(a, hit) = {} /\ Known(a) = {}
      <3>1. Claims(a, hit) \in SUBSET Org /\ Known(a) \subseteq Claims(a, hit)
        BY ClaimsOf
      <3>2. NoOrg \notin Org
        BY RegistryAssumption DEF NoOrg
      <3>3. Claims(a, hit) # {} => row.org \in Claims(a, hit)
        BY DEF RowFits
      <3>4. QED
        BY <1>2, <3>1, <3>2, <3>3
    <2>6. QED
      BY <2>1, <2>2, <2>3, <2>4, <2>5 DEF RowFits, Bare, NetworkMethods, NetworkFallback
  <1>3. QED
    BY <1>1, <1>2

(* What the last build had is kept only where this one has nothing but a   *)
(* lack of answers, so it never stands in for a curated row.               *)
LEMMA KeepStrongerFits ==
  ASSUME NEW a \in Addr, NEW hit, NEW row, RowFits(a, hit, row), Bare(row), RegistryTypeOK, HitOf(a, hit),
         NEW prev \in Attribution, prev.method \in NetworkMethods => prev.conf <= 2
  PROVE  /\ RowFits(a, hit, KeepStronger(row, prev))
         /\ prev.method = "network" /\ prev.org \in orgs /\ KeepStronger(row, prev).method \in NetworkFallback
               => KeepStronger(row, prev).conf >= prev.conf
  <1> DEFINE stronger == /\ ~row.conflict /\ row.method \in NetworkFallback /\ prev.method \in NetworkMethods
                         /\ row.org \in {NoOrg, prev.org} /\ prev.org \in orgs \cup {NoOrg}
                         /\ prev.conf > row.conf
  <1>1. prev.conf \in 1 .. 3 /\ row.conf \in 1 .. 3
    BY DEF RowFits, Attribution
  <1>2. CASE stronger
    <2>1. KeepStronger(row, prev) = prev
      BY <1>2 DEF KeepStronger
    <2>2. Claims(a, hit) = {} /\ Known(a) = {}
      <3>1. row.method \notin {"prefix", "names"}
        BY <1>2 DEF NetworkFallback
      <3>2. Claims(a, hit) = {}
        BY <3>1 DEF RowFits
      <3>3. QED
        BY <3>2, ClaimsOf
    <2>3. prev.conf <= 2
      BY <1>2
    <2>4. RowFits(a, hit, prev)
      BY <1>2, <2>2, <2>3 DEF RowFits
    <2>5. QED
      BY <1>1, <2>1, <2>4
  <1>3. CASE ~stronger
    <2>1. KeepStronger(row, prev) = row
      BY <1>3 DEF KeepStronger
    <2>2. row.method \in NetworkFallback => row.org = NoOrg /\ row.conf = 1 /\ ~row.conflict
      BY DEF Bare
    <2>3. QED
      BY <1>1, <1>3, <2>1, <2>2 DEF NetworkMethods
  <1>4. QED
    BY <1>2, <1>3

LEMMA LookupFits ==
  ASSUME RegistryTypeOK, NEW a \in Addr, NEW hit, HitOf(a, hit), NEW g, g.rows # NoRows, RowFits(a, hit, g.rows[a]),
         g.prefixes[a] = Known(a), g.claims[a] = Claims(a, hit), g.orgs = orgs
  PROVE  Truthful(g, a)
  <1> DEFINE row == g.rows[a]
             claims == g.claims[a]
             told == Lookup(g, a)
             owners == Known(a)
             owner == FirstOf(owners)
             disputed == /\ g.rows # NoRows
                         /\ (g.rows[a].conflict \/ (g.rows[a].method = "prefix" /\ g.rows[a].org # owner))
  <1>1. /\ row \in Attribution /\ row.org \in orgs \cup {NoOrg} \cup Name
        /\ row.conflict => row.conf <= 2
        /\ claims # {} => row.org \in claims /\ (~row.conflict => claims = {row.org})
        /\ claims = {} => row.conf <= 2
        /\ owners # {} => row.method = "prefix" /\ row.org = owner
    BY DEF RowFits
  <1>2. claims \in SUBSET Org /\ owners \subseteq claims
    BY ClaimsOf
  <1>3. Cardinality(claims) > 1 => claims # {} /\ row.conflict
    <2>1. ASSUME NEW o PROVE ~(Cardinality({o}) > 1)
      <3>1. Cardinality({o}) = 1
        BY FS_Singleton
      <3>2. QED
        BY <3>1
    <2>2. ~(Cardinality({}) > 1)
      BY FS_EmptySet
    <2>3. QED
      BY <1>1, <2>1, <2>2
  <1>4. told.org = row.org /\ told.conflict = row.conflict /\ (told.conf = 3 => ~row.conflict /\ claims # {})
    <2>1. CASE owners # {}
      <3>1. told = AttributionRow(owner, "prefix", ConfOf[owner], disputed)
        BY <2>1 DEF Lookup
      <3>2. disputed = row.conflict /\ row.conflict \in BOOLEAN
        BY <1>1, <2>1 DEF Attribution
      <3> HIDE DEF disputed, told, owner
      <3>3. told.org = owner /\ told.conflict = row.conflict /\ (told.conf = 3 => ~row.conflict)
        <4>1. owner \in Org /\ ConfOf[owner] \in 1 .. 3
          BY <1>2, <2>1, FirstOwner, RegistryAssumption DEF owner
        <4>2. "prefix" \in Method /\ owner \in Org \cup {NoOrg} \cup Name
          BY <4>1 DEF Method
        <4>3. told.org = owner /\ told.conflict = row.conflict /\ (row.conflict => told.conf <= 2)
          BY <3>1, <3>2, <4>1, <4>2, RowMade
        <4>4. QED
          BY <4>3
      <3>4. QED
        BY <1>1, <1>2, <2>1, <3>3 DEF owner
    <2>2. CASE owners = {}
      <3>1. told = row
        BY <2>2 DEF Lookup
      <3>2. QED
        BY <1>1, <3>1 DEF Attribution
    <2>3. QED
      BY <2>1, <2>2
  <1> HIDE DEF row, claims, told
  <1>5. /\ row.org \in g.orgs \cup {NoOrg} \cup Name
        /\ claims # {} => told.org \in claims
        /\ Cardinality(claims) > 1 => told.conflict
        /\ told.conf = 3 => claims = {told.org}
    BY <1>1, <1>3, <1>4
  <1>6. QED
    BY <1>5 DEF Truthful, row, claims, told

(* A build from what readers have and what the caches hold is whole, sound *)
(* and no step back from what readers have.                                *)
LEMMA BuildFits ==
  ASSUME RegistryTypeOK, Live \in Generation, Sound(Live),
         NEW answer \in [Addr -> Asn \cup {NoAsn}], NEW best, IsHit(best),
         NEW ok \in BOOLEAN, NEW unreached \in BOOLEAN
  PROVE  LET g == BuiltFrom(answer, best, ok, unreached)
         IN  g \in Generation /\ g.whole /\ Sound(g) /\ Keeps(g, Live)
  <1> DEFINE g == BuiltFrom(answer, best, ok, unreached)
             old == Live
             fresh == [a \in Addr |-> WithRoster(a, AttributeIp(a, answer[a], best[a]))]
             kept == [a \in Addr |-> KeepStronger(fresh[a], old.rows[a])]
             rows == IF ~ok THEN old.rows ELSE IF unreached /\ old.rows # NoRows THEN kept ELSE fresh
             prefixes == [a \in Addr |-> Known(a)]
             claims == [a \in Addr |-> Claims(a, best[a])]
  <1>1. g = [whole |-> TRUE, orgs |-> orgs, prefixes |-> prefixes, rows |-> rows,
             carried |-> ~ok, outage |-> unreached, claims |-> claims]
    BY DEF BuiltFrom
  <1>2. \A a \in Addr : HitOf(a, best[a])
    BY DEF IsHit, HitOf
  <1>3. \A a \in Addr : RowFits(a, best[a], fresh[a]) /\ Bare(fresh[a])
    <2>1. TAKE a \in Addr
    <2> DEFINE hit == best[a]
               row == AttributeIp(a, answer[a], hit)
    <2>2. HitOf(a, hit) /\ answer[a] \in Asn \cup {NoAsn}
      BY <1>2
    <2> HIDE DEF hit
    <2>3. RowFits(a, hit, row) /\ Bare(row)
      BY <2>2, AttributeIpFits
    <2> HIDE DEF row
    <2>4. RowFits(a, hit, WithRoster(a, row)) /\ Bare(WithRoster(a, row))
      BY <2>2, <2>3, WithRosterFits
    <2>5. QED
      BY <2>4 DEF row, hit
  <1>4. old \in Generation /\ (old.rows # NoRows =>
              /\ old.rows \in [Addr -> Attribution]
              /\ \A a \in Addr : old.rows[a].method \in NetworkMethods => old.rows[a].conf <= 2)
    BY DEF Generation, Sound
  <1>5. prefixes \in [Addr -> SUBSET Org] /\ claims \in [Addr -> SUBSET Org] /\ orgs \in SUBSET Org
    <2>1. \A a \in Addr : Claims(a, best[a]) \in SUBSET Org
      BY <1>2, ClaimsOf
    <2>2. \A a \in Addr : Known(a) \in SUBSET Org
      BY DEF Known, RegistryTypeOK, Key
    <2>3. QED
      BY <2>1, <2>2 DEF RegistryTypeOK
  <1>6. \A a \in Addr : prefixes[a] = Known(a) /\ claims[a] = Claims(a, best[a])
    OBVIOUS
  <1>7. \A a \in Addr : old.rows # NoRows => old.rows[a] \in Attribution /\ (old.rows[a].method \in NetworkMethods => old.rows[a].conf <= 2)
    BY <1>4
  <1>8. \A a \in Addr : old.rows # NoRows =>
           /\ RowFits(a, best[a], kept[a])
           /\ old.rows[a].method = "network" /\ old.rows[a].org \in orgs /\ kept[a].method \in NetworkFallback
                 => kept[a].conf >= old.rows[a].conf
    <2>1. SUFFICES ASSUME NEW a \in Addr, old.rows # NoRows
                   PROVE  /\ RowFits(a, best[a], kept[a])
                          /\ old.rows[a].method = "network" /\ old.rows[a].org \in orgs /\ kept[a].method \in NetworkFallback
                                => kept[a].conf >= old.rows[a].conf
      OBVIOUS
    <2>2. kept[a] = KeepStronger(fresh[a], old.rows[a])
      OBVIOUS
    <2> DEFINE row == fresh[a]
               prev == old.rows[a]
               hit == best[a]
    <2>3. /\ RowFits(a, hit, row) /\ Bare(row) /\ HitOf(a, hit)
          /\ prev \in Attribution /\ (prev.method \in NetworkMethods => prev.conf <= 2)
      BY <1>2, <1>3, <1>7, <2>1
    <2> HIDE DEF row, prev, hit, kept
    <2>4. /\ RowFits(a, hit, KeepStronger(row, prev))
          /\ prev.method = "network" /\ prev.org \in orgs /\ KeepStronger(row, prev).method \in NetworkFallback
                => KeepStronger(row, prev).conf >= prev.conf
      BY <2>3, KeepStrongerFits
    <2>5. QED
      BY <2>2, <2>4 DEF row, prev, hit
  <1>9. ok => rows \in [Addr -> Attribution] /\ \A a \in Addr : RowFits(a, best[a], rows[a])
    <2>1. CASE unreached /\ old.rows # NoRows
      <3>1. \A a \in Addr : RowFits(a, best[a], kept[a])
        BY <1>8, <2>1
      <3>2. kept \in [Addr -> Attribution]
        BY <3>1 DEF RowFits
      <3>3. QED
        BY <2>1, <3>1, <3>2
    <2>2. CASE ~(unreached /\ old.rows # NoRows)
      <3>1. fresh \in [Addr -> Attribution]
        BY <1>3 DEF RowFits
      <3>2. QED
        BY <1>3, <2>2, <3>1
    <2>3. QED
      BY <2>1, <2>2
  <1>10. rows \in [Addr -> Attribution] \cup {NoRows}
    BY <1>4, <1>9 DEF Generation
  <1>11. old.rows # NoRows => rows # NoRows
    <2>1. CASE ok /\ unreached
      <3>1. old.rows # NoRows => rows = kept /\ DOMAIN old.rows = Addr
        BY <1>4, <2>1
      <3>2. DOMAIN kept = Addr
        OBVIOUS
      <3>3. Addr = {} => (old.rows # NoRows => FALSE)
        BY <1>4 DEF NoRows
      <3>4. QED
        BY <3>1, <3>2, <3>3 DEF NoRows
    <2>2. CASE ok /\ ~unreached
      <3>1. rows = fresh /\ DOMAIN fresh = Addr
        BY <2>2
      <3>2. Addr = {} => (old.rows # NoRows => FALSE)
        BY <1>4 DEF NoRows
      <3>3. QED
        BY <3>1, <3>2 DEF NoRows
    <2>3. CASE ~ok
      BY <2>3
    <2>4. QED
      BY <2>1, <2>2, <2>3
  <1>12. old.rows # NoRows /\ ok /\ unreached =>
           \A a \in Addr : /\ old.rows[a].method = "network" /\ old.rows[a].org \in orgs /\ rows[a].method \in NetworkFallback
                              => rows[a].conf >= old.rows[a].conf
    <2>1. old.rows # NoRows /\ ok /\ unreached => rows = kept
      OBVIOUS
    <2> HIDE DEF kept, rows, old
    <2>2. QED
      BY <1>8, <2>1
  <1> HIDE DEF g, old, fresh, kept, rows, prefixes, claims
  <1>13. g \in Generation /\ g.whole
    BY <1>1, <1>5, <1>10 DEF Generation
  <1>14. Keeps(g, old)
    BY <1>1, <1>11, <1>12 DEF Keeps
  <1>15. Sound(g)
    <2>1. SUFFICES ASSUME g.rows # NoRows, NEW a \in Addr
                   PROVE  /\ g.rows[a].method \in NetworkMethods => g.rows[a].conf <= 2
                          /\ ~g.carried => Truthful(g, a)
      BY DEF Sound
    <2>2. g.rows = rows /\ g.orgs = orgs /\ g.prefixes = prefixes /\ g.claims = claims /\ g.carried = ~ok
      BY <1>1
    <2>3. CASE ~ok
      <3>1. rows = old.rows
        BY <2>3 DEF rows
      <3>2. QED
        BY <1>4, <2>1, <2>2, <2>3, <3>1
    <2>4. CASE ok
      <3> DEFINE hit == best[a]
      <3>1. RowFits(a, hit, g.rows[a]) /\ HitOf(a, hit) /\ g.prefixes[a] = Known(a) /\ g.claims[a] = Claims(a, hit)
        BY <1>2, <1>6, <1>9, <2>2, <2>4
      <3> HIDE DEF hit
      <3>2. Truthful(g, a)
        BY <2>1, <2>2, <3>1, LookupFits
      <3>3. g.rows[a].method \in NetworkMethods => g.rows[a].conf <= 2
        BY <3>1 DEF RowFits
      <3>4. QED
        BY <3>2, <3>3
    <2>5. QED
      BY <2>3, <2>4
  <1>16. QED
    BY <1>13, <1>14, <1>15 DEF g, old

LEMMA EmptyIsGeneration == EmptyGeneration \in Generation /\ Sound(EmptyGeneration)
  BY DEF EmptyGeneration, Generation, Sound, NoRows

LEMMA LiveIsGeneration == RegistryTypeOK => Live \in Generation
  <1> SUFFICES ASSUME RegistryTypeOK PROVE Live \in Generation
    OBVIOUS
  <1>1. gens \in Seq(Generation) /\ current \in 0 .. Len(gens)
    BY DEF RegistryTypeOK
  <1> HIDE DEF Generation, EmptyGeneration
  <1>2. QED
    BY <1>1, EmptyIsGeneration DEF Live

-----------------------------------------------------------------------------
(* The registry: what each step leaves published *)

LEMMA BuildStep ==
  ASSUME RegistryTypeOK, GenerationInv, Build
  PROVE  RegistryTypeOK' /\ GenerationInv' /\ Live' = Live
  <1>1. PICK lost \in BOOLEAN, ok \in BOOLEAN, unreached \in BOOLEAN, asked \in SUBSET Candidates :
          \E failed \in SUBSET asked : \E best \in [Addr -> [Channel -> Domain \cup {NoDomain}]] :
             /\ IsHit(best) /\ cache' = Filled(Held(lost), asked, failed)
             /\ built' = BuiltFrom(Filled(Held(lost), asked, failed), best, ok, unreached)
    BY DEF Build
  <1>2. PICK failed \in SUBSET asked, best \in [Addr -> [Channel -> Domain \cup {NoDomain}]] :
             /\ IsHit(best) /\ cache' = Filled(Held(lost), asked, failed)
             /\ built' = BuiltFrom(Filled(Held(lost), asked, failed), best, ok, unreached)
    BY <1>1
  <1>3. PICK answer \in [Addr -> Asn \cup {NoAsn}] : answer = Filled(Held(lost), asked, failed)
    <2>1. Held(lost) \in [Addr -> Asn \cup {NoAsn}]
      BY DEF Held, RegistryTypeOK
    <2>2. \A a \in Addr : asn["cymru"][a] \in Asn \cup {NoAsn}
      BY DEF RegistryTypeOK
    <2>3. Filled(Held(lost), asked, failed) \in [Addr -> Asn \cup {NoAsn}]
      BY <2>1, <2>2 DEF Filled
    <2>4. QED
      BY <2>3
  <1>4. Live \in Generation /\ Sound(Live)
    BY LiveIsGeneration DEF GenerationInv
  <1>5. built' \in Generation /\ built'.whole /\ Sound(built') /\ Keeps(built', Live)
    <2>1. built' = BuiltFrom(answer, best, ok, unreached) /\ IsHit(best)
      BY <1>2, <1>3
    <2>2. QED
      BY <1>4, <2>1, BuildFits
  <1>6. /\ gens \in Seq(Generation) /\ current \in 0 .. Len(gens)
        /\ gens' = Append(gens, EmptyGeneration) /\ current' = current
    BY DEF Build, RegistryTypeOK
  <1>7. gens' \in Seq(Generation) /\ Len(gens') = Len(gens) + 1 /\ \A i \in 1 .. Len(gens) : gens'[i] = gens[i]
    BY <1>6, EmptyIsGeneration, AppendProperties
  <1>8. Live' = Live
    BY <1>6, <1>7 DEF Live
  <1>9. RegistryTypeOK'
    <2>1. cache' \in [Addr -> Asn \cup {NoAsn}]
      BY <1>2, <1>3
    <2>2. UNCHANGED <<orgs, owned, shows, asn, calls>>
      BY DEF Build, outside
    <2>3. QED
      BY <1>5, <1>6, <1>7, <2>1, <2>2 DEF RegistryTypeOK
  <1>10. script' = "registry" /\ step' = "write"
    BY DEF Build, Goto, At
  <1>11. QED
    BY <1>5, <1>6, <1>7, <1>8, <1>9, <1>10 DEF GenerationInv, Writing, At

LEMMA FillStep ==
  ASSUME RegistryTypeOK, GenerationInv, FillGeneration
  PROVE  RegistryTypeOK' /\ GenerationInv' /\ Live' = Live
  <1>1. /\ gens \in Seq(Generation) /\ current \in 0 .. Len(gens) /\ built \in Generation
        /\ gens' = [gens EXCEPT ![Len(gens)] = built]
        /\ UNCHANGED <<rosters, outside, cache, built, current>>
    BY DEF FillGeneration, RegistryTypeOK
  <1>2. Writing /\ current < Len(gens) /\ built.whole /\ Sound(built) /\ Keeps(built, Live)
    BY DEF FillGeneration, Goto, At, GenerationInv, Writing
  <1>3. /\ gens' \in Seq(Generation) /\ Len(gens') = Len(gens)
        /\ gens'[Len(gens)] = built /\ \A i \in 1 .. Len(gens) - 1 : gens'[i] = gens[i]
    BY <1>1, <1>2, ExceptSeq
  <1>4. Live' = Live
    <2>1. current = 0 \/ current \in 1 .. Len(gens) - 1
      BY <1>1, <1>2, LenProperties
    <2>2. current' = current
      BY <1>1
    <2> HIDE DEF EmptyGeneration
    <2>3. QED
      BY <1>3, <2>1, <2>2 DEF Live
  <1>5. script' = "registry" /\ step' = "point"
    BY DEF FillGeneration, Goto, At
  <1>6. RegistryTypeOK'
    BY <1>1, <1>3 DEF RegistryTypeOK, outside
  <1>7. QED
    BY <1>1, <1>2, <1>3, <1>4, <1>5, <1>6 DEF GenerationInv, Writing, At

LEMMA RaiseStep ==
  ASSUME RegistryTypeOK, GenerationInv, WriteRaises
  PROVE  RegistryTypeOK' /\ GenerationInv' /\ Live' = Live
  <1>1. /\ gens \in Seq(Generation) /\ current \in 0 .. Len(gens)
        /\ gens' = SubSeq(gens, 1, Len(gens) - 1) /\ built' = EmptyGeneration
        /\ UNCHANGED <<rosters, outside, cache, current>>
    BY DEF WriteRaises, RegistryTypeOK
  <1>2. current < Len(gens)
    BY DEF WriteRaises, Failed, GenerationInv, Writing
  <1>3. /\ gens' \in Seq(Generation) /\ Len(gens') = Len(gens) - 1
        /\ \A i \in 1 .. Len(gens) - 1 : gens'[i] = gens[i]
    <2>1. Len(gens) \in Nat \ {0}
      BY <1>1, <1>2, LenProperties
    <2>2. Len(gens) - 1 \in Int /\ \A i \in 1 .. Len(gens) - 1 : gens[i] \in Generation
      BY <1>1, <2>1, ElementOfSeq
    <2> DEFINE last == Len(gens) - 1
    <2> HIDE DEF last
    <2>3. /\ SubSeq(gens, 1, last) \in Seq(Generation)
          /\ Len(SubSeq(gens, 1, last)) = IF 1 <= last THEN last - 1 + 1 ELSE 0
          /\ \A i \in 1 .. last - 1 + 1 : SubSeq(gens, 1, last)[i] = gens[1 + i - 1]
      BY <2>2, SubSeqProperties DEF last
    <2>4. last \in Nat /\ gens' = SubSeq(gens, 1, last)
      BY <1>1, <2>1 DEF last
    <2>5. last - 1 + 1 = last /\ \A i \in 1 .. last : 1 + i - 1 = i
      BY <2>4
    <2>6. \A i \in 1 .. last : gens'[i] = gens[i]
      BY <2>3, <2>4, <2>5
    <2>7. gens' \in Seq(Generation) /\ Len(gens') = last
      BY <2>3, <2>4
    <2>8. QED
      BY <2>6, <2>7 DEF last
  <1>4. Live' = Live
    <2>1. current = 0 \/ current \in 1 .. Len(gens) - 1
      BY <1>1, <1>2, LenProperties
    <2>2. current' = current
      BY <1>1
    <2> HIDE DEF EmptyGeneration
    <2>3. QED
      BY <1>3, <2>1, <2>2 DEF Live
  <1>5. step' = "start"
    BY DEF WriteRaises, Failed
  <1>6. RegistryTypeOK'
    BY <1>1, <1>2, <1>3, EmptyIsGeneration DEF RegistryTypeOK, outside
  <1>7. QED
    BY <1>1, <1>4, <1>5, <1>6 DEF GenerationInv, Writing, At

LEMMA PointStep ==
  ASSUME RegistryTypeOK, GenerationInv, SwitchPointer
  PROVE  RegistryTypeOK' /\ GenerationInv' /\ Live' = built /\ Keeps(built, Live)
  <1>1. /\ gens \in Seq(Generation) /\ current \in 0 .. Len(gens) /\ current' = Len(gens)
        /\ UNCHANGED <<rosters, outside, cache, built, gens>>
    BY DEF SwitchPointer, RegistryTypeOK
  <1>2. Writing /\ step = "point"
    BY DEF SwitchPointer, Goto, At, Writing
  <1>3. current < Len(gens) /\ built.whole /\ Sound(built) /\ Keeps(built, Live) /\ gens[Len(gens)] = built
    BY <1>2 DEF GenerationInv
  <1>4. Live' = built
    BY <1>1, <1>3 DEF Live
  <1>5. script' = "registry" /\ step' = "prune"
    BY DEF SwitchPointer, Goto, At
  <1>6. RegistryTypeOK'
    BY <1>1 DEF RegistryTypeOK, outside
  <1>7. QED
    BY <1>1, <1>3, <1>4, <1>5, <1>6 DEF GenerationInv, Writing, At

LEMMA PruneStep ==
  ASSUME RegistryTypeOK, GenerationInv, Prune
  PROVE  RegistryTypeOK' /\ GenerationInv' /\ Live' = Live
  <1> DEFINE over == IF Len(gens) > Keep THEN Len(gens) - Keep ELSE 0
  <1>1. /\ gens \in Seq(Generation) /\ gens' = SubSeq(gens, over + 1, Len(gens))
        /\ current' = current - over /\ built' = EmptyGeneration
        /\ UNCHANGED <<rosters, outside, cache>>
    BY DEF Prune, RegistryTypeOK
  <1>2. current = Len(gens) /\ current # 0
    BY DEF Prune, Done, GenerationInv
  <1>3. over \in 0 .. Len(gens) - 1 /\ Len(gens) \in Nat
    BY <1>1, <1>2, RegistryAssumption
  <1> HIDE DEF over
  <1>4. /\ gens' \in Seq(Generation) /\ Len(gens') = Len(gens) - over
        /\ gens'[Len(gens) - over] = gens[Len(gens)]
    BY <1>1, <1>3, SubSeqProperties
  <1>5. current' = Len(gens') /\ current' # 0 /\ Live' = Live
    BY <1>1, <1>2, <1>3, <1>4 DEF Live
  <1>6. step' = "start"
    BY DEF Prune, Done
  <1>7. RegistryTypeOK'
    BY <1>1, <1>3, <1>4, <1>5, EmptyIsGeneration DEF RegistryTypeOK, outside
  <1>8. QED
    BY <1>1, <1>2, <1>5, <1>6, <1>7 DEF GenerationInv, Writing, At

(* Nothing is published where neither the generations nor the pointer      *)
(* change and no step of a build is taken.                                 *)
LEMMA NothingPublished ==
  ASSUME GenerationInv, UNCHANGED <<gens, current>>,
         \/ step' = "start" \/ script' # "registry"
         \/ UNCHANGED <<script, step, built>>
  PROVE  GenerationInv' /\ Live' = Live
  <1>1. Live' = Live
    BY DEF Live
  <1>2. CASE step' = "start" \/ script' # "registry"
    BY <1>1, <1>2 DEF GenerationInv, Writing, At
  <1>3. CASE UNCHANGED <<script, step, built>>
    BY <1>1, <1>3 DEF GenerationInv, Writing, At
  <1>4. QED
    BY <1>1, <1>2, <1>3

LEMMA RegistryMoves ==
  ASSUME RegistryTypeOK, GenerationInv, RegistryStep
  PROVE  RegistryTypeOK' /\ GenerationInv'
  <1>1. CASE RegistryRefused
    BY <1>1, NothingPublished DEF RegistryRefused, Failed, registry, outside, RegistryTypeOK
  <1>2. CASE RegistryKilled
    BY <1>2, NothingPublished, EmptyIsGeneration DEF RegistryKilled, Failed, outside, RegistryTypeOK
  <1>3. QED
    BY <1>1, <1>2, BuildStep, FillStep, RaiseStep, PointStep, PruneStep DEF RegistryStep

(* An edit of the curated files or of a host changes what a build reads,   *)
(* never what one has published.                                           *)
LEMMA EvidenceTypes ==
  ASSUME RegistryTypeOK, OrgChanges \/ RowChanges \/ HostChanges \/ HostRenames
  PROVE  RegistryTypeOK'
  <1>1. CASE OrgChanges
    BY <1>1 DEF OrgChanges, RegistryTypeOK
  <1>2. CASE RowChanges
    BY <1>2 DEF RowChanges, RegistryTypeOK
  <1>3. CASE HostRenames
    BY <1>3 DEF HostRenames, RegistryTypeOK
  <1>4. CASE HostChanges
    <2>1. shows' \in [Addr -> [Channel -> SUBSET Domain]]
      <3>1. CASE UNCHANGED shows
        BY <3>1 DEF RegistryTypeOK
      <3>2. CASE \E a \in Addr, c \in Channel, d \in Domain :
                   shows' = [shows EXCEPT ![a][c] = (@ \cup {d}) \ (@ \cap {d})]
        BY <3>2 DEF RegistryTypeOK
      <3>3. QED
        BY <1>4, <3>1, <3>2 DEF HostChanges
    <2>2. asn' \in [{"cymru", "shodan"} -> [Addr -> Asn \cup {NoAsn}]]
      <3>1. CASE UNCHANGED asn
        BY <3>1 DEF RegistryTypeOK
      <3>2. CASE \E a \in Addr, n \in Asn : asn' = [asn EXCEPT !["cymru"][a] = n]
        BY <3>2 DEF RegistryTypeOK
      <3>3. QED
        BY <1>4, <3>1, <3>2 DEF HostChanges
    <2>3. QED
      BY <1>4, <2>1, <2>2 DEF HostChanges, RegistryTypeOK
  <1>5. QED
    BY <1>1, <1>2, <1>3, <1>4

(* A step outside the registry either leaves the job where it is or takes  *)
(* it to a script that has not started or is not the registry.             *)
LEMMA Elsewhere ==
  ASSUME \/ \E i \in DOMAIN Scripts : Skip(Scripts[i])
         \/ Cron \/ FeedStep \/ RosterStep \/ DiscoveryStep \/ WorldStep
  PROVE  /\ UNCHANGED <<built, gens, current>>
         /\ step' = "start" \/ script' # "registry" \/ UNCHANGED <<script, step>>
  <1>1. ASSUME NEW i \in DOMAIN Scripts, Skip(Scripts[i])
        PROVE  UNCHANGED <<built, gens, current>> /\ step' = "start"
    BY <1>1 DEF Skip, BudgetSpent, Failed, registry
  <1>2. CASE Cron
    BY <1>2 DEF Cron, StartWeek, Scripts, registry
  <1>3. CASE FeedStep
    BY <1>3 DEF FeedStep, RefreshReference, FeedsKilled, Done, Failed, registry
  <1>4. CASE RosterStep
    <2>1. UNCHANGED <<built, gens, current>>
      BY <1>4 DEF RosterStep, registry
    <2>2. ASSUME NEW c \in Sector, RunSector(c) \/ SectorCrashes(c) PROVE script' = "rosters"
      BY <2>2 DEF RunSector, SectorCrashes, Goto, At
    <2>3. CASE SectorsSkipped
      BY <2>1, <2>3 DEF SectorsSkipped, Goto, At
    <2>4. CASE WriteManifest
      BY <2>1, <2>4 DEF WriteManifest, Done
    <2>5. CASE RostersKilled
      BY <2>1, <2>5 DEF RostersKilled, Failed
    <2>6. QED
      BY <1>4, <2>1, <2>2, <2>3, <2>4, <2>5 DEF RosterStep
  <1>5. CASE DiscoveryStep
    <2>1. UNCHANGED <<built, gens, current>>
      BY <1>5 DEF DiscoveryStep, registry
    <2>2. ASSUME NEW s \in Range(Seeds), SeedFails(s) \/ SeedDone(s) PROVE script' = "discover"
      BY <2>2 DEF SeedFails, SeedDone, OnSeed, Goto, At
    <2>3. CASE StartDiscovery \/ JobExpired \/ WriteHosts
      BY <2>1, <2>3 DEF StartDiscovery, JobExpired, WriteHosts, Goto, At
    <2>4. CASE WriteDomains
      BY <2>1, <2>4 DEF WriteDomains, Done
    <2>5. CASE DiscoveryKilled
      BY <2>1, <2>5 DEF DiscoveryKilled, Failed
    <2>6. QED
      BY <1>5, <2>1, <2>2, <2>3, <2>4, <2>5 DEF DiscoveryStep
  <1>6. CASE WorldStep
    BY <1>6 DEF WorldStep, FeedChanges, SourceChanges, ManualChanges, CertsChange, DnsChanges, OrgChanges,
                RowChanges, HostChanges, HostRenames, WorldChanges, registry
  <1>7. QED
    BY <1>1, <1>2, <1>3, <1>4, <1>5, <1>6

-----------------------------------------------------------------------------
(* The inductive invariant *)

LEMMA TypeInit == Init => TypeOK
  <1> SUFFICES ASSUME Init PROVE TypeOK
    OBVIOUS
  <1>1. JobTypeOK
    BY WeeklyAssumption DEF Init, JobInit, JobTypeOK, Steps
  <1>2. FeedsTypeOK
    BY DEF Init, FeedsInit, FeedsTypeOK
  <1>3. RostersTypeOK
    BY DEF Init, RostersInit, RostersTypeOK, Verdicts
  <1>4. DiscoveryTypeOK
    BY DEF Init, DiscoveryInit, DiscoveryTypeOK
  <1>5. RegistryTypeOK
    <2>1. PICK w \in World : owned = w.owned /\ shows = w.shows /\ asn = [cymru |-> w.cymru, shodan |-> w.shodan]
      BY RegistryAssumption DEF Init, RegistryInit
    <2>2. /\ owned \in [Key -> SUBSET Org] /\ shows \in [Addr -> [Channel -> SUBSET Domain]]
          /\ asn \in [{"cymru", "shodan"} -> [Addr -> Asn \cup {NoAsn}]]
      BY <2>1 DEF World
    <2>3. QED
      BY <2>2, EmptyIsGeneration DEF Init, RegistryInit, RegistryTypeOK
  <1>6. QED
    BY <1>1, <1>2, <1>3, <1>4, <1>5 DEF TypeOK

LEMMA InvInit == Init => IInv
  <1> SUFFICES ASSUME Init PROVE IInv
    OBVIOUS
  <1>1. RosterInv
    BY DEF Init, RostersInit, RosterInv
  <1>2. GenerationInv
    BY EmptyIsGeneration DEF Init, JobInit, RegistryInit, GenerationInv, Live, Writing, At
  <1>3. QED
    BY <1>1, <1>2, TypeInit DEF IInv

LEMMA InvStep == IInv /\ [Next]_vars => IInv'
  <1> SUFFICES ASSUME IInv, [Next]_vars PROVE IInv'
    OBVIOUS
  <1>1. JobTypeOK /\ FeedsTypeOK /\ RostersTypeOK /\ DiscoveryTypeOK /\ RegistryTypeOK /\ RosterInv /\ GenerationInv
    BY DEF IInv, TypeOK
  <1>2. UNCHANGED feeds => FeedsTypeOK'
    BY <1>1 DEF feeds, FeedsTypeOK
  <1>3. UNCHANGED rosters => RostersTypeOK' /\ RosterInv'
    BY <1>1 DEF rosters, RostersTypeOK, RosterInv
  <1>4. UNCHANGED discovery => DiscoveryTypeOK'
    BY <1>1 DEF discovery, net, search, DiscoveryTypeOK
  <1>5. UNCHANGED registry => RegistryTypeOK'
    BY <1>1 DEF registry, outside, RegistryTypeOK
  <1>6. CASE FeedStep
    BY <1>1, <1>3, <1>4, <1>5, <1>6, JobOfFeeds, FeedTypes, Elsewhere, NothingPublished DEF FeedStep, IInv, TypeOK
  <1>7. CASE RosterStep
    BY <1>1, <1>2, <1>4, <1>5, <1>7, JobOfRosters, RosterTypes, Elsewhere, NothingPublished
    DEF RosterStep, IInv, TypeOK
  <1>8. CASE DiscoveryStep
    BY <1>1, <1>2, <1>3, <1>5, <1>8, JobOfDiscovery, DiscoveryTypes, Elsewhere, NothingPublished
    DEF DiscoveryStep, IInv, TypeOK
  <1>9. CASE RegistryStep
    <2>1. UNCHANGED rosters
      BY <1>9 DEF RegistryStep, Build, FillGeneration, WriteRaises, SwitchPointer, Prune, RegistryRefused,
                  RegistryKilled, rosters
    <2>2. QED
      BY <1>1, <1>2, <1>3, <1>4, <1>9, <2>1, JobOfRegistry, RegistryMoves DEF RegistryStep, IInv, TypeOK
  <1>10. ASSUME NEW i \in DOMAIN Scripts, Skip(Scripts[i]) PROVE IInv'
    <2>1. UNCHANGED <<feeds, rosters, registry>>
      BY <1>10 DEF Skip
    <2>2. DiscoveryTypeOK'
      BY <1>1, <1>10 DEF Skip, net, DiscoveryTypeOK
    <2>3. QED
      BY <1>1, <1>2, <1>3, <1>5, <1>10, <2>1, <2>2, JobOfSkip, Elsewhere, NothingPublished DEF IInv, TypeOK
  <1>11. CASE Cron
    BY <1>1, <1>2, <1>3, <1>4, <1>5, <1>11, JobOfCron, Elsewhere, NothingPublished DEF Cron, IInv, TypeOK
  <1>12. CASE WorldStep
    <2>1. JobTypeOK' /\ GenerationInv'
      BY <1>1, <1>12, JobOfCron, Elsewhere, NothingPublished
    <2>2. FeedsTypeOK'
      BY <1>1, <1>2, <1>12, FeedTypes DEF WorldStep
    <2>3. RostersTypeOK' /\ RosterInv'
      <3>1. CASE SourceChanges \/ ManualChanges
        BY <1>1, <3>1, RosterTypes
      <3>2. CASE OrgChanges \/ RowChanges \/ HostChanges \/ HostRenames
        BY <1>3, <3>2 DEF OrgChanges, RowChanges, HostChanges, HostRenames, rosters
      <3>3. QED
        BY <1>3, <1>12, <3>1, <3>2 DEF WorldStep
    <2>4. DiscoveryTypeOK'
      BY <1>1, <1>4, <1>12, DiscoveryTypes DEF WorldStep
    <2>5. RegistryTypeOK'
      BY <1>1, <1>5, <1>12, EvidenceTypes DEF WorldStep
    <2>6. QED
      BY <2>1, <2>2, <2>3, <2>4, <2>5 DEF IInv, TypeOK
  <1>13. CASE UNCHANGED vars
    <2>1. JobTypeOK' /\ UNCHANGED <<script, step, built, gens, current>>
      BY <1>1, <1>13 DEF vars, job, registry, JobTypeOK
    <2>2. QED
      BY <1>1, <1>2, <1>3, <1>4, <1>5, <1>13, <2>1, NothingPublished DEF vars, IInv, TypeOK
  <1>14. QED
    BY <1>6, <1>7, <1>8, <1>9, <1>10, <1>11, <1>12, <1>13 DEF Next, JobStep

LEMMA Invariant == Spec => []IInv
  BY InvInit, InvStep, PTL DEF Spec

-----------------------------------------------------------------------------
(* What readers of the registry may rely on *)

LEMMA LiveSteps ==
  ASSUME IInv, [Next]_vars
  PROVE  Live' = Live \/ Keeps(Live', Live)
  <1>1. RegistryTypeOK /\ GenerationInv
    BY DEF IInv, TypeOK
  <1>2. CASE RegistryStep
    <2>1. CASE Build \/ FillGeneration \/ WriteRaises \/ Prune
      BY <1>1, <2>1, BuildStep, FillStep, RaiseStep, PruneStep
    <2>2. CASE SwitchPointer
      BY <1>1, <2>2, PointStep
    <2>3. CASE RegistryRefused
      BY <1>1, <2>3, NothingPublished DEF RegistryRefused, Failed, registry
    <2>4. CASE RegistryKilled
      BY <1>1, <2>4, NothingPublished DEF RegistryKilled, Failed
    <2>5. QED
      BY <1>2, <2>1, <2>2, <2>3, <2>4 DEF RegistryStep
  <1>3. CASE UNCHANGED vars
    BY <1>1, <1>3, NothingPublished DEF vars, job, registry
  <1>4. QED
    BY <1>1, <1>2, <1>3, Elsewhere, NothingPublished DEF Next, JobStep

LEMMA SoundAttribution == IInv => AttributionSound
  <1> SUFFICES ASSUME IInv, Live.rows # NoRows, NEW a \in Addr
               PROVE  /\ Live.rows[a].conflict => Lookup(Live, a).conflict
                      /\ ~Live.carried => Truthful(Live, a)
    BY DEF AttributionSound
  <1>1. Sound(Live)
    BY DEF IInv, GenerationInv
  <1>2. Live.rows[a].conflict => Lookup(Live, a).conflict
    BY DEF Lookup, AttributionRow
  <1>3. QED
    BY <1>1, <1>2 DEF Sound

LEMMA OwnerStep ==
  ASSUME IInv, [Next]_vars,
         Live'.outage, ~Live'.carried, Live.rows # NoRows, NEW a \in Addr,
         Live.rows[a].method = "network", Live.rows[a].org \in Live'.orgs,
         Live'.rows[a].method \in NetworkFallback
  PROVE  Live'.rows[a].conf >= Live.rows[a].conf
  <1>1. CASE Keeps(Live', Live)
    BY <1>1 DEF Keeps
  <1>2. CASE Live' = Live
    <2>1. Live.rows[a].method # "network" \/ Live.rows[a].method \notin NetworkFallback
      BY DEF NetworkFallback
    <2>2. QED
      BY <1>2, <2>1
  <1>3. QED
    BY <1>1, <1>2, LiveSteps

(* Every variable of the weekly job keeps to the values its script writes. *)
THEOREM Typing == Spec => []TypeOK
  <1>1. IInv => TypeOK
    BY DEF IInv
  <1>2. QED
    BY <1>1, Invariant, PTL

(* write_generation: whatever is killed or fails while it is under way,    *)
(* and however often, the generation CURRENT names is one that was written *)
(* to its end; and once it has had ip_attribution.parquet, which the       *)
(* builds before the first that can read the store do without, it always   *)
(* has one.                                                                *)
THEOREM ReadersSeeAWholeGeneration == Spec => CurrentIsWhole
  <1>1. ASSUME IInv, [Next]_vars
        PROVE  current' # 0 => Live'.whole /\ (Live.rows # NoRows => Live'.rows # NoRows)
    <2>1. GenerationInv'
      BY <1>1, InvStep DEF IInv
    <2>2. current' # 0 => Live'.whole
      BY <2>1 DEF GenerationInv
    <2>3. Live.rows # NoRows => Live'.rows # NoRows
      BY <1>1, LiveSteps DEF Keeps
    <2>4. QED
      BY <2>2, <2>3
  <1>2. ASSUME IInv, [Next]_vars
        PROVE  [current' # 0 => Live'.whole /\ (Live.rows # NoRows => Live'.rows # NoRows)]_vars
    BY <1>1, <1>2
  <1>3. QED
    BY <1>2, Invariant, PTL DEF Spec, CurrentIsWhole

(* attribute_ip, keep_stronger_previous and lookup, where the rows are not *)
(* carried over for want of the store: of an address that curated rows     *)
(* speak for (its prefix, the domains of its names, and where a domain     *)
(* that decides is listed twice, all its rows), readers are told of an     *)
(* owner one of these rows names, of a conflict if they name several, and  *)
(* of high confidence only if all name him.  A conflict of the row is      *)
(* never lost on its way to the reader.                                    *)
THEOREM OwnersAreSound == Spec => []AttributionSound
  BY SoundAttribution, Invariant, PTL

(* keep_stronger_previous: where a build in an outage has no more than a   *)
(* number for an address, readers keep what the network gave before, as    *)
(* long as that organisation is still registered.                          *)
THEOREM OutageKeepsOwners == Spec => KnownOwnerKept
  <1>1. ASSUME IInv, [Next]_vars
        PROVE  [Live'.outage /\ ~Live'.carried /\ Live.rows # NoRows =>
                  \A a \in Addr :
                     LET prev == Live.rows[a]  row == Live'.rows[a]
                     IN  prev.method = "network" /\ prev.org \in Live'.orgs /\ row.method \in NetworkFallback
                         => row.conf >= prev.conf]_vars
    BY <1>1, OwnerStep
  <1>2. QED
    BY <1>1, Invariant, PTL DEF Spec, KnownOwnerKept

-----------------------------------------------------------------------------
(* What the sources' data may rely on *)

LEMMA CompleteAnswer ==
  ASSUME NEW s \in Source, NEW x \in Answers(s), x.complete, "gazetteer" \notin x.trouble
  PROVE  x.names = listed[s] \/ x.names = before[s]
  <1> USE DEF Answer, Whole, Newest, Unreachable, Edition
  <1>1. CASE x \in WaterAnswers(s)
    BY <1>1 DEF WaterAnswers
  <1>2. CASE x \in UrbanAnswers(s)
    BY <1>2 DEF UrbanAnswers
  <1>3. CASE x \in GazetteerAnswers(s)
    BY <1>3 DEF GazetteerAnswers
  <1>4. CASE x \in HealthcareAnswers(s)
    BY <1>4 DEF HealthcareAnswers
  <1>5. CASE x \in EiaAnswers(s)
    BY <1>5 DEF EiaAnswers
  <1>6. CASE x \in BseeAnswers(s)
    BY <1>6 DEF BseeAnswers
  <1>7. QED
    BY <1>1, <1>2, <1>3, <1>4, <1>5, <1>6 DEF Answers

LEMMA SectorKeeps ==
  ASSUME "gazetteer" \notin Mishaps, IInv, NEW c \in Sector, RunSector(c),
         NEW d \in Sector, NEW r \in roster[d] \ roster'[d]
  PROVE  IF r[2] = Manual THEN r[1] \notin manual[d]
         ELSE r[1] \notin listed[r[2]] \/ r[1] \notin before[r[2]]
  <1>1. PICK answer \in [SourcesOf(c) -> UNION {Answers(s) : s \in Source}] :
          /\ \A s \in DOMAIN answer : answer[s] \in Answers(s)
          /\ Trouble(UNION {answer[s].trouble : s \in DOMAIN answer})
          /\ WriteRoster(c, answer)
    BY DEF RunSector
  <1> DEFINE rows == IF KeptPrevious(c, answer) THEN roster[c]
                     ELSE Fetched(answer) \cup CarryOver(roster[c], answer) \cup ManualRows(c)
  <1>2. roster' = [roster EXCEPT ![c] = rows]
    BY <1>1 DEF WriteRoster
  <1>3. roster \in [Sector -> SUBSET Row] /\ RosterInv
    BY DEF IInv, TypeOK, RostersTypeOK
  <1>4. d = c /\ r \in roster[c] /\ r \notin Fetched(answer) /\ r \notin CarryOver(roster[c], answer)
        /\ r \notin ManualRows(c)
    BY <1>2, <1>3
  <1>5. r \in Row /\ r = <<r[1], r[2]>>
    BY <1>3, <1>4 DEF Row
  <1>6. CASE r[2] = Manual
    BY <1>4, <1>5, <1>6 DEF ManualRows
  <1>7. CASE r[2] # Manual
    <2> DEFINE s == r[2]
    <2>1. s \in Source /\ s \in DOMAIN answer
      BY <1>3, <1>4, <1>5, <1>7 DEF RosterInv, Row, SourcesOf
    <2>2. answer[s].complete /\ r[1] \notin answer[s].names
      BY <1>4, <1>5, <2>1 DEF Fetched, CarryOver
    <2>3. answer[s] \in Answers(s) /\ "gazetteer" \notin answer[s].trouble
      BY <1>1, <2>1 DEF Trouble
    <2>4. answer[s].names = listed[s] \/ answer[s].names = before[s]
      BY <2>1, <2>2, <2>3, CompleteAnswer
    <2>5. QED
      BY <1>7, <2>2, <2>4
  <1>8. QED
    BY <1>6, <1>7

LEMMA SourcesStep ==
  ASSUME "gazetteer" \notin Mishaps, "garbled" \notin Mishaps, IInv, [Next]_vars
  PROVE  /\ \A p \in iocs \ iocs' : p[1] \notin published[p[2]]
         /\ \A c \in Sector : \A r \in roster[c] \ roster'[c] :
               IF r[2] = Manual THEN r[1] \notin manual[c]
               ELSE r[1] \notin listed[r[2]] \/ r[1] \notin before[r[2]]
  <1>1. ASSUME NEW p \in iocs \ iocs' PROVE p[1] \notin published[p[2]]
    <2>1. p \in Entry \X Feed /\ p = <<p[1], p[2]>>
      BY <1>1 DEF IInv, TypeOK, FeedsTypeOK
    <2>2. RefreshReference
      BY <1>1 DEF Next, JobStep, WorldStep, Skip, Cron, FeedStep, FeedsKilled, RosterStep, DiscoveryStep, RegistryStep,
                  FeedChanges, feeds, vars, OrgChanges, RowChanges, HostChanges, HostRenames
    <2>3. PICK ok \in SUBSET Feed : iocs' = MergedEntries(ok, {})
      BY <2>2 DEF RefreshReference, Trouble, When
    <2>4. CASE p[2] \in ok
      BY <1>1, <2>1, <2>3, <2>4 DEF MergedEntries, Parsed
    <2>5. CASE p[2] \notin ok
      BY <1>1, <2>1, <2>3, <2>5 DEF MergedEntries, Previous
    <2>6. QED
      BY <2>4, <2>5
  <1>2. ASSUME NEW c \in Sector, NEW r \in roster[c] \ roster'[c]
        PROVE  IF r[2] = Manual THEN r[1] \notin manual[c]
               ELSE r[1] \notin listed[r[2]] \/ r[1] \notin before[r[2]]
    <2>1. ASSUME UNCHANGED roster PROVE FALSE
      BY <1>2, <2>1
    <2>2. CASE RosterStep
      <3>1. CASE \E d \in Sector : RunSector(d)
        BY <1>2, <3>1, SectorKeeps
      <3>2. ASSUME NEW d \in Sector, SectorCrashes(d) PROVE FALSE
        BY <1>2, <3>2 DEF SectorCrashes, IInv, TypeOK, RostersTypeOK
      <3>3. QED
        BY <2>1, <2>2, <3>1, <3>2 DEF RosterStep, SectorsSkipped, WriteManifest, RostersKilled
    <2>3. CASE RegistryStep
      BY <2>1, <2>3 DEF RegistryStep, Build, FillGeneration, WriteRaises, SwitchPointer, Prune, RegistryRefused,
                        RegistryKilled, rosters
    <2>4. CASE WorldStep
      BY <2>1, <2>4 DEF WorldStep, SourceChanges, ManualChanges, OrgChanges, RowChanges, HostChanges, HostRenames, rosters
    <2>5. CASE UNCHANGED vars \/ Cron \/ FeedStep \/ DiscoveryStep
      BY <2>1, <2>5 DEF vars, Cron, FeedStep, DiscoveryStep, rosters
    <2>6. CASE \E i \in DOMAIN Scripts : Skip(Scripts[i])
      BY <2>1, <2>6 DEF Skip, rosters
    <2>7. QED
      BY <2>2, <2>3, <2>4, <2>5, <2>6 DEF Next, JobStep
  <1>3. QED
    BY <1>1, <1>2

LEMMA StoodKept ==
  ASSUME "resolver" \notin Mishaps, IInv, StoodInv, [Next]_vars
  PROVE  StoodInv'
  <1>1. DiscoveryTypeOK
    BY DEF IInv, TypeOK
  <1>2. ASSUME UNCHANGED <<results, stood>> PROVE StoodInv'
    BY <1>2 DEF StoodInv
  <1>3. CASE DiscoveryStep
    BY <1>1, <1>3, StoodStep
  <1>4. CASE UNCHANGED vars \/ Cron \/ FeedStep \/ RosterStep \/ RegistryStep
    BY <1>2, <1>4 DEF vars, Cron, FeedStep, RosterStep, RegistryStep, discovery, search
  <1>5. CASE WorldStep
    BY <1>2, <1>5 DEF WorldStep, CertsChange, DnsChanges, discovery, search
  <1>6. CASE \E i \in DOMAIN Scripts : Skip(Scripts[i])
    BY <1>2, <1>6 DEF Skip
  <1>7. QED
    BY <1>3, <1>4, <1>5, <1>6 DEF Next, JobStep

LEMMA HostRowStep ==
  ASSUME IInv, StoodInv, [Next]_vars, NEW r \in hosts \ hosts'
  PROVE  r[1] \in DOMAIN results /\ r \notin stood
  <1>1. r \in Host \X Address /\ r = <<r[1], r[2]>> /\ hosts' # hosts
    BY DEF IInv, TypeOK, DiscoveryTypeOK
  <1>2. WriteHosts
    <2>1. DiscoveryStep
      BY <1>1 DEF Next, JobStep, WorldStep, Skip, Cron, FeedStep, RosterStep, RegistryStep, CertsChange, DnsChanges,
                  discovery, vars
    <2>2. QED
      BY <1>1, <2>1 DEF DiscoveryStep, StartDiscovery, JobExpired, WriteDomains, DiscoveryKilled, SeedFails, SeedDone
  <1>3. hosts' = MergedHosts
    BY <1>2 DEF WriteHosts
  <1>4. r[1] \in DOMAIN results /\ r[2] \notin results[r[1]]
    BY <1>1, <1>3 DEF MergedHosts
  <1>5. results[r[1]] = {a \in Address : <<r[1], a>> \in stood}
    BY <1>4 DEF StoodInv
  <1>6. QED
    BY <1>1, <1>4, <1>5

(* As long as a feed that answers gives its list, for what else comes with *)
(* a success is taken for it, and the gazetteer is not reached when the    *)
(* time left is spent, which counts as a complete answer, no row of a      *)
(* roster or of the IOC list is lost to a source that did not answer:      *)
(* refresh_iocs, carry_over and run_sector drop what the source no longer  *)
(* lists.                                                                  *)
THEOREM GoodDataKept ==
  ASSUME "gazetteer" \notin Mishaps, "garbled" \notin Mishaps PROVE Spec => SourcesKept
  <1>1. ASSUME IInv, [Next]_vars
        PROVE  [/\ \A p \in iocs \ iocs' : p[1] \notin published[p[2]]
                /\ \A c \in Sector : \A r \in roster[c] \ roster'[c] :
                      IF r[2] = Manual THEN r[1] \notin manual[c]
                      ELSE r[1] \notin listed[r[2]] \/ r[1] \notin before[r[2]]]_vars
    BY <1>1, SourcesStep
  <1>2. QED
    BY <1>1, Invariant, PTL DEF Spec, SourcesKept

(* Unless the resolver returns errors, which resolve_all takes for an      *)
(* answer without addresses, a host row leaves discovered_hosts.csv only   *)
(* when its name was asked in this run and DNS no longer had the address.  *)
THEOREM HostRowsKept ==
  ASSUME "resolver" \notin Mishaps PROVE Spec => HostRowKept
  <1>1. Init => StoodInv
    BY DEF Init, DiscoveryInit, StoodInv
  <1>2. IInv /\ StoodInv /\ [Next]_vars => StoodInv'
    BY StoodKept
  <1>3. ASSUME IInv, StoodInv, [Next]_vars
        PROVE  [\A r \in hosts \ hosts' : r[1] \in DOMAIN results /\ r \notin stood]_vars
    BY <1>3, HostRowStep
  <1>4. QED
    BY <1>1, <1>2, <1>3, Invariant, PTL DEF Spec, HostRowKept
=============================================================================
