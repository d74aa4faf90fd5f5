------------------------------ MODULE Rosters ------------------------------
(***************************************************************************)
(* refresh_rosters.py: for each sector fetch its sources, carry over the   *)
(* rows of a source that failed, add the analyst's rows, replace the       *)
(* sector's CSV; at the end replace manifest.json.                         *)
(*                                                                         *)
(* A row is a name and the source that lists it.  A fetch answered by the  *)
(* download cache is an answer of the source; the dates of the rows, the   *)
(* parsing and dedupe (the sources of a sector have subsectors of their    *)
(* own, so no two give the same row) are left out.                         *)
(***************************************************************************)
EXTENDS WeeklyState

CONSTANTS
    Sector,
    Name,
    Source,      \* the sources, each with the sector it is for and its kind
    Manual,      \* the source of the analyst's rows
    SectorOf,    \* Source -> Sector
    KindOf       \* Source -> FetcherKind, how it is fetched

FetcherKind == {"water", "healthcare", "urban", "eia", "bsee", "gazetteer"}

ASSUME RosterAssumption ==
    /\ Manual \notin Source
    /\ SectorOf \in [Source -> Sector] /\ KindOf \in [Source -> FetcherKind]

VARIABLES
    listed,      \* the names a source lists, in its newest edition
    before,      \* ... and in the edition before
    manual,      \* reference/rosters/manual/<sector>.csv: the analyst's names
    roster,      \* <sector>.csv
    manifest,    \* manifest.json: whether it calls a sector complete
    sectors,     \* main: the sectors still to do
    entries      \* main: the entries for the manifest

rosters == <<listed, before, manual, roster, manifest, sectors, entries>>

Row == Name \X (Source \cup {Manual})

Verdicts == {"none", "complete", "partial"}

RostersTypeOK ==
    /\ listed \in [Source -> SUBSET Name] /\ before \in [Source -> SUBSET Name]
    /\ manual \in [Sector -> SUBSET Name] /\ roster \in [Sector -> SUBSET Row]
    /\ manifest \in [Sector -> Verdicts] /\ entries \in [Sector -> Verdicts]
    /\ sectors \subseteq Sector

RostersInit ==
    /\ listed = [s \in Source |-> Name] /\ before = listed /\ manual = [c \in Sector |-> {}]
    /\ roster = [c \in Sector |-> {}] /\ manifest = [c \in Sector |-> "none"]
    /\ sectors = Sector /\ entries = manifest

(* A source publishes an edition with one name more or one name less *)
SourceChanges ==
    /\ WorldChanges
    /\ \E s \in Source, n \in Name :
          /\ listed' = [listed EXCEPT ![s] = (@ \cup {n}) \ (@ \cap {n})]
          /\ before' = [before EXCEPT ![s] = listed[s]]
    /\ UNCHANGED <<manual, roster, manifest, sectors, entries>>

(* The analyst edits reference/rosters/manual/<sector>.csv *)
ManualChanges ==
    /\ WorldChanges
    /\ \E c \in Sector, n \in Name :
          manual' = [manual EXCEPT ![c] = (@ \cup {n}) \ (@ \cap {n})]
    /\ UNCHANGED <<listed, before, roster, manifest, sectors, entries>>

-----------------------------------------------------------------------------
(* What a source can answer: the names, whether the answer is called       *)
(* complete, and the trouble it took.                                      *)

Answer(names, complete, trouble) == [names |-> names, complete |-> complete, trouble |-> trouble]

(* An answer without a row is not called complete, but for healthcare *)
Whole(s) == Answer(listed[s], listed[s] # {} \/ KindOf[s] = "healthcare", {})

Unreachable == Answer({}, FALSE, {"api"})

Edition(s) == IF before[s] = {} THEN {} ELSE {Answer(before[s], TRUE, {"edition"})}

(* Without a row in the newest edition the one before it is taken *)
Newest(s) == IF listed[s] # {} THEN Whole(s) ELSE Answer(before[s], before[s] # {}, {})

(* fetch_water: without the geographic areas the systems are all there,    *)
(* but the answer is not called complete                                   *)
WaterAnswers(s) == {Whole(s), Unreachable, Answer(listed[s], FALSE, {"api"})}

(* fetch_healthcare: what the pages gave until one failed, the requests or *)
(* the time were spent, or a partition was over the ceiling                *)
HealthcareAnswers(s) ==
    {Whole(s)} \cup {Answer(names, FALSE, {"api"}) : names \in SUBSET listed[s]}

(* _fetch_urban: the newest year of which any page comes *)
UrbanAnswers(s) ==
    {Newest(s)} \cup {Answer(names, FALSE, {"api"}) : names \in SUBSET listed[s]} \cup Edition(s)

(* fetch_eia860: the newest year whose archive can be read *)
EiaAnswers(s) == {Whole(s), Unreachable} \cup Edition(s)

(* fetch_bsee *)
BseeAnswers(s) == {Whole(s), Unreachable}

(* fetch_government: a deadline that passes between two years leaves the   *)
(* loop without a report, which run_sector takes for nothing missing       *)
GazetteerAnswers(s) ==
    {Newest(s), Unreachable} \cup Edition(s) \cup {Answer({}, TRUE, {"gazetteer"})}

Answers(s) ==
    CASE KindOf[s] = "water"      -> WaterAnswers(s)
      [] KindOf[s] = "healthcare" -> HealthcareAnswers(s)
      [] KindOf[s] = "urban"      -> UrbanAnswers(s)
      [] KindOf[s] = "eia"        -> EiaAnswers(s)
      [] KindOf[s] = "bsee"       -> BseeAnswers(s)
      [] OTHER                    -> GazetteerAnswers(s)

SourcesOf(c) == {s \in Source : SectorOf[s] = c}

Fetched(answer) == {r \in Row : r[2] \in DOMAIN answer /\ r[1] \in answer[r[2]].names}

(* No rows for a source that gave nothing *)
CarryOverPartial(prev, answer) ==
    {r \in prev : r[2] \in DOMAIN answer /\ ~answer[r[2]].complete /\ answer[r[2]].names # {}}

(* carry_over: the previous rows of the sources that are not complete *)
CarryOver(prev, answer) ==
    {r \in prev : r[2] \in DOMAIN answer /\ ~answer[r[2]].complete}

ManualRows(c) == manual[c] \X {Manual}

-----------------------------------------------------------------------------
(* run_sector, given the answers of the sector's sources *)

KeptPrevious(c, answer) == Fetched(answer) = {} /\ roster[c] # {}

WriteRoster(c, answer) ==
    roster' = [roster EXCEPT ![c] =
        IF KeptPrevious(c, answer) THEN @
        ELSE Fetched(answer) \cup CarryOver(@, answer) \cup ManualRows(c)]

Verdict(c, answer) ==
    IF ~KeptPrevious(c, answer) /\ \A s \in DOMAIN answer : answer[s].complete
    THEN "complete" ELSE "partial"

RunSector(c) ==
    /\ Goto("rosters", "start", "start") /\ c \in sectors /\ sectors' = sectors \ {c}
    /\ \E answer \in [SourcesOf(c) -> UNION {Answers(s) : s \in Source}] :
          /\ \A s \in DOMAIN answer : answer[s] \in Answers(s)
          /\ Trouble(UNION {answer[s].trouble : s \in DOMAIN answer})
          /\ WriteRoster(c, answer)
          /\ entries' = [entries EXCEPT ![c] = Verdict(c, answer)]
    /\ UNCHANGED <<listed, before, manual, manifest>>

(* The fetch raises: no row, one report, with an empty prefix *)
SectorCrashes(c) ==
    /\ Goto("rosters", "start", "start") /\ c \in sectors /\ sectors' = sectors \ {c} /\ Trouble({"raise"})
    /\ roster' = [roster EXCEPT ![c] = IF @ = {} THEN ManualRows(c) ELSE @]
    /\ entries' = [entries EXCEPT ![c] = "partial"]
    /\ UNCHANGED <<listed, before, manual, manifest>>

(* The job's deadline has passed: the other sectors are left as they are *)
SectorsSkipped ==
    /\ Goto("rosters", "start", "start") /\ sectors # {} /\ sectors' = {} /\ Trouble({"slow"})
    /\ UNCHANGED <<listed, before, manual, roster, manifest, entries>>

NoEntries == entries' = [c \in Sector |-> "none"] /\ sectors' = Sector

(* write_manifest: merge this run's entries *)
WriteManifest ==
    /\ Done("rosters", "start") /\ sectors = {} /\ NoEntries
    /\ manifest' = [c \in Sector |-> IF entries[c] = "none" THEN manifest[c] ELSE entries[c]]
    /\ NoTrouble /\ UNCHANGED <<listed, before, manual, roster>>

RostersKilled ==
    /\ Failed("rosters") /\ Trouble({"timeout"}) /\ NoEntries
    /\ UNCHANGED <<listed, before, manual, roster, manifest>>
=============================================================================
