------------------------------ MODULE FeedState ------------------------------
(***************************************************************************)
(* The files below store/ that build_store.py and ingest_shadowserver.py   *)
(* write: the partitions of a day, exposure.duckdb, and what is kept of    *)
(* the Shadowserver reports.  The two share the database: the projection   *)
(* defines views in it, the ingest a table.                                *)
(***************************************************************************)
EXTENDS Naturals, FiniteSets

CONSTANTS
    Day,         \* days, in the order of their names
    Version,     \* what an archive of a day may hold
    WithCves,    \* the versions with a CVE in them
    ReportFile,  \* Shadowserver reports, by content and type
    Event,
    EventsOf,    \* the good rows of a report
    Ingester,    \* processes that may run the ingest
    Nightly,     \* the one of them the nightly run starts
    None, Torn, Rotten, NoOne,
    MaxMishaps,  \* kills (a bound)
    MaxChanges   \* archives, reports and runs by hand (a bound)

ASSUME FeedAssumption ==
    /\ Day \subseteq Nat /\ IsFiniteSet(Day) /\ WithCves \subseteq Version
    /\ EventsOf \in [ReportFile -> SUBSET Event] /\ Nightly \in Ingester
    /\ {None, Torn, Rotten} \cap Version = {} /\ NoOne \notin Ingester
    /\ MaxMishaps \in Nat /\ MaxChanges \in Nat

VARIABLES
    archive,     \* the day's file in daily_downloads
    obs, vulns,  \* the two partitions of a day
    db,          \* exposure.duckdb
    holder,      \* the process with the database open
    builder,     \* the run of build_store.py
    phase,       \* what the nightly run does next
    place,       \* where a report is
    parquet,     \* events.parquet: how often it holds an event
    manifest,    \* the reports manifest.json lists
    lock,        \* who holds .ingest.lock
    ing,         \* the runs of the ingest
    mishaps, changes,
    cut          \* days whose last projection did not come to its end (history)

store   == <<archive, obs, vulns, builder, cut>>
reports == <<place, parquet, manifest, lock, ing>>
vars    == <<store, reports, db, holder, phase, mishaps, changes>>

(* exposure.duckdb: whether its views are defined, whether that of the     *)
(* CVEs reads the partitions, and the table shadowserver_events            *)
Database == [views : BOOLEAN, cves : BOOLEAN, table : SUBSET Event]
NewDatabase == [views |-> FALSE, cves |-> FALSE, table |-> {}]

BuilderPcs == {"idle", "wipe_obs", "wipe_vulns", "wipe_db", "connect", "obs", "vulns", "views"}
Idle == [pc |-> "idle", todo |-> {}, rebuild |-> FALSE]

IngestPcs == {"off", "lock", "next", "append", "record", "publish", "move", "restore"}
Off == [pc |-> "off", con |-> "none", todo |-> {}, file |-> None, new |-> {}]

TypeOK ==
    /\ archive \in [Day -> Version \cup {None, Rotten}]
    /\ obs \in [Day -> Version \cup {None, Torn}] /\ vulns \in [Day -> Version \cup {None, Torn}]
    /\ db \in Database \cup {None} /\ holder \in Ingester \cup {"builder", NoOne}
    /\ builder \in [pc : BuilderPcs, todo : SUBSET Day, rebuild : BOOLEAN]
    /\ phase \in {"build", "ingest"}
    /\ place \in [ReportFile -> {"away", "incoming", "processed"}]
    /\ parquet \in [Event -> Nat] /\ manifest \subseteq ReportFile
    /\ lock \in Ingester \cup {NoOne}
    /\ ing \in [Ingester -> [pc : IngestPcs, con : {"none", "store", "unlinked"}, todo : SUBSET ReportFile,
                             file : ReportFile \cup {None}, new : SUBSET Event]]
    /\ mishaps \in 0 .. MaxMishaps /\ changes \in 0 .. MaxChanges /\ cut \subseteq Day

Init ==
    /\ archive = [d \in Day |-> None] /\ obs = archive /\ vulns = archive
    /\ db = None /\ holder = NoOne /\ builder = Idle /\ phase = "build"
    /\ place = [f \in ReportFile |-> "away"] /\ parquet = [e \in Event |-> 0] /\ manifest = {}
    /\ lock = NoOne /\ ing = [i \in Ingester |-> Off]
    /\ mishaps = MaxMishaps /\ changes = MaxChanges /\ cut = {}

Mishap == mishaps > 0 /\ mishaps' = mishaps - 1
Change == changes > 0 /\ changes' = changes - 1

Held == {e \in Event : parquet[e] > 0}

(* .pipeline.lock: the projection and the ingest of the nightly run, the   *)
(* morning repair and the rebuild exclude each other                       *)
PipelineFree == builder.pc = "idle" /\ ing[Nightly].pc = "off"

-----------------------------------------------------------------------------
(* A day is collected, repaired, or cut off *)
ArchiveChanges ==
    /\ PipelineFree /\ Change
    /\ \E d \in Day, v \in Version \cup {Rotten} : archive' = [archive EXCEPT ![d] = v]
    /\ UNCHANGED <<obs, vulns, builder, cut, reports, db, holder, phase, mishaps>>

(* A report is fetched or dropped into incoming/, by rename; one processed *)
(* before may be dropped again                                             *)
ReportArrives ==
    /\ Change
    /\ \E f \in ReportFile : place[f] # "incoming" /\ place' = [place EXCEPT ![f] = "incoming"]
    /\ UNCHANGED <<store, parquet, manifest, lock, ing, db, holder, phase, mishaps>>
=============================================================================
