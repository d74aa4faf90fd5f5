---------------------------- MODULE FeedsProofs -----------------------------
(***************************************************************************)
(* No event of a report is lost or doubled and no day is put together from *)
(* two archives, for any days, archives, reports and processes, and any    *)
(* number of kills and of runs by hand.                                    *)
(***************************************************************************)
EXTENDS Feeds, FiniteSetTheorems, WellFoundedInduction, TLAPS

(* The projection has the database open and a day to do wherever it works  *)
BuilderInv ==
    /\ builder.pc \in {"connect", "obs", "vulns"} => builder.todo # {}
    /\ builder.pc \in {"obs", "vulns", "views"} => db \in Database
    /\ \A i \in Ingester : ing[i].con = "store" => db \in Database

(* Only who holds the lock is past it *)
LockInv == \A i \in Ingester : ing[i].pc \in {"next", "append", "record", "publish", "move"} => lock = i

(* What an ingest knows of the report it is at: the events it will append  *)
(* are new, with them the parquet has all of the report, and after that it *)
(* has all of it                                                           *)
AtReport(i) ==
    /\ ing[i].pc \in {"append", "record", "publish", "move"} => ing[i].file \in ReportFile
    /\ ing[i].pc = "append" => /\ ing[i].new \cap Held = {}
                               /\ EventsOf[ing[i].file] \subseteq Held \cup ing[i].new
    /\ ing[i].pc \in {"record", "publish", "move"} => EventsOf[ing[i].file] \subseteq Held

ReportInv == ReportsKept /\ \A i \in Ingester : AtReport(i)

(* Between its two partitions a day has the observations of its archive,   *)
(* and between the two trees there are none                                *)
DayInv ==
    /\ SameVersion
    /\ builder.pc = "vulns" => obs[Today] = archive[Today] /\ Today \in cut
    /\ builder.pc = "wipe_vulns" => \A d \in Day : obs[d] = None

IInv == TypeOK /\ BuilderInv /\ LockInv /\ EventsOnce /\ ReportInv /\ DayInv

-----------------------------------------------------------------------------
(* A set of numbers has a least one. *)
LEMMA Least ==
  ASSUME NEW S \in SUBSET Nat, S # {}
  PROVE  \E m \in S : \A n \in S : m <= n
  <1>1. PICK b \in S : TRUE
    OBVIOUS
  <1> DEFINE T == {0 .. m : m \in {k \in S : k <= b}}
  <1>2. IsFiniteSet(0 .. b)
    BY FS_Interval
  <1>3. T # {} /\ T \subseteq SUBSET (0 .. b)
    BY <1>1
  <1> HIDE DEF T
  <1>4. PICK t \in T : \A u \in T : <<u, t>> \notin StrictSubsetOrdering(0 .. b)
    <2>1. IsWellFoundedOn(StrictSubsetOrdering(0 .. b), SUBSET (0 .. b))
      BY <1>2, FS_StrictSubsetOrderingWellFounded, FS_FiniteSubsetsOfFinite
    <2>2. \E t \in T : \A u \in T : ~ (<<u, t>> \in StrictSubsetOrdering(0 .. b))
      BY <1>3, <2>1, WFMin
    <2>3. QED
      BY <2>2
  <1>5. PICK m \in S : m <= b /\ t = 0 .. m
    BY DEF T
  <1>6. ASSUME NEW n \in S, n < m PROVE FALSE
    <2>1. 0 .. n \in T
      BY <1>5, <1>6, <1>1 DEF T
    <2>2. 0 .. n \subseteq 0 .. m /\ 0 .. n # 0 .. m
      <3>1. m \in 0 .. m /\ m \notin 0 .. n
        BY <1>6
      <3>2. QED
        BY <3>1, <1>6
    <2>3. QED
      BY <2>1, <2>2, <1>3, <1>4, <1>5 DEF StrictSubsetOrdering
  <1>7. QED
    BY <1>6

(* A run of the projection, and of the ingest *)
Builders == [pc : BuilderPcs, todo : SUBSET Day, rebuild : BOOLEAN]
Ingests  == [pc : IngestPcs, con : {"none", "store", "unlinked"}, todo : SUBSET ReportFile,
             file : ReportFile \cup {None}, new : SUBSET Event]

(* A projection and an ingest that do not run, and a new database, are ones. *)
LEMMA IdleAndOff == Idle \in Builders /\ Off \in Ingests /\ NewDatabase \in Database
  BY DEF Idle, Off, NewDatabase, Builders, Ingests, Database, BuilderPcs, IngestPcs

(* A projection that starts is one. *)
LEMMA StartType ==
  ASSUME NEW days \in SUBSET Day, NEW rebuild \in BOOLEAN, Start(days, rebuild)
  PROVE  builder' \in Builders
  <1>1. CASE rebuild
    BY <1>1 DEF Start, Builders, BuilderPcs
  <1>2. CASE ~rebuild
    BY <1>2 DEF Start, Builders, BuilderPcs
  <1>3. QED
    BY <1>1, <1>2

(* An ingest that starts has the database open, or does without. *)
LEMMA OpenedType ==
  ASSUME TypeOK, NEW i \in Ingester, NEW pc \in IngestPcs, Opened(i, pc)
  PROVE  /\ ing' \in [Ingester -> Ingests]
         /\ db' \in Database \cup {None} /\ holder' \in Ingester \cup {"builder", NoOne}
         /\ ing'[i].pc = pc /\ \A j \in Ingester \ {i} : ing'[j] = ing[j]
         /\ db \in Database => db' \in Database
         /\ ing'[i].con = "store" => db' \in Database
  <1> DEFINE with    == [Off EXCEPT !.pc = pc, !.con = "store"]
             without == [Off EXCEPT !.pc = pc]
  <1>1. with \in Ingests /\ with.pc = pc /\ with.con = "store"
    BY IdleAndOff DEF Ingests, Off
  <1>2. without \in Ingests /\ without.pc = pc /\ without.con = "none"
    BY IdleAndOff DEF Ingests, Off
  <1> HIDE DEF with, without
  <1>3. CASE holder = NoOne
    <2>1. ing' = [ing EXCEPT ![i] = with] /\ holder' = i /\ db' = IF db = None THEN NewDatabase ELSE db
      BY <1>3 DEF Opened, with
    <2>2. QED
      BY <1>1, <2>1, IdleAndOff DEF TypeOK, Ingests
  <1>4. CASE holder # NoOne
    <2>1. ing' = [ing EXCEPT ![i] = without] /\ UNCHANGED <<holder, db>>
      BY <1>4 DEF Opened, without
    <2>2. QED
      BY <1>2, <2>1 DEF TypeOK, Ingests
  <1>5. QED
    BY <1>3, <1>4

(* The day at hand is one of those to do. *)
LEMMA TodayIsDue ==
  ASSUME TypeOK, builder.todo # {}
  PROVE  Today \in builder.todo /\ Today \in Day
  <1>1. builder.todo \subseteq Day /\ builder.todo \in SUBSET Nat
    BY FeedAssumption DEF TypeOK
  <1>2. QED
    BY <1>1, Least DEF Today, First

(* Steps of the projection and of the archive touch nothing of a report. *)
IngestQuiet ==
    /\ UNCHANGED <<place, parquet, manifest, lock>>
    /\ ing' \in [Ingester -> Ingests]
    /\ \A i \in Ingester : ing'[i].pc = ing[i].pc /\ ing'[i].file = ing[i].file /\ ing'[i].new = ing[i].new

StoreStep == NightlyBuild \/ BuildByHand \/ BuilderStep \/ BuilderKilled \/ ArchiveChanges

(* The projection leaves the reports and what an ingest knows alone. *)
LEMMA StoreStepIsQuiet == ASSUME TypeOK, StoreStep PROVE IngestQuiet
  <1> USE DEF TypeOK, IngestQuiet, Ingests, reports, others
  <1>1. CASE NightlyBuild \/ BuildByHand
    BY <1>1 DEF NightlyBuild, BuildByHand, Start
  <1>2. CASE WipeObs \/ WipeVulns \/ Connect
    BY <1>2 DEF WipeObs, WipeVulns, Connect
  <1>3. CASE WipeDb
    BY <1>3 DEF WipeDb, Unlinked
  <1>4. CASE ProjectObs \/ ProjectVulns \/ RefreshViews \/ BuilderKilled
    BY <1>4 DEF ProjectObs, ProjectVulns, RefreshViews, BuilderKilled
  <1>5. CASE ArchiveChanges
    BY <1>5 DEF ArchiveChanges
  <1>6. QED
    BY <1>1, <1>2, <1>3, <1>4, <1>5 DEF StoreStep, BuilderStep

-----------------------------------------------------------------------------
(* The types hold at the start. *)
LEMMA TypeInit == Init => TypeOK
  BY FeedAssumption DEF Init, TypeOK, Idle, Off, BuilderPcs, IngestPcs

(* A step of the projection, or of the archive, keeps the types. *)
LEMMA TypeStepStore == ASSUME IInv, StoreStep PROVE TypeOK'
  <1> USE DEF IInv
  <1>1. IngestQuiet
    BY StoreStepIsQuiet
  <1>2. CASE NightlyBuild \/ BuildByHand
    <2>1. builder' \in Builders
      <3>1. CASE UNCHANGED builder
        BY <3>1 DEF TypeOK, Builders
      <3>2. CASE Start(Archived, TRUE) \/ \E d \in Archived : Start({d}, FALSE)
        BY <3>2, StartType DEF Archived
      <3>3. QED
        BY <1>2, <3>1, <3>2 DEF NightlyBuild, BuildByHand, store
    <2>5. phase' \in {"build", "ingest"}
      BY <1>2 DEF NightlyBuild, BuildByHand, TypeOK
    <2>2. changes' \in 0 .. MaxChanges
      <3>1. CASE UNCHANGED changes
        BY <3>1 DEF TypeOK
      <3>2. CASE Change
        BY <3>2, FeedAssumption DEF Change, TypeOK
      <3>3. QED
        BY <1>2, <3>1, <3>2 DEF NightlyBuild, BuildByHand
    <2>3. UNCHANGED <<archive, obs, vulns, cut, reports, db, holder, mishaps>>
      BY <1>2 DEF NightlyBuild, BuildByHand, Start, store
    <2>4. QED
      BY <2>1, <2>2, <2>3, <2>5 DEF reports, TypeOK, Builders
  <1>3. CASE WipeObs \/ WipeVulns
    BY <1>3 DEF WipeObs, WipeVulns, others, reports, TypeOK, BuilderPcs
  <1>4. CASE WipeDb
    BY <1>1, <1>4 DEF IngestQuiet, WipeDb, Idle, Ingests, TypeOK, BuilderPcs
  <1>5. CASE Connect
    <2>1. NewDatabase \in Database
      BY DEF NewDatabase, Database
    <2>2. builder' \in Builders
      <3>1. CASE builder' = [builder EXCEPT !.pc = "obs"]
        BY <3>1 DEF TypeOK, Builders, BuilderPcs
      <3>2. QED
        BY <1>5, <3>1, IdleAndOff DEF Connect, Stop
    <2>3. db' \in Database \cup {None} /\ holder' \in Ingester \cup {"builder", NoOne}
      BY <1>5, <2>1 DEF Connect, Stop, TypeOK
    <2>4. QED
      BY <1>5, <2>2, <2>3 DEF Connect, others, reports, TypeOK, Builders
  <1>6. CASE ProjectObs
    <2>1. Today \in Day
      BY <1>6, TodayIsDue DEF ProjectObs, BuilderInv
    <2>2. builder' \in Builders
      <3>1. CASE builder' = [builder EXCEPT !.pc = "vulns"]
        BY <3>1 DEF TypeOK, Builders, BuilderPcs
      <3>2. QED
        BY <1>6, <3>1, IdleAndOff DEF ProjectObs, Stop
    <2>3. obs' \in [Day -> Version \cup {None, Torn}] /\ cut' \subseteq Day
      BY <1>6, <2>1 DEF ProjectObs, TypeOK
    <2>4. holder' \in Ingester \cup {"builder", NoOne}
      BY <1>6 DEF ProjectObs, Stop, TypeOK
    <2>5. QED
      BY <1>6, <2>2, <2>3, <2>4 DEF ProjectObs, others, reports, TypeOK, Builders
  <1>7. CASE ProjectVulns
    <2>1. Today \in Day
      BY <1>7, TodayIsDue DEF ProjectVulns, BuilderInv
    <2>2. CvesOf(Today) \in Version \cup {None, Torn}
      BY FeedAssumption DEF CvesOf
    <2>3. QED
      BY <1>7, <2>1, <2>2 DEF ProjectVulns, others, reports, TypeOK, BuilderPcs
  <1>8. CASE RefreshViews
    BY <1>8 DEF RefreshViews, Stop, Idle, others, reports, TypeOK, BuilderInv, Database, BuilderPcs
  <1>9. CASE BuilderKilled
    <2>1. builder.pc \in {"obs", "vulns"} => Today \in Day
      BY TodayIsDue DEF BuilderInv
    <2>2. builder' = Idle /\ holder' \in Ingester \cup {"builder", NoOne} /\ mishaps' \in 0 .. MaxMishaps
      BY <1>9, FeedAssumption DEF BuilderKilled, Stop, Mishap, TypeOK
    <2>3. /\ obs' \in [Day -> Version \cup {None, Torn}] /\ vulns' \in [Day -> Version \cup {None, Torn}]
          /\ cut' \subseteq Day
      BY <1>9, <2>1 DEF BuilderKilled, TypeOK
    <2>4. UNCHANGED <<archive, reports, phase, changes, db>>
      BY <1>9 DEF BuilderKilled, others
    <2>5. QED
      BY <2>2, <2>3, <2>4 DEF reports, Idle, TypeOK, BuilderPcs
  <1>10. CASE ArchiveChanges
    BY <1>10, FeedAssumption DEF ArchiveChanges, Change, reports, TypeOK
  <1>11. QED
    BY <1>2, <1>3, <1>4, <1>5, <1>6, <1>7, <1>8, <1>9, <1>10 DEF StoreStep, BuilderStep

(* A step of an ingest keeps the types. *)
LEMMA TypeStepIngest ==
  ASSUME IInv, NEW i \in Ingester,
         IngestByHand(i) \/ RestoreByHand(i) \/ IngestStep(i) \/ ReportUnreadable(i) \/ Unpublished(i) \/ IngesterKilled(i)
  PROVE  TypeOK'
  <1> USE DEF IInv
  <1>1. CASE IngestByHand(i) \/ RestoreByHand(i)
    <2>1. /\ ing' \in [Ingester -> Ingests]
          /\ db' \in Database \cup {None} /\ holder' \in Ingester \cup {"builder", NoOne}
      BY <1>1, OpenedType DEF IngestByHand, RestoreByHand, IngestPcs
    <2>3. changes' \in 0 .. MaxChanges
      BY <1>1, FeedAssumption DEF IngestByHand, RestoreByHand, Change, TypeOK
    <2>4. UNCHANGED <<store, place, parquet, manifest, lock, phase, mishaps>>
      BY <1>1 DEF IngestByHand, RestoreByHand
    <2>5. QED
      BY <2>1, <2>3, <2>4 DEF store, TypeOK, Ingests
  <1>2. CASE TakeLock(i)
    <2>1. ing' \in [Ingester -> Ingests]
      <3>1. CASE ing' = [ing EXCEPT ![i] = Off]
        BY <3>1, IdleAndOff DEF TypeOK, Ingests
      <3>2. CASE ing' = [ing EXCEPT ![i].pc = "next", ![i].todo = Incoming]
        <4>1. ing[i] \in Ingests /\ Incoming \subseteq ReportFile
          BY DEF TypeOK, Ingests, Incoming
        <4>2. [[ing[i] EXCEPT !.pc = "next"] EXCEPT !.todo = Incoming] \in Ingests
          BY <4>1 DEF Ingests, IngestPcs
        <4>3. ing' = [ing EXCEPT ![i] = [[ing[i] EXCEPT !.pc = "next"] EXCEPT !.todo = Incoming]]
          BY <3>2 DEF TypeOK
        <4>4. QED
          BY <4>2, <4>3 DEF TypeOK, Ingests
      <3>3. QED
        BY <1>2, <3>1, <3>2 DEF TakeLock, Closed
    <2>2. lock' \in Ingester \cup {NoOne} /\ holder' \in Ingester \cup {"builder", NoOne}
      BY <1>2 DEF TakeLock, Closed, TypeOK
    <2>3. QED
      BY <1>2, <2>1, <2>2 DEF TakeLock, unread, store, TypeOK, Ingests
  <1>3. CASE ReadReport(i)
    <2>1. ing' \in [Ingester -> Ingests]
      <3>1. PICK f \in ing[i].todo :
              LET new == ParseReport(f) \ Held IN
              ing' = [ing EXCEPT ![i].file = f, ![i].todo = @ \ {f},
                                 ![i].new = IF f \in manifest THEN {} ELSE new,
                                 ![i].pc = IF f \in manifest THEN "publish"
                                           ELSE IF new = {} THEN "record" ELSE "append"]
        BY <1>3 DEF ReadReport
      <3> DEFINE new == IF f \in manifest THEN {} ELSE ParseReport(f) \ Held
                 pc  == IF f \in manifest THEN "publish"
                        ELSE IF ParseReport(f) \ Held = {} THEN "record" ELSE "append"
      <3>2. f \in ReportFile /\ new \subseteq Event /\ pc \in IngestPcs
        BY FeedAssumption DEF TypeOK, ParseReport, IngestPcs
      <3> DEFINE run == [ing[i] EXCEPT !.file = f, !.todo = ing[i].todo \ {f}, !.new = new, !.pc = pc]
      <3>3. ing' = [ing EXCEPT ![i] = run]
        BY <3>1 DEF TypeOK
      <3> HIDE DEF new, pc
      <3>4. ing[i] \in Ingests
        BY DEF TypeOK, Ingests
      <3>5. run \in Ingests
        BY <3>2, <3>4 DEF Ingests
      <3> HIDE DEF run
      <3>6. QED
        BY <3>3, <3>5 DEF TypeOK, Ingests
    <2>2. QED
      BY <1>3, <2>1 DEF ReadReport, unread, store, TypeOK, Ingests
  <1>4. CASE AppendParquet(i) \/ SaveManifest(i) \/ MoveReport(i)
    <2>1. ing' \in [Ingester -> Ingests]
      BY <1>4 DEF AppendParquet, SaveManifest, MoveReport, To, TypeOK, IngestPcs, Ingests
    <2>2. parquet' \in [Event -> Nat]
      BY <1>4 DEF AppendParquet, SaveManifest, MoveReport, TypeOK
    <2>3. manifest' \subseteq ReportFile /\ place' \in [ReportFile -> {"away", "incoming", "processed"}]
      BY <1>4 DEF AppendParquet, SaveManifest, MoveReport, TypeOK, ReportInv, AtReport
    <2>4. QED
      BY <1>4, <2>1, <2>2, <2>3 DEF AppendParquet, SaveManifest, MoveReport, unread, store, TypeOK, Ingests
  <1>5. CASE RestoreTable(i) \/ Leave(i) \/ Restore(i)
    <2>1. ing' \in [Ingester -> Ingests]
      BY <1>5 DEF RestoreTable, Leave, Restore, Closed, To, Off, TypeOK, IngestPcs, Ingests
    <2>2. db' \in Database \cup {None}
      <3>1. CASE ing[i].con = "store"
        BY <1>5, <3>1 DEF RestoreTable, Leave, Restore, Published, BuilderInv, Database, Held
      <3>2. CASE ing[i].con # "store"
        BY <1>5, <3>2 DEF RestoreTable, Leave, Restore, Published, TypeOK
      <3>3. QED
        BY <3>1, <3>2
    <2>3. lock' \in Ingester \cup {NoOne} /\ holder' \in Ingester \cup {"builder", NoOne}
      BY <1>5 DEF RestoreTable, Leave, Restore, Closed, TypeOK
    <2>4. QED
      BY <1>5, <2>1, <2>2, <2>3 DEF RestoreTable, Leave, Restore, unread, store, TypeOK, Ingests
  <1>6. CASE ReportUnreadable(i) \/ Unpublished(i) \/ IngesterKilled(i)
    <2>1. ing' \in [Ingester -> Ingests]
      <3>1. CASE ing' = To(i, "next") \/ ing' = [ing EXCEPT ![i] = Off]
        BY <3>1 DEF To, Off, TypeOK, IngestPcs, Ingests
      <3>2. CASE ReportUnreadable(i)
        BY <3>2 DEF ReportUnreadable, TypeOK, Ingests
      <3>3. QED
        BY <1>6, <3>1, <3>2 DEF Unpublished, IngesterKilled, Closed
    <2>2. mishaps' \in 0 .. MaxMishaps
      BY <1>6, FeedAssumption DEF ReportUnreadable, Unpublished, IngesterKilled, Mishap, TypeOK
    <2>3. lock' \in Ingester \cup {NoOne} /\ holder' \in Ingester \cup {"builder", NoOne}
      BY <1>6 DEF ReportUnreadable, Unpublished, IngesterKilled, Closed, TypeOK
    <2>4. QED
      BY <1>6, <2>1, <2>2, <2>3 DEF ReportUnreadable, Unpublished, IngesterKilled, store, TypeOK, Ingests
  <1>7. QED
    BY <1>1, <1>2, <1>3, <1>4, <1>5, <1>6 DEF IngestStep

(* Every step keeps the types. *)
LEMMA TypeStep == IInv /\ [Next]_vars => TypeOK'
  <1> SUFFICES ASSUME IInv, [Next]_vars PROVE TypeOK'
    OBVIOUS
  <1> USE DEF IInv
  <1>1. CASE NightlyIngest
    <2>1. /\ ing' \in [Ingester -> Ingests]
          /\ db' \in Database \cup {None} /\ holder' \in Ingester \cup {"builder", NoOne}
      BY <1>1, FeedAssumption, OpenedType DEF NightlyIngest, IngestPcs
    <2>2. QED
      BY <1>1, <2>1 DEF NightlyIngest, store, TypeOK, Ingests
  <1>2. CASE ReportArrives
    BY <1>2, FeedAssumption DEF ReportArrives, Change, store, TypeOK
  <1>3. CASE UNCHANGED vars
    BY <1>3 DEF vars, store, reports, TypeOK
  <1>4. QED
    BY <1>1, <1>2, <1>3, TypeStepStore, TypeStepIngest DEF Next, StoreStep

-----------------------------------------------------------------------------
(* The conjuncts of the invariant *)

OneIngest(i) ==
    IngestByHand(i) \/ RestoreByHand(i) \/ IngestStep(i) \/ ReportUnreadable(i) \/ Unpublished(i) \/ IngesterKilled(i)

(* The steps, by what they touch. *)
LEMMA NextCases ==
  ASSUME [Next]_vars
  PROVE  \/ StoreStep \/ NightlyIngest \/ ReportArrives \/ UNCHANGED vars
         \/ \E i \in Ingester : OneIngest(i)
  BY DEF Next, StoreStep, OneIngest

(* A step of one ingest is of no other, and opens nothing. *)
LEMMA OneRunAlone ==
  ASSUME TypeOK, NEW i \in Ingester, IngestStep(i) \/ ReportUnreadable(i) \/ Unpublished(i) \/ IngesterKilled(i)
  PROVE  ing'[i].con \in {ing[i].con, "none"} /\ \A j \in Ingester \ {i} : ing'[j] = ing[j]
  <1> USE DEF TypeOK
  <1>1. CASE ing' = [ing EXCEPT ![i] = Off]
    BY <1>1 DEF Off
  <1>2. CASE TakeLock(i)
    BY <1>1, <1>2 DEF TakeLock, Closed
  <1>3. CASE ReadReport(i)
    BY <1>3 DEF ReadReport
  <1>4. CASE AppendParquet(i) \/ SaveManifest(i) \/ MoveReport(i) \/ RestoreTable(i) \/ ReportUnreadable(i)
    BY <1>4 DEF AppendParquet, SaveManifest, MoveReport, RestoreTable, To, ReportUnreadable
  <1>5. CASE Leave(i) \/ Restore(i) \/ IngesterKilled(i)
    BY <1>1, <1>5 DEF Leave, Restore, IngesterKilled, Closed
  <1>6. CASE Unpublished(i)
    <2>1. ing' = To(i, "next") \/ ing' = [ing EXCEPT ![i] = Off]
      BY <1>6 DEF Unpublished, Closed
    <2>2. QED
      BY <1>1, <2>1 DEF To
  <1>7. QED
    BY <1>2, <1>3, <1>4, <1>5, <1>6 DEF IngestStep

(* What the projection relies on holds at the start. *)
LEMMA BuilderInit == Init => BuilderInv
  BY DEF Init, BuilderInv, Idle, Off

(* Every step keeps what the projection relies on. *)
LEMMA BuilderStepKept == ASSUME IInv, [Next]_vars PROVE BuilderInv'
  <1> USE DEF IInv
  <1>1. CASE NightlyBuild \/ BuildByHand
    <2>1. UNCHANGED <<db, ing>>
      BY <1>1 DEF NightlyBuild, BuildByHand, Start, store, reports
    <2>2. CASE UNCHANGED builder
      BY <2>1, <2>2 DEF BuilderInv
    <2>3. CASE Start(Archived, TRUE) \/ \E d \in Archived : Start({d}, FALSE)
      BY <2>1, <2>3 DEF Start, BuilderInv
    <2>4. QED
      BY <1>1, <2>2, <2>3 DEF NightlyBuild, BuildByHand, store
  <1>2. CASE WipeObs \/ WipeVulns
    BY <1>2 DEF WipeObs, WipeVulns, BuilderInv, others, reports, TypeOK
  <1>3. CASE WipeDb
    <2>1. builder'.pc \in {"idle", "connect"} /\ (builder'.pc = "connect" => builder'.todo # {})
      BY <1>3 DEF WipeDb, Idle, TypeOK
    <2>2. \A i \in Ingester : ing'[i].con # "store"
      BY <1>3 DEF WipeDb, Unlinked, TypeOK
    <2>3. QED
      BY <2>1, <2>2 DEF BuilderInv
  <1>4. CASE Connect
    <2>1. CASE holder = NoOne
      BY <1>4, <2>1, IdleAndOff DEF Connect, BuilderInv, others, reports, TypeOK
    <2>2. CASE holder # NoOne
      BY <1>4, <2>2 DEF Connect, Stop, Idle, BuilderInv, others, reports
    <2>3. QED
      BY <2>1, <2>2
  <1>5. CASE ProjectObs
    <2>1. UNCHANGED <<db, ing>>
      BY <1>5 DEF ProjectObs, others, reports
    <2>2. builder' = Idle \/ builder' = [builder EXCEPT !.pc = "vulns"]
      BY <1>5 DEF ProjectObs, Stop
    <2>3. builder.pc = "obs"
      BY <1>5 DEF ProjectObs
    <2>4. QED
      BY <2>1, <2>2, <2>3 DEF BuilderInv, Idle, TypeOK
  <1>6. CASE ProjectVulns
    <2>1. UNCHANGED <<db, ing>> /\ builder.pc = "vulns"
      BY <1>6 DEF ProjectVulns, others, reports
    <2>2. builder'.pc \in {"obs", "views"} /\ (builder'.pc = "obs" => builder'.todo # {})
      <3>1. builder.todo # {}
        BY <2>1 DEF BuilderInv
      <3>2. Today \in builder.todo
        BY <3>1, TodayIsDue
      <3>3. builder'.todo = builder.todo \ {Today}
        BY <1>6 DEF ProjectVulns, TypeOK
      <3>4. builder'.pc = IF builder.todo = {Today} THEN "views" ELSE "obs"
        BY <1>6 DEF ProjectVulns, TypeOK
      <3>5. QED
        BY <3>2, <3>3, <3>4
    <2>3. QED
      BY <2>1, <2>2 DEF BuilderInv
  <1>7. CASE RefreshViews
    <2>1. db' \in Database
      BY <1>7 DEF RefreshViews, BuilderInv, Database
    <2>2. QED
      BY <1>7, <2>1 DEF RefreshViews, Stop, Idle, BuilderInv, others, reports
  <1>8. CASE BuilderKilled
    BY <1>8 DEF BuilderKilled, Stop, Idle, BuilderInv, others, reports
  <1>9. CASE ArchiveChanges \/ ReportArrives \/ UNCHANGED vars
    BY <1>9 DEF ArchiveChanges, ReportArrives, vars, store, reports, BuilderInv
  <1>10. ASSUME NEW i \in Ingester, NEW pc \in IngestPcs, Opened(i, pc), UNCHANGED builder
         PROVE  BuilderInv'
    BY <1>10, OpenedType DEF BuilderInv
  <1>11. CASE NightlyIngest
    BY <1>10, <1>11, FeedAssumption DEF NightlyIngest, store, IngestPcs
  <1>12. ASSUME NEW i \in Ingester, IngestByHand(i) \/ RestoreByHand(i) PROVE BuilderInv'
    BY <1>10, <1>12 DEF IngestByHand, RestoreByHand, store, IngestPcs
  <1>13. ASSUME NEW i \in Ingester, IngestStep(i) \/ ReportUnreadable(i) \/ Unpublished(i) \/ IngesterKilled(i) PROVE BuilderInv'
    <2>1. UNCHANGED builder
      BY <1>13 DEF IngestStep, TakeLock, ReadReport, AppendParquet, SaveManifest, RestoreTable, MoveReport,
                   Leave, Restore, ReportUnreadable, Unpublished, IngesterKilled, unread, store
    <2>2. db' = db \/ (ing[i].con = "store" /\ db' = [db EXCEPT !.table = Held])
      BY <1>13 DEF IngestStep, TakeLock, ReadReport, AppendParquet, SaveManifest, RestoreTable, MoveReport,
                   Leave, Restore, Published, ReportUnreadable, Unpublished, IngesterKilled
    <2>3. db \in Database => db' \in Database
      BY <2>2 DEF Database, Held
    <2>4. ing'[i].con \in {ing[i].con, "none"} /\ \A j \in Ingester \ {i} : ing'[j] = ing[j]
      BY <1>13, OneRunAlone DEF OneIngest
    <2>5. QED
      BY <2>1, <2>3, <2>4 DEF BuilderInv
  <1>14. QED
    BY <1>1, <1>2, <1>3, <1>4, <1>5, <1>6, <1>7, <1>8, <1>9, <1>11, <1>12, <1>13, NextCases
       DEF StoreStep, BuilderStep, OneIngest

(* Every step leaves one run at most past the lock. *)
LEMMA LockStep == ASSUME IInv, [Next]_vars PROVE LockInv'
  <1> USE DEF IInv
  <1>1. CASE StoreStep
    BY <1>1, StoreStepIsQuiet DEF IngestQuiet, LockInv
  <1>2. CASE ReportArrives \/ UNCHANGED vars
    BY <1>2 DEF ReportArrives, vars, reports, LockInv
  <1>3. ASSUME NEW i \in Ingester, NEW pc \in {"lock", "restore"}, Opened(i, pc), UNCHANGED lock
        PROVE  LockInv'
    <2>1. ing'[i].pc = pc /\ \A j \in Ingester \ {i} : ing'[j] = ing[j]
      BY <1>3, OpenedType DEF IngestPcs
    <2>2. QED
      BY <1>3, <2>1 DEF LockInv
  <1>4. CASE NightlyIngest
    BY <1>3, <1>4, FeedAssumption DEF NightlyIngest
  <1>5. ASSUME NEW i \in Ingester, IngestByHand(i) \/ RestoreByHand(i) PROVE LockInv'
    BY <1>3, <1>5 DEF IngestByHand, RestoreByHand
  <1>6. ASSUME NEW i \in Ingester, IngestStep(i) \/ ReportUnreadable(i) \/ Unpublished(i) \/ IngesterKilled(i) PROVE LockInv'
    <2>1. \A j \in Ingester \ {i} : ing'[j] = ing[j]
      BY <1>6, OneRunAlone
    <2>2. CASE TakeLock(i)
      BY <2>1, <2>2, FeedAssumption DEF TakeLock, Closed, Off, LockInv, TypeOK
    <2>3. CASE ReadReport(i) \/ AppendParquet(i) \/ SaveManifest(i) \/ RestoreTable(i) \/ MoveReport(i)
                 \/ ReportUnreadable(i)
      BY <2>1, <2>3 DEF ReadReport, AppendParquet, SaveManifest, RestoreTable, MoveReport, ReportUnreadable,
                        LockInv, TypeOK
    <2>4. CASE Leave(i)
      BY <2>1, <2>4 DEF Leave, Closed, Off, LockInv, TypeOK
    <2>5. CASE Restore(i) \/ IngesterKilled(i)
      BY <2>1, <2>5 DEF Restore, IngesterKilled, Closed, Off, LockInv, TypeOK
    <2>6. CASE Unpublished(i)
      <3>1. \/ ing[i].pc = "publish" /\ ing' = To(i, "next") /\ UNCHANGED lock
            \/ ing[i].pc = "next" /\ ing' = [ing EXCEPT ![i] = Off] /\ lock' = NoOne
            \/ ing[i].pc = "restore" /\ ing' = [ing EXCEPT ![i] = Off] /\ UNCHANGED lock
        BY <2>6 DEF Unpublished, Closed
      <3>2. QED
        BY <2>1, <3>1 DEF To, Off, LockInv, TypeOK
    <2>7. QED
      BY <1>6, <2>2, <2>3, <2>4, <2>5, <2>6 DEF IngestStep
  <1>7. QED
    BY <1>1, <1>2, <1>4, <1>5, <1>6, NextCases DEF OneIngest

-----------------------------------------------------------------------------
(* The events *)

(* Only an append writes the parquet. *)
LEMMA ParquetAlone ==
  ASSUME TypeOK, [Next]_vars, \A i \in Ingester : ~AppendParquet(i)
  PROVE  UNCHANGED parquet
  <1>1. CASE StoreStep
    BY <1>1, StoreStepIsQuiet DEF IngestQuiet
  <1>2. CASE NightlyIngest \/ ReportArrives \/ UNCHANGED vars
    BY <1>2 DEF NightlyIngest, ReportArrives, vars, reports
  <1>3. ASSUME NEW i \in Ingester, OneIngest(i) PROVE UNCHANGED parquet
    BY <1>3 DEF OneIngest, IngestByHand, RestoreByHand, IngestStep, TakeLock, ReadReport, SaveManifest,
                RestoreTable, MoveReport, Leave, Restore, ReportUnreadable, Unpublished, IngesterKilled
  <1>4. QED
    BY <1>1, <1>2, <1>3, NextCases

(* An append adds the new events of its report, and once. *)
LEMMA AppendAdds ==
  ASSUME IInv, NEW i \in Ingester, AppendParquet(i)
  PROVE  Held' = Held \cup ing[i].new /\ EventsOnce'
  <1> USE DEF IInv
  <1>1. \A e \in Event : parquet'[e] = parquet[e] + IF e \in ing[i].new THEN 1 ELSE 0
    BY DEF AppendParquet
  <1>2. ing[i].new \subseteq Event /\ ing[i].new \cap Held = {} /\ parquet \in [Event -> Nat]
    BY DEF TypeOK, AppendParquet, ReportInv, AtReport
  <1>3. \A e \in Event : parquet'[e] > 0 <=> (parquet[e] > 0 \/ e \in ing[i].new)
    BY <1>1, <1>2
  <1>4. \A e \in Event : e \in ing[i].new => ~ (parquet[e] > 0)
    BY <1>2 DEF Held
  <1>5. QED
    BY <1>1, <1>2, <1>3, <1>4 DEF Held, EventsOnce

(* Every step keeps each event once, and none is taken out. *)
LEMMA EventsOnceStep == ASSUME IInv, [Next]_vars PROVE EventsOnce' /\ Held \subseteq Held'
  <1>1. CASE \E i \in Ingester : AppendParquet(i)
    BY <1>1, AppendAdds
  <1>2. CASE \A i \in Ingester : ~AppendParquet(i)
    BY <1>2, ParquetAlone DEF IInv, EventsOnce, Held
  <1>3. QED
    BY <1>1, <1>2

-----------------------------------------------------------------------------
(* What is known of the reports holds at the start. *)
LEMMA ReportInit == Init => ReportInv
  BY FeedAssumption DEF Init, ReportInv, ReportsKept, AtReport, Off

(* A run that is at no report knows of none; the others know what they did. *)
LEMMA ReportAside ==
  ASSUME IInv, [Next]_vars, NEW i \in Ingester,
         \A j \in Ingester \ {i} : ing'[j] = ing[j],
         \A j \in Ingester \ {i} : ing[j].pc = "append" => UNCHANGED parquet,
         AtReport(i)'
  PROVE  \A j \in Ingester : AtReport(j)'
  <1> SUFFICES ASSUME NEW j \in Ingester \ {i} PROVE AtReport(j)'
    OBVIOUS
  <1>1. Held \subseteq Held' /\ AtReport(j) /\ ing'[j] = ing[j]
    BY EventsOnceStep DEF IInv, ReportInv
  <1>2. ing[j].pc = "append" => Held' = Held
    BY DEF Held
  <1>3. QED
    BY <1>1, <1>2 DEF AtReport

(* Every step keeps what is known of the reports. *)
LEMMA ReportStep == ASSUME IInv, [Next]_vars PROVE ReportInv'
  <1> USE DEF IInv
  <1>1. Held \subseteq Held'
    BY EventsOnceStep
  <1>2. CASE StoreStep
    <2>1. UNCHANGED <<place, manifest, Held>>
      BY <1>2, StoreStepIsQuiet DEF IngestQuiet, Held
    <2>2. \A i \in Ingester : ing'[i].pc = ing[i].pc /\ ing'[i].file = ing[i].file /\ ing'[i].new = ing[i].new
      BY <1>2, StoreStepIsQuiet DEF IngestQuiet
    <2>3. QED
      BY <2>1, <2>2 DEF ReportInv, ReportsKept, AtReport
  <1>3. CASE ReportArrives
    BY <1>3 DEF ReportArrives, ReportInv, ReportsKept, AtReport, Held, TypeOK
  <1>4. CASE UNCHANGED vars
    BY <1>4 DEF vars, reports, ReportInv, ReportsKept, AtReport, Held
  <1>5. ASSUME NEW i \in Ingester, NEW pc \in {"lock", "restore"}, Opened(i, pc), UNCHANGED <<place, parquet, manifest>>
        PROVE  ReportInv'
    <2>1. ing'[i].pc = pc /\ \A j \in Ingester \ {i} : ing'[j] = ing[j]
      BY <1>5, OpenedType DEF IngestPcs
    <2>2. QED
      BY <1>5, <2>1 DEF ReportInv, ReportsKept, AtReport, Held
  <1>6. CASE NightlyIngest
    BY <1>5, <1>6, FeedAssumption DEF NightlyIngest
  <1>7. ASSUME NEW i \in Ingester, IngestByHand(i) \/ RestoreByHand(i) PROVE ReportInv'
    BY <1>5, <1>7 DEF IngestByHand, RestoreByHand
  <1>8. ASSUME NEW i \in Ingester, IngestStep(i) \/ ReportUnreadable(i) \/ Unpublished(i) \/ IngesterKilled(i) PROVE ReportInv'
    <2>1. \A j \in Ingester \ {i} : ing'[j] = ing[j]
      BY <1>8, OneRunAlone
    <2>2. AtReport(i) /\ ing[i] \in Ingests
      BY DEF ReportInv, TypeOK, Ingests
    <2>3. CASE ing'[i].pc \in {"off", "next"} /\ UNCHANGED <<place, parquet, manifest>>
      <3>1. AtReport(i)'
        BY <2>3 DEF AtReport
      <3>2. QED
        BY <2>1, <2>3, <3>1, ReportAside DEF ReportInv, ReportsKept, Held
    <2>4. CASE TakeLock(i) \/ Leave(i) \/ Restore(i) \/ ReportUnreadable(i) \/ Unpublished(i) \/ IngesterKilled(i)
      <3>1. ing'[i].pc \in {"off", "next"}
        <4>1. CASE Unpublished(i)
          BY <4>1 DEF Unpublished, Closed, To, Off, TypeOK
        <4>2. QED
          BY <2>4, <4>1 DEF TakeLock, Leave, Restore, ReportUnreadable, IngesterKilled, Closed, Off, TypeOK
      <3>2. UNCHANGED <<place, parquet, manifest>>
        BY <2>4 DEF TakeLock, Leave, Restore, ReportUnreadable, Unpublished, IngesterKilled
      <3>3. QED
        BY <2>3, <3>1, <3>2
    <2>5. CASE ReadReport(i)
      <3>1. PICK f \in ing[i].todo :
              LET new == ParseReport(f) \ Held IN
              ing' = [ing EXCEPT ![i].file = f, ![i].todo = @ \ {f},
                                 ![i].new = IF f \in manifest THEN {} ELSE new,
                                 ![i].pc = IF f \in manifest THEN "publish"
                                           ELSE IF new = {} THEN "record" ELSE "append"]
        BY <2>5 DEF ReadReport
      <3>2. f \in ReportFile /\ EventsOf[f] \subseteq Event
        BY FeedAssumption DEF TypeOK
      <3>3. /\ ing'[i].file = f
            /\ ing'[i].new = IF f \in manifest THEN {} ELSE EventsOf[f] \ Held
            /\ ing'[i].pc = IF f \in manifest THEN "publish"
                            ELSE IF EventsOf[f] \ Held = {} THEN "record" ELSE "append"
        BY <3>1 DEF TypeOK, ParseReport
      <3>4. UNCHANGED <<place, parquet, manifest, Held>>
        BY <2>5 DEF ReadReport, Held
      <3>5. f \in manifest => EventsOf[f] \subseteq Held
        BY DEF ReportInv, ReportsKept
      <3>6. AtReport(i)'
        <4>1. CASE f \in manifest
          BY <3>2, <3>3, <3>4, <3>5, <4>1 DEF AtReport
        <4>2. CASE f \notin manifest /\ EventsOf[f] \ Held = {}
          BY <3>2, <3>3, <3>4, <4>2 DEF AtReport
        <4>3. CASE f \notin manifest /\ EventsOf[f] \ Held # {}
          BY <3>2, <3>3, <3>4, <4>3 DEF AtReport
        <4>4. QED
          BY <4>1, <4>2, <4>3
      <3>7. QED
        BY <2>1, <3>4, <3>6, ReportAside DEF ReportInv, ReportsKept
    <2>6. CASE AppendParquet(i)
      <3>1. UNCHANGED <<place, manifest>> /\ Held' = Held \cup ing[i].new
        BY <2>6, AppendAdds DEF AppendParquet
      <3>2. ing[i].pc = "append" /\ ing'[i].pc = "record" /\ ing'[i].file = ing[i].file
        BY <2>6 DEF AppendParquet, To, TypeOK
      <3>3. AtReport(i)'
        BY <2>2, <3>1, <3>2 DEF AtReport
      <3>4. \A j \in Ingester \ {i} : ing[j].pc # "append"
        BY <3>2 DEF LockInv
      <3>5. QED
        BY <2>1, <3>1, <3>3, <3>4, ReportAside DEF ReportInv, ReportsKept
    <2>7. CASE SaveManifest(i) \/ RestoreTable(i) \/ MoveReport(i)
      <3>1. UNCHANGED <<parquet, Held>>
        BY <2>7 DEF SaveManifest, RestoreTable, MoveReport, Held
      <3>2. ing[i].pc \in {"record", "publish", "move"} /\ ing'[i].pc \in {"publish", "move", "next"}
            /\ ing'[i].file = ing[i].file
        BY <2>7 DEF SaveManifest, RestoreTable, MoveReport, To, TypeOK
      <3>3. EventsOf[ing[i].file] \subseteq Held /\ ing[i].file \in ReportFile
        BY <2>2, <3>2 DEF AtReport
      <3>4. AtReport(i)'
        BY <3>1, <3>2, <3>3 DEF AtReport
      <3>5. \A f \in ReportFile : /\ f \in manifest' => f \in manifest \/ f = ing[i].file
                                  /\ place'[f] = "processed" => place[f] = "processed" \/ f = ing[i].file
        BY <2>7 DEF SaveManifest, RestoreTable, MoveReport, TypeOK
      <3>6. manifest' \subseteq ReportFile
        BY <3>3, <2>7 DEF SaveManifest, RestoreTable, MoveReport, TypeOK
      <3>7. ReportsKept'
        <4>1. ASSUME NEW f \in ReportFile, f \in manifest' \/ place'[f] = "processed"
              PROVE  EventsOf[f] \subseteq Held
          BY <3>3, <3>5, <4>1 DEF ReportInv, ReportsKept
        <4>2. QED
          BY <3>1, <3>6, <4>1 DEF ReportsKept
      <3>8. QED
        BY <2>1, <3>1, <3>4, <3>7, ReportAside DEF ReportInv
    <2>8. QED
      BY <1>8, <2>4, <2>5, <2>6, <2>7 DEF IngestStep
  <1>9. QED
    BY <1>2, <1>3, <1>4, <1>6, <1>7, <1>8, NextCases DEF OneIngest

-----------------------------------------------------------------------------
(* What is known of the days holds at the start. *)
LEMMA DayInit == Init => DayInv
  BY FeedAssumption DEF Init, DayInv, SameVersion, Idle

(* Every step keeps what is known of the days. *)
LEMMA DayStep == ASSUME IInv, [Next]_vars PROVE DayInv'
  <1> USE DEF IInv
  <1>1. CASE NightlyBuild \/ BuildByHand
    <2>1. UNCHANGED <<archive, obs, vulns, cut>> /\ (UNCHANGED builder \/ builder'.pc \notin {"vulns", "wipe_vulns"})
      BY <1>1 DEF NightlyBuild, BuildByHand, Start, store
    <2>2. QED
      BY <2>1 DEF DayInv, SameVersion, Today
  <1>2. CASE WipeObs
    BY <1>2, FeedAssumption DEF WipeObs, DayInv, SameVersion, TypeOK
  <1>3. CASE WipeVulns
    BY <1>3, FeedAssumption DEF WipeVulns, DayInv, SameVersion, TypeOK
  <1>4. CASE WipeDb \/ Connect \/ RefreshViews
    <2>1. UNCHANGED <<obs, vulns, cut>> /\ builder'.pc \notin {"vulns", "wipe_vulns"}
      BY <1>4 DEF WipeDb, Connect, RefreshViews, Stop, Idle, TypeOK
    <2>2. QED
      BY <2>1 DEF DayInv, SameVersion
  <1>5. CASE ProjectObs
    <2>1. Today \in Day
      BY <1>5, TodayIsDue DEF ProjectObs, BuilderInv
    <2>2. CASE archive[Today] = Rotten
      BY <1>5, <2>2 DEF ProjectObs, Stop, Idle, DayInv, SameVersion
    <2>3. CASE archive[Today] # Rotten
      <3>1. /\ obs' = [obs EXCEPT ![Today] = archive[Today]] /\ cut' = cut \cup {Today}
            /\ builder'.todo = builder.todo /\ builder'.pc = "vulns" /\ UNCHANGED <<vulns, archive>>
        BY <1>5, <2>3 DEF ProjectObs, others, TypeOK
      <3>2. Today' = Today
        BY <3>1 DEF Today
      <3>3. \A d \in Day \ cut' : d # Today /\ obs'[d] = obs[d]
        BY <3>1 DEF TypeOK
      <3>4. obs'[Today] = archive[Today]
        BY <2>1, <3>1 DEF TypeOK
      <3>5. QED
        BY <3>1, <3>2, <3>3, <3>4 DEF DayInv, SameVersion
    <2>4. QED
      BY <2>2, <2>3
  <1>6. CASE ProjectVulns
    <2>1. Today \in Day
      BY <1>6, TodayIsDue DEF ProjectVulns, BuilderInv
    <2>2. vulns' = [vulns EXCEPT ![Today] = CvesOf(Today)] /\ cut' = cut \ {Today} /\ UNCHANGED obs
      BY <1>6 DEF ProjectVulns
    <2>3. builder'.pc \notin {"vulns", "wipe_vulns"}
      BY <1>6 DEF ProjectVulns, TypeOK
    <2>4. obs[Today] = archive[Today]
      BY <1>6 DEF ProjectVulns, DayInv
    <2>5. ASSUME NEW d \in Day \ cut' PROVE vulns'[d] = IF obs'[d] \in WithCves THEN obs'[d] ELSE None
      <3>1. CASE d = Today
        BY <2>1, <2>2, <2>4, <3>1 DEF CvesOf, TypeOK
      <3>2. CASE d # Today
        BY <2>2, <3>2 DEF DayInv, SameVersion, TypeOK
      <3>3. QED
        BY <3>1, <3>2
    <2>6. QED
      BY <2>3, <2>5 DEF DayInv, SameVersion
  <1>7. CASE BuilderKilled
    <2>1. builder' = Idle
      BY <1>7 DEF BuilderKilled, Stop
    <2>2. builder.pc \in {"obs", "vulns"} => Today \in Day
      BY TodayIsDue DEF BuilderInv
    <2>3. CASE UNCHANGED <<obs, vulns, cut>>
      BY <2>1, <2>3 DEF Idle, DayInv, SameVersion
    <2>4. CASE builder.pc = "obs" /\ obs' = [obs EXCEPT ![Today] = Torn] /\ cut' = cut \cup {Today} /\ UNCHANGED vulns
      BY <2>1, <2>2, <2>4 DEF Idle, DayInv, SameVersion, TypeOK
    <2>5. CASE builder.pc = "vulns" /\ vulns' = [vulns EXCEPT ![Today] = Torn] /\ UNCHANGED <<obs, cut>>
      BY <2>1, <2>2, <2>5 DEF Idle, DayInv, SameVersion, TypeOK
    <2>6. ASSUME NEW left \in SUBSET Day,
                 cut' = cut \cup {d \in Day \ left : vulns[d] # None \/ obs[d] # None},
                 \/ UNCHANGED vulns /\ obs' = [d \in Day |-> IF d \in left THEN obs[d] ELSE None]
                 \/ UNCHANGED obs /\ vulns' = [d \in Day |-> IF d \in left THEN vulns[d] ELSE None]
          PROVE  DayInv'
      <3>1. \A d \in Day \ cut' : obs'[d] = obs[d] /\ vulns'[d] = vulns[d]
        BY <2>6
      <3>2. QED
        BY <2>1, <2>6, <3>1 DEF Idle, DayInv, SameVersion
    <2>7. QED
      BY <1>7, <2>3, <2>4, <2>5, <2>6 DEF BuilderKilled
  <1>8. CASE ArchiveChanges
    BY <1>8 DEF ArchiveChanges, PipelineFree, DayInv, SameVersion
  <1>9. CASE ReportArrives \/ NightlyIngest \/ UNCHANGED vars
    BY <1>9 DEF ReportArrives, NightlyIngest, vars, store, DayInv, SameVersion, Today
  <1>10. ASSUME NEW i \in Ingester, OneIngest(i) PROVE UNCHANGED store
    BY <1>10 DEF OneIngest, IngestByHand, RestoreByHand, IngestStep, TakeLock, ReadReport, AppendParquet,
                 SaveManifest, RestoreTable, MoveReport, Leave, Restore, ReportUnreadable, Unpublished, IngesterKilled, unread
  <1>11. CASE \E i \in Ingester : OneIngest(i)
    BY <1>10, <1>11 DEF store, DayInv, SameVersion, Today
  <1>12. QED
    BY <1>1, <1>2, <1>3, <1>4, <1>5, <1>6, <1>7, <1>8, <1>9, <1>11, NextCases DEF StoreStep, BuilderStep

-----------------------------------------------------------------------------
(* The invariant holds at the start and every step keeps it. *)
LEMMA Inductive == Spec => []IInv
  <1>1. Init => IInv
    <2>1. Init => LockInv /\ EventsOnce
      BY DEF Init, LockInv, EventsOnce, Off
    <2>2. QED
      BY <2>1, TypeInit, BuilderInit, ReportInit, DayInit DEF IInv
  <1>2. IInv /\ [Next]_vars => IInv'
    BY TypeStep, BuilderStepKept, LockStep, EventsOnceStep, ReportStep, DayStep DEF IInv
  <1>3. QED
    BY <1>1, <1>2, PTL DEF Spec

(* The store, the archive and the runs of the projection and of the ingest *)
(* stay what FeedState says they are (build_store.py,                      *)
(* ingest_shadowserver.py).                                                *)
THEOREM Typing == Spec => []TypeOK
  <1>1. IInv => TypeOK
    BY DEF IInv
  <1>2. QED
    BY <1>1, Inductive, PTL

(* However many runs ingest and however often they are killed, no event is *)
(* in the parquet twice (ingest_shadowserver.py append_parquet).           *)
THEOREM EachEventOnce == Spec => []EventsOnce
  <1>1. IInv => EventsOnce
    BY DEF IInv
  <1>2. QED
    BY <1>1, Inductive, PTL

(* A report that will not be read again has all its events in the parquet, *)
(* whichever step a kill falls on (ingest_shadowserver.py ingest_file).    *)
THEOREM NoReportLost == Spec => []ReportsKept
  <1>1. IInv => ReportsKept
    BY DEF IInv, ReportInv
  <1>2. QED
    BY <1>1, Inductive, PTL

(* The two partitions of a day are of one archive unless its projection    *)
(* was cut short (build_store.py copy_to_partition, run_nightly.sh).       *)
THEOREM OneVersionADay == Spec => []SameVersion
  <1>1. IInv => SameVersion
    BY DEF IInv, DayInv
  <1>2. QED
    BY <1>1, Inductive, PTL
=============================================================================
