------------------------- MODULE ShadowserverIngest -------------------------
(***************************************************************************)
(* ingest_shadowserver.py ingest: every report below incoming/ goes into   *)
(* events.parquet, into manifest.json, into the table of the store, and    *)
(* then to processed/, one step after the other under one lock.  Rows in   *)
(* quarantine are left out; a report is what its good rows say.            *)
(***************************************************************************)
EXTENDS StoreBuild

unread == <<store, phase, mishaps, changes>>

To(i, pc) == [ing EXCEPT ![i].pc = pc]

(* _open_store: without the database the run goes on *)
Opened(i, pc) ==
    IF holder = NoOne
    THEN /\ holder' = i /\ db' = IF db = None THEN NewDatabase ELSE db
         /\ ing' = [ing EXCEPT ![i] = [Off EXCEPT !.pc = pc, !.con = "store"]]
    ELSE ing' = [ing EXCEPT ![i] = [Off EXCEPT !.pc = pc]] /\ UNCHANGED <<holder, db>>

(* The nightly run ingests after it has built *)
NightlyIngest ==
    /\ PipelineFree /\ phase = "ingest" /\ phase' = "build" /\ Opened(Nightly, "lock")
    /\ UNCHANGED <<store, place, parquet, manifest, lock, mishaps, changes>>

IngestByHand(i) ==
    /\ i # Nightly /\ ing[i].pc = "off" /\ Change /\ Opened(i, "lock")
    /\ UNCHANGED <<store, place, parquet, manifest, lock, phase, mishaps>>

(* The subcommand restore, as after a rebuild: the table alone, no lock *)
RestoreByHand(i) ==
    /\ i # Nightly /\ ing[i].pc = "off" /\ Change /\ Opened(i, "restore")
    /\ UNCHANGED <<store, place, parquet, manifest, lock, phase, mishaps>>

Closed(i) == holder' = (IF ing[i].con = "store" THEN NoOne ELSE holder) /\ ing' = [ing EXCEPT ![i] = Off]

Incoming == {f \in ReportFile : place[f] = "incoming"}

(* Without a lock, as of a run that only warns *)
TakeLockAnyway(i) ==
    /\ ing[i].pc = "lock" /\ lock' = i
    /\ ing' = [ing EXCEPT ![i].pc = "next", ![i].todo = Incoming]
    /\ UNCHANGED <<unread, place, parquet, manifest, db, holder>>

(* acquire_lock: list the files, or leave with 3 *)
TakeLock(i) ==
    /\ ing[i].pc = "lock"
    /\ \/ /\ lock = NoOne /\ lock' = i /\ UNCHANGED holder
          /\ ing' = [ing EXCEPT ![i].pc = "next", ![i].todo = Incoming]
       \/ lock # NoOne /\ Closed(i) /\ UNCHANGED lock
    /\ UNCHANGED <<unread, place, parquet, manifest, db>>

(* parse_report: the rows that can be read, the others are quarantined *)
ParseReport(f) == EventsOf[f]

(* ingest_file: a report the manifest lists is a duplicate; of the others, *)
(* the events the parquet has not                                          *)
ReadReport(i) ==
    /\ ing[i].pc = "next"
    /\ \E f \in ing[i].todo :
          LET new == ParseReport(f) \ Held IN
          ing' = [ing EXCEPT ![i].file = f, ![i].todo = @ \ {f},
                             ![i].new = IF f \in manifest THEN {} ELSE new,
                             ![i].pc = IF f \in manifest THEN "publish"
                                       ELSE IF new = {} THEN "record" ELSE "append"]
    /\ UNCHANGED <<unread, place, parquet, manifest, lock, db, holder>>

(* A report that cannot be read is left in place *)
ReportUnreadable(i) ==
    /\ ing[i].pc = "next" /\ Mishap
    /\ \E f \in ing[i].todo : ing' = [ing EXCEPT ![i].todo = @ \ {f}]
    /\ UNCHANGED <<store, phase, changes, place, parquet, manifest, lock, db, holder>>

(* The new events alone *)
AppendNewOnly(i) ==
    /\ ing[i].pc = "append" /\ ing' = To(i, "record")
    /\ parquet' = [e \in Event |-> IF e \in ing[i].new THEN 1 ELSE 0]
    /\ UNCHANGED <<unread, place, manifest, lock, db, holder>>

(* append_parquet: the old events and the new, in a new file, renamed *)
AppendParquet(i) ==
    /\ ing[i].pc = "append" /\ ing' = To(i, "record")
    /\ parquet' = [e \in Event |-> parquet[e] + IF e \in ing[i].new THEN 1 ELSE 0]
    /\ UNCHANGED <<unread, place, manifest, lock, db, holder>>

(* The manifest as it was read with the report *)
SaveManifest(i) ==
    /\ ing[i].pc = "record" /\ ing' = To(i, "publish") /\ manifest' = manifest \cup {ing[i].file}
    /\ UNCHANGED <<unread, place, parquet, lock, db, holder>>

(* restore_table, into the database the process has open *)
Published(i) == db' = IF ing[i].con = "store" THEN [db EXCEPT !.table = Held] ELSE db

(* Without the database the report stays in incoming/ *)
RestoreTable(i) ==
    /\ ing[i].pc = "publish" /\ Published(i)
    /\ ing' = To(i, IF ing[i].con = "none" THEN "next" ELSE "move")
    /\ UNCHANGED <<unread, place, parquet, manifest, lock, holder>>

MoveReport(i) ==
    /\ ing[i].pc = "move" /\ place' = [place EXCEPT ![ing[i].file] = "processed"] /\ ing' = To(i, "next")
    /\ UNCHANGED <<unread, parquet, manifest, lock, db, holder>>

(* Without a new table at the end *)
LeaveAtOnce(i) ==
    /\ ing[i].pc = "next" /\ ing[i].todo = {} /\ Closed(i) /\ lock' = NoOne
    /\ UNCHANGED <<unread, place, parquet, manifest, db>>

(* ingest_dir: the table once more, and out *)
Leave(i) ==
    /\ ing[i].pc = "next" /\ ing[i].todo = {} /\ Published(i) /\ Closed(i) /\ lock' = NoOne
    /\ UNCHANGED <<unread, place, parquet, manifest>>

Restore(i) ==
    /\ ing[i].pc = "restore" /\ Published(i) /\ Closed(i)
    /\ UNCHANGED <<unread, place, parquet, manifest, lock>>

(* restore_table fails in an open database (it is full, for one): the      *)
(* table stays as it was, the report in incoming/, and the run goes on     *)
Unpublished(i) ==
    /\ ing[i].con = "store" /\ Mishap
    /\ \/ ing[i].pc = "publish" /\ ing' = To(i, "next") /\ UNCHANGED <<lock, holder>>
       \/ ing[i].pc = "next" /\ ing[i].todo = {} /\ Closed(i) /\ lock' = NoOne
       \/ ing[i].pc = "restore" /\ Closed(i) /\ UNCHANGED lock
    /\ UNCHANGED <<store, phase, changes, place, parquet, manifest, db>>

IngesterKilled(i) ==
    /\ ing[i].pc # "off" /\ Mishap /\ Closed(i) /\ lock' = (IF lock = i THEN NoOne ELSE lock)
    /\ UNCHANGED <<store, phase, changes, place, parquet, manifest, db>>

IngestStep(i) ==
    \/ TakeLock(i) \/ ReadReport(i) \/ AppendParquet(i) \/ SaveManifest(i)
    \/ RestoreTable(i) \/ MoveReport(i) \/ Leave(i) \/ Restore(i)
=============================================================================
