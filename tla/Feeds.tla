------------------------------- MODULE Feeds --------------------------------
(***************************************************************************)
(* The projection and the Shadowserver ingest over one store: night after  *)
(* night the one and then the other, with runs by hand at any time and     *)
(* kills.                                                                  *)
(***************************************************************************)
EXTENDS ShadowserverIngest

Next ==
    \/ NightlyBuild \/ BuildByHand \/ BuilderStep \/ BuilderKilled
    \/ NightlyIngest
    \/ \E i \in Ingester :
          IngestByHand(i) \/ RestoreByHand(i) \/ IngestStep(i) \/ ReportUnreadable(i) \/ Unpublished(i)
          \/ IngesterKilled(i)
    \/ ArchiveChanges \/ ReportArrives

(* Cron starts the nightly run, and a process that runs goes on *)
Spec == /\ Init /\ [][Next]_vars
        /\ WF_vars(NightlyBuild) /\ WF_vars(NightlyIngest) /\ WF_vars(BuilderStep)
        /\ \A i \in Ingester : WF_vars(IngestStep(i))

-----------------------------------------------------------------------------
(* The parquet holds no event twice, however often a report is taken up    *)
(* again after a kill and whoever else ingests (ingest_shadowserver.py     *)
(* existing_keys, acquire_lock).                                           *)
EventsOnce == \A e \in Event : parquet[e] <= 1

(* Every good row of a report that left incoming/, or that the manifest    *)
(* lists and so will never be read again, is in the parquet                *)
(* (ingest_shadowserver.py ingest_file, its order of steps).               *)
ReportsKept == \A f \in manifest \cup {f \in ReportFile : place[f] = "processed"} : EventsOf[f] \subseteq Held

(* Unless its projection was cut short, the observations and the CVEs of a *)
(* day are of the same archive, so that no CVE joins a record of another   *)
(* (build_store.py copy_to_partition).                                     *)
SameVersion ==
    \A d \in Day \ cut : vulns[d] = IF obs[d] \in WithCves THEN obs[d] ELSE None

(* Once nobody does anything by hand and nothing is killed, the nightly    *)
(* runs take every report out of incoming/ and the table of the store      *)
(* holds what the parquet holds, also after a rebuild took the database    *)
(* away (ingest_shadowserver.py restore_table).                            *)
EventuallyPublished == <>[](Incoming = {} /\ (db = None => Held = {}) /\ (db # None => db.table = Held))
=============================================================================
