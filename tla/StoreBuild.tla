----------------------------- MODULE StoreBuild ------------------------------
(***************************************************************************)
(* build_store.py: project archives into the partitions of their days and  *)
(* define the views over them; rebuild_store.sh: all of them, after wiping *)
(* the store.  What a row holds is left out: a partition is the version of *)
(* the archive it was made of.                                             *)
(***************************************************************************)
EXTENDS FeedState

others == <<archive, reports, phase, changes>>

Start(days, rebuild) ==
    /\ builder' = [pc |-> IF rebuild THEN "wipe_obs" ELSE "connect", todo |-> days, rebuild |-> rebuild]
    /\ UNCHANGED <<archive, obs, vulns, cut, reports, db, holder, mishaps>>

Archived == {d \in Day : archive[d] # None}

(* run_nightly.sh: the day with a file, and then the ingest, also if there *)
(* is none.  The script takes the day it collected; which of the archived  *)
(* days that is, is left open.                                             *)
NightlyBuild ==
    /\ PipelineFree /\ phase = "build" /\ phase' = "ingest" /\ UNCHANGED changes
    /\ \/ \E d \in Archived : Start({d}, FALSE)
       \/ Archived = {} /\ UNCHANGED <<store, reports, db, holder, mishaps>>

(* The morning repair, or an operator, projects a day; rebuild_store.sh *)
BuildByHand ==
    /\ PipelineFree /\ Change /\ UNCHANGED phase
    /\ \/ \E d \in Archived : Start({d}, FALSE)
       \/ Start(Archived, TRUE)

Stop == builder' = Idle /\ holder' = IF holder = "builder" THEN NoOne ELSE holder

(* --rebuild: the two trees, then the database; one who has it open keeps  *)
(* a file without a name                                                   *)
WipeObs ==
    /\ builder.pc = "wipe_obs" /\ obs' = [d \in Day |-> None] /\ cut' = cut \cup {d \in Day : vulns[d] # None}
    /\ builder' = [builder EXCEPT !.pc = "wipe_vulns"]
    /\ UNCHANGED <<others, vulns, db, holder, mishaps>>

WipeVulns ==
    /\ builder.pc = "wipe_vulns" /\ vulns' = [d \in Day |-> None] /\ cut' = {}
    /\ builder' = [builder EXCEPT !.pc = "wipe_db"]
    /\ UNCHANGED <<others, obs, db, holder, mishaps>>

Unlinked == [i \in Ingester |-> IF ing[i].con = "store" THEN [ing[i] EXCEPT !.con = "unlinked"] ELSE ing[i]]

WipeDb ==
    /\ builder.pc = "wipe_db" /\ db' = None /\ holder' = NoOne /\ ing' = Unlinked
    /\ builder' = IF builder.todo = {} THEN Idle ELSE [builder EXCEPT !.pc = "connect"]
    /\ UNCHANGED <<archive, obs, vulns, cut, place, parquet, manifest, lock, phase, mishaps, changes>>

(* duckdb.connect fails while another process has the database open *)
Connect ==
    /\ builder.pc = "connect"
    /\ \/ /\ holder = NoOne /\ holder' = "builder" /\ db' = IF db = None THEN NewDatabase ELSE db
          /\ builder' = [builder EXCEPT !.pc = "obs"]
       \/ holder # NoOne /\ Stop /\ UNCHANGED db
    /\ UNCHANGED <<others, obs, vulns, cut, mishaps>>

First(days) == CHOOSE d \in days : \A e \in days : d <= e
Today       == First(builder.todo)

(* The lines before the end of the file are projected all the same *)
ProjectObsUnread ==
    /\ builder.pc = "obs" /\ obs' = [obs EXCEPT ![Today] = archive[Today]]
    /\ builder' = [builder EXCEPT !.pc = "vulns"] /\ cut' = cut \cup {Today}
    /\ UNCHANGED <<others, vulns, db, holder, mishaps>>

(* build_day and copy_to_partition, the observations: a file that cannot   *)
(* be read to its end ends the run                                         *)
ProjectObs ==
    /\ builder.pc = "obs"
    /\ \/ /\ archive[Today] # Rotten
          /\ obs' = [obs EXCEPT ![Today] = archive[Today]] /\ cut' = cut \cup {Today}
          /\ builder' = [builder EXCEPT !.pc = "vulns"] /\ UNCHANGED holder
       \/ archive[Today] = Rotten /\ Stop /\ UNCHANGED <<obs, cut>>
    /\ UNCHANGED <<others, vulns, db, mishaps>>

(* A day without CVEs leaves the partition of before *)
CvesWritten(d) == IF archive[d] \in WithCves THEN archive[d] ELSE vulns[d]

(* A day without CVEs has no partition *)
CvesOf(d) == IF archive[d] \in WithCves THEN archive[d] ELSE None

(* copy_to_partition, the CVEs; then the next day *)
ProjectVulns ==
    /\ builder.pc = "vulns" /\ vulns' = [vulns EXCEPT ![Today] = CvesOf(Today)]
    /\ builder' = [builder EXCEPT !.todo = @ \ {Today}, !.pc = IF builder.todo = {Today} THEN "views" ELSE "obs"]
    /\ cut' = cut \ {Today}
    /\ UNCHANGED <<others, obs, db, holder, mishaps>>

(* refresh_views: no view over a partition that is no parquet *)
RefreshViews ==
    /\ builder.pc = "views" /\ Stop
    /\ db' = IF \E d \in Day : Torn \in {obs[d], vulns[d]} THEN db
             ELSE [db EXCEPT !.views = TRUE, !.cves = \E d \in Day : vulns[d] # None]
    /\ UNCHANGED <<others, obs, vulns, cut, mishaps>>

(* A kill; in the middle of a partition, its file may be no parquet, and   *)
(* in the middle of a tree, some days are gone                             *)
BuilderKilled ==
    /\ builder.pc # "idle" /\ Mishap /\ Stop
    /\ \/ UNCHANGED <<obs, vulns, cut>>
       \/ builder.pc = "obs" /\ obs' = [obs EXCEPT ![Today] = Torn] /\ cut' = cut \cup {Today} /\ UNCHANGED vulns
       \/ builder.pc = "vulns" /\ vulns' = [vulns EXCEPT ![Today] = Torn] /\ UNCHANGED <<obs, cut>>
       \/ \E left \in SUBSET Day :
             /\ cut' = cut \cup {d \in Day \ left : vulns[d] # None \/ obs[d] # None}
             /\ \/ builder.pc = "wipe_obs" /\ UNCHANGED vulns
                   /\ obs' = [d \in Day |-> IF d \in left THEN obs[d] ELSE None]
                \/ builder.pc = "wipe_vulns" /\ UNCHANGED obs
                   /\ vulns' = [d \in Day |-> IF d \in left THEN vulns[d] ELSE None]
    /\ UNCHANGED <<others, db>>

BuilderStep ==
    WipeObs \/ WipeVulns \/ WipeDb \/ Connect \/ ProjectObs \/ ProjectVulns \/ RefreshViews
=============================================================================
