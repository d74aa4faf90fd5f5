----------------------------- MODULE Collector -----------------------------
(***************************************************************************)
(* What shodan_collect.py does to the day's files, as the child process of *)
(* job j, and build_store.py --date as the other child a job may start.    *)
(* How pages and shards are fetched is not here: a fetch yields records    *)
(* one by one and ends with some exit code.                                *)
(***************************************************************************)
EXTENDS DayState

ChildAt(j, here, next) == child[j] = here /\ child' = [child EXCEPT ![j] = next]

(* The child ends: a living parent gets its exit code, the lock it         *)
(* inherited goes with it.                                                 *)
Exit(j, code) ==
    /\ child' = [child EXCEPT ![j] = "none"]
    /\ result' = [result EXCEPT ![j] = IF pc[j] = "wait" THEN code ELSE @]

onlyFiles == <<status, part, pc, result, night, locals, clock>>

(* api.info() answers *)
CollectStart(j) ==
    /\ ChildAt(j, "api", "aside")
    /\ NoTrouble /\ UNCHANGED <<disk, onlyFiles, history>>

(* ... or does not: return 1 before any file is touched *)
CollectRefused(j) ==
    /\ child[j] = "api" /\ Exit(j, "bad") /\ Mishap("api")
    /\ UNCHANGED <<files, pc, night, locals, clock, history>>

(* A file of the day exists already: move it aside *)
CollectAside(j) ==
    /\ ChildAt(j, "aside", "quarantine")
    /\ IF On(disk, Day) THEN MoveTo(Day, "backup") ELSE UNCHANGED disk
    /\ NoTrouble /\ UNCHANGED <<onlyFiles, history>>

(* A .tmp is there: rename it, never truncate it *)
CollectQuarantine(j) ==
    /\ ChildAt(j, "quarantine", "open")
    /\ QuarantineTmp
    /\ NoTrouble /\ UNCHANGED <<onlyFiles, history>>

(* gzip.open(tmp_path, "wt"); until it is closed the file is a cut-off one *)
CollectOpen(j) ==
    /\ ChildAt(j, "open", "fetch")
    /\ disk' = Written(disk, Tmp, [good |-> {}, dark |-> {}, ending |-> "cut"])
    /\ NoTrouble /\ UNCHANGED <<onlyFiles, history>>

(* One more record, not seen before in this run, reaches the disk *)
CollectRecord(j) ==
    /\ ChildAt(j, "fetch", "fetch")
    /\ \E r \in Rec \ disk[Tmp].good :
          /\ disk' = [disk EXCEPT ![Tmp].good = @ \cup {r}]
          /\ ever' = ever \cup {r}
    /\ NoTrouble /\ UNCHANGED <<onlyFiles, dim, full>>

(* An exception closes the file and leaves it there; on a full disk the    *)
(* closing fails too.                                                      *)
CollectRaises(j) ==
    /\ child[j] = "fetch" /\ Exit(j, "bad") /\ Mishap("raise")
    /\ \E ending \in {"whole", "cut"} : disk' = [disk EXCEPT ![Tmp].ending = ending]
    /\ UNCHANGED <<status, part, pc, night, locals, clock, history>>

(* total_saved <= 0: remove the empty download, return 2 *)
CollectNothing(j) ==
    /\ child[j] = "fetch" /\ disk[Tmp].good = {} /\ Exit(j, "bad") /\ Mishap("api")
    /\ disk' = Removed(disk, Tmp)
    /\ UNCHANGED <<status, part, pc, night, locals, clock, history>>

(* The download is closed and renamed to the day's name *)
CollectPublish(j) ==
    /\ ChildAt(j, "fetch", "leave")
    /\ disk[Tmp].good # {}
    /\ disk' = Renamed([disk EXCEPT ![Tmp].ending = "whole"], Tmp, Day)
    /\ NoTrouble /\ UNCHANGED <<onlyFiles, history>>

(* The exit code after publishing: suspect 4, incomplete 3, else 0 *)
CollectEnd(j) ==
    /\ child[j] = "leave"
    /\ \/ Exit(j, "0") /\ full' = TRUE /\ NoTrouble
       \/ \E code \in {"3", "bad"} : Exit(j, code) /\ Mishap("api") /\ UNCHANGED full
    /\ UNCHANGED <<files, pc, night, locals, clock, ever, dim>>

Collect(j) ==
    \/ CollectStart(j) \/ CollectAside(j) \/ CollectQuarantine(j) \/ CollectOpen(j)
    \/ CollectRecord(j) \/ CollectPublish(j) \/ CollectEnd(j)

CollectTrouble(j) == CollectRefused(j) \/ CollectRaises(j) \/ CollectNothing(j)

-----------------------------------------------------------------------------
(* build_store.py --date: the partition becomes the records it reads.  It  *)
(* fails on a file it cannot read to the end and may fail on one with      *)
(* lines that are not banners; both leave the partition as it was.         *)

Projectable == On(disk, Day) /\ disk[Day].ending # "rotten"

Report(j, ok) == stored' = IF j = "nightly" /\ pc[j] = "storing" THEN ok ELSE stored

onlyStore == <<disk, status, pc, result, broken, ping, locals, clock, history>>

StoreProject(j) ==
    /\ ChildAt(j, "project", "none") /\ Projectable
    /\ part' = disk[Day].good /\ Report(j, TRUE)
    /\ NoTrouble /\ UNCHANGED onlyStore

StoreRefuses(j) ==
    /\ ChildAt(j, "project", "none")
    /\ ~On(disk, Day) \/ disk[Day].ending # "whole"
    /\ part' = part /\ Report(j, FALSE)
    /\ NoTrouble /\ UNCHANGED onlyStore

(* It may also fail on a good file, before or after writing the partition *)
StoreFails(j) ==
    /\ ChildAt(j, "project", "none") /\ Mishap("store")
    /\ part' \in {part} \cup (IF Projectable THEN {disk[Day].good} ELSE {})
    /\ Report(j, FALSE)
    /\ UNCHANGED onlyStore
=============================================================================
