------------------------------ MODULE Backfill ------------------------------
(***************************************************************************)
(* backfill_missed.py for one of the days it inspects: judge the day,      *)
(* re-pull it, merge every copy, publish, retire the copies, and the       *)
(* rename-only fallback when a merge cannot run.                           *)
(***************************************************************************)
EXTENDS DayState

Step(here, next) == pc["repair"] = here /\ Goto("repair", next)

EmptyCut == [good |-> {}, dark |-> {}, ending |-> "cut"]

(* What the process leaves behind in memory when it ends *)
Forget ==
    /\ result' = [result EXCEPT !["repair"] = "absent"]
    /\ repull' = FALSE /\ prior' = "absent" /\ fresh' = FALSE
    /\ readers' = [p \in {} |-> p] /\ todo' = {} /\ aside' = Day

(* backfill_day up to the marker: the prior rc is read first *)
Begin(pull) ==
    /\ repull' = pull /\ prior' = PriorRc
    /\ Step("idle", "mark")

(* The 06:00 run takes the lock and inspects the day, if it looks back     *)
(* that far.                                                               *)
MorningStart ==
    /\ Idle /\ age > 0 /\ ~asked /\ asked' = TRUE
    /\ IF age <= Lookback /\ DayStatus # "ok"
       THEN Begin(DayStatus = "repull")
       ELSE Step("idle", "sweep") /\ UNCHANGED <<repull, prior>>
    /\ NoTrouble
    /\ UNCHANGED <<files, child, result, night, fresh, readers, todo, aside, age, history>>

(* backfill_missed.py --date, by hand: always a re-pull *)
RepairByHand ==
    /\ Idle /\ Mishap("operator") /\ Begin(TRUE)
    /\ UNCHANGED <<files, child, result, night, fresh, readers, todo, aside, clock, history>>

(* write_rc(iso, RC_RUNNING) *)
RepairMark ==
    /\ Step("mark", "quarantine") /\ status' = "-1"
    /\ NoTrouble
    /\ UNCHANGED <<disk, part, child, result, night, locals, clock, history>>

onlyDisk == <<status, part, child, result, night, clock, history>>

(* quarantine_partial_pull, before the collector can truncate the file *)
RepairQuarantine ==
    /\ Step("quarantine", "guard") /\ QuarantineTmp
    /\ NoTrouble /\ UNCHANGED <<onlyDisk, locals>>

(* The first space guard passes: re-pull, or go straight to the merge *)
RepairGuard ==
    /\ IF repull
       THEN Step("guard", "wait") /\ child' = [child EXCEPT !["repair"] = "api"]
       ELSE Step("guard", "copies") /\ UNCHANGED child
    /\ NoTrouble /\ UNCHANGED <<files, result, night, locals, clock, history>>

(* Either space guard fails (the second only when there is a copy) *)
RepairNoSpace ==
    /\ Mishap("space")
    /\ Step("guard", "fallback") \/ (Copies(disk) # {} /\ Step("copies", "fallback"))
    /\ UNCHANGED <<files, child, result, night, locals, clock, history>>

(* The collector has ended; without a new file the day stands as before *)
RepairCollected ==
    /\ child["repair"] = "none" /\ Step("wait", "copies")
    /\ fresh' = On(disk, Day)
    /\ IF On(disk, Day) THEN UNCHANGED disk ELSE QuarantineTmp
    /\ NoTrouble /\ UNCHANGED <<onlyDisk, repull, prior, readers, todo, aside>>

(* Nothing to merge: the day is still missing *)
RepairNothing ==
    /\ Copies(disk) = {} /\ Step("copies", "sweep") /\ status' = "3"
    /\ NoTrouble /\ UNCHANGED <<disk, part, child, result, night, locals, clock, history>>

(* gzip.open(tmp_dest, "wt") *)
RepairMergeOpen ==
    /\ Copies(disk) # {} /\ Step("copies", "merging")
    /\ disk' = Written(disk, Merge, EmptyCut)
    /\ NoTrouble /\ UNCHANGED <<onlyDisk, locals>>

(* merge_copies: read every copy to its end, write the union *)
RepairMerge ==
    /\ MergedFile(disk).good # {} /\ Step("merging", "park")
    /\ disk' = Written(disk, Merge, MergedFile(disk))
    /\ readers' = [p \in Copies(disk) |->
                     [complete |-> Complete(disk, p), rejected |-> Rejects(disk, p)]]
    /\ todo' = {}
    /\ NoTrouble /\ UNCHANGED <<onlyDisk, repull, prior, fresh, aside>>

(* A merge of nothing readable is thrown away *)
RepairMergeEmpty ==
    /\ MergedFile(disk).good = {} /\ Step("merging", "fallback")
    /\ disk' = Removed(disk, Merge)
    /\ NoTrouble /\ UNCHANGED <<onlyDisk, locals>>

(* Only a canonical file not read to its end *)
CanonUnread == Day \in DOMAIN readers /\ ~readers[Day].complete

(* The canonical file not read to its end, or with rejected lines *)
CanonUnsafe == Day \in DOMAIN readers /\ (~readers[Day].complete \/ readers[Day].rejected)

(* Keep the canonical file's bytes under a name the merge would find *)
RepairPark ==
    /\ Step("park", "publish")
    /\ IF CanonUnsafe
       THEN MoveTo(Day, "backup") /\ aside' = FreshName(disk, "backup")
       ELSE UNCHANGED disk /\ aside' = Day
    /\ NoTrouble /\ UNCHANGED <<onlyDisk, repull, prior, fresh, readers, todo>>

(* os.replace(tmp, path) *)
RepairPublish ==
    /\ Step("publish", "retire") /\ disk' = Renamed(disk, Merge, Day)
    /\ todo' = DOMAIN readers \ {Day}
    /\ NoTrouble /\ UNCHANGED <<onlyDisk, repull, prior, fresh, readers, aside>>

(* Only now does a parked canonical file with rejected lines leave the     *)
(* merge set.                                                              *)
RepairRetire ==
    /\ Step("retire", "dispose")
    /\ IF aside # Day /\ readers[Day].complete /\ readers[Day].rejected
       THEN MoveTo(aside, "rejected")
       ELSE UNCHANGED disk
    /\ aside' = Day
    /\ NoTrouble /\ UNCHANGED <<onlyDisk, repull, prior, fresh, readers, todo>>

(* Every copy read to its end deleted *)
DisposeAll(p) == IF readers[p].complete THEN disk' = Removed(disk, p) ELSE UNCHANGED disk

(* What becomes of a merged backup *)
Dispose(p) ==
    CASE ~readers[p].complete -> UNCHANGED disk
      [] readers[p].complete /\ p[1] = "partial" -> MoveTo(p, "salvaged")
      [] readers[p].complete /\ p[1] # "partial" /\ ~readers[p].rejected ->
            disk' = Removed(disk, p)
      [] OTHER -> MoveTo(p, "rejected")

RepairDispose ==
    /\ Step("dispose", "dispose")
    /\ \E p \in todo : Dispose(p) /\ todo' = todo \ {p}
    /\ NoTrouble /\ UNCHANGED <<onlyDisk, repull, prior, fresh, readers, aside>>

RepairDisposed ==
    /\ todo = {} /\ Step("dispose", "record")
    /\ NoTrouble /\ UNCHANGED <<disk, onlyDisk, locals>>

(* The collector's exit code if it left a file, else the prior rc *)
PullRc == IF repull /\ fresh THEN result["repair"] ELSE prior

(* The day's rc: 3 if a copy was not read to its end or no code is usable *)
FinalRc ==
    IF (\E p \in DOMAIN readers : ~readers[p].complete) \/ PullRc \in {"-1", "-2"}
    THEN "3" ELSE PullRc

RepairRecord ==
    /\ Step("record", "project") /\ status' = FinalRc
    /\ NoTrouble /\ UNCHANGED <<disk, part, child, result, night, locals, clock, history>>

(* project(iso): build_store.py --date as a child; its failure is logged *)
RepairProject ==
    /\ Step("project", "storing") /\ child' = [child EXCEPT !["repair"] = "project"]
    /\ NoTrouble /\ UNCHANGED <<files, result, night, locals, clock, history>>

RepairProjected ==
    /\ child["repair"] = "none" /\ Step("storing", "sweep")
    /\ NoTrouble /\ UNCHANGED <<files, child, result, night, locals, clock, history>>

-----------------------------------------------------------------------------
(* _fallback_restore *)

(* A fallback that only ever compares two files *)
FallbackCompare ==
    /\ Step("fallback", "fbrecord") /\ UNCHANGED <<disk, aside>>
    /\ NoTrouble /\ UNCHANGED <<onlyDisk, repull, prior, fresh, readers, todo>>

(* No day file: the best backup takes its place.  A smaller day file:      *)
(* rename it aside first.                                                  *)
FallbackRename ==
    /\ pc["repair"] = "fallback"
    /\ LET best == BestBackups(disk)
       IN  \/ /\ ~On(disk, Day) /\ Goto("repair", "fbrecord")
              /\ IF best = {} THEN UNCHANGED disk
                 ELSE \E b \in best : disk' = Renamed(disk, b, Day)
              /\ UNCHANGED aside
           \/ /\ On(disk, Day) /\ Goto("repair", "swap")
              /\ \E b \in best :
                    /\ Cardinality(disk[b].good) > Cardinality(disk[Day].good)
                    /\ MoveTo(Day, "backup") /\ aside' = b
           \/ /\ On(disk, Day) /\ Goto("repair", "fbrecord")
              /\ \A b \in best : Cardinality(disk[b].good) <= Cardinality(disk[Day].good)
              /\ UNCHANGED <<disk, aside>>
    /\ NoTrouble /\ UNCHANGED <<onlyDisk, repull, prior, fresh, readers, todo>>

FallbackSwap ==
    /\ Step("swap", "fbrecord") /\ disk' = Renamed(disk, aside, Day) /\ aside' = Day
    /\ NoTrouble /\ UNCHANGED <<onlyDisk, repull, prior, fresh, readers, todo>>

(* write_rc(iso, 3), then project whatever stands *)
FallbackRecord ==
    /\ Step("fbrecord", IF On(disk, Day) THEN "project" ELSE "sweep") /\ status' = "3"
    /\ NoTrouble /\ UNCHANGED <<disk, part, child, result, night, locals, clock, history>>

(* An OSError anywhere in the repair ends in the fallback; merge_copies    *)
(* removes its output first.                                               *)
RepairRaises ==
    /\ pc["repair"] \in {"mark", "quarantine", "guard", "copies", "merging", "project"} \cup MergePcs
    /\ Goto("repair", "fallback") /\ Mishap("raise")
    /\ disk' = IF pc["repair"] = "merging" THEN Removed(disk, Merge) ELSE disk
    /\ UNCHANGED <<onlyDisk, locals>>

(* ... and one in the fallback ends the day's repair, or starts the        *)
(* fallback over when backfill_day had called it.                          *)
FallbackRaises ==
    /\ pc["repair"] \in FallbackPcs /\ Mishap("raise")
    /\ \E next \in {"fallback", "sweep"} : Goto("repair", next)
    /\ UNCHANGED <<disk, onlyDisk, locals>>

-----------------------------------------------------------------------------
(* sweep_tmp: leftovers old enough go; a download is quarantined, a merge  *)
(* output deleted.  How old a leftover is, is left open.                   *)
SweepTo(d) ==
    \E old \in SUBSET ({Tmp, Merge} \cap DOMAIN disk) :
        LET rest == [p \in DOMAIN disk \ (old \cap {Merge}) |-> disk[p]]
        IN  IF Tmp \in old
            THEN HasRoom(disk, "partial") /\ d = Renamed(rest, Tmp, FreshName(disk, "partial"))
            ELSE d = rest

RepairSweep ==
    /\ Step("sweep", "idle") /\ SweepTo(disk') /\ Forget
    /\ NoTrouble /\ UNCHANGED <<status, part, child, night, clock, history>>

Repair ==
    \/ MorningStart \/ RepairMark \/ RepairQuarantine \/ RepairGuard \/ RepairCollected
    \/ RepairNothing \/ RepairMergeOpen \/ RepairMerge \/ RepairMergeEmpty \/ RepairPark
    \/ RepairPublish \/ RepairRetire \/ RepairDispose \/ RepairDisposed \/ RepairRecord
    \/ RepairProject \/ RepairProjected \/ FallbackRename \/ FallbackSwap \/ FallbackRecord
    \/ RepairSweep

RepairTrouble == RepairByHand \/ RepairNoSpace \/ RepairRaises \/ FallbackRaises
=============================================================================
