------------------------------ MODULE DayState ------------------------------
(***************************************************************************)
(* The life of one collection day: run_nightly.sh collects it,             *)
(* backfill_missed.py looks at it on each of the next Lookback mornings    *)
(* and repairs it, both through shodan_collect.py and build_store.py run   *)
(* as child processes, under one advisory lock that the children inherit.  *)
(* This module declares the state they share; Collector, Nightly and       *)
(* Backfill hold the steps of one program each, DayPipeline puts them      *)
(* together.                                                               *)
(*                                                                         *)
(* A step is the code between two durable effects (a rename, a status      *)
(* record, a child's start or end), so a kill can fall between any two.    *)
(***************************************************************************)
EXTENDS DayFiles

CONSTANTS
    Lookback,     \* BACKFILL_LOOKBACK_DAYS
    Mishaps,      \* the kinds of trouble that may happen, a subset of MishapKind
    MaxMishaps    \* how often trouble of any kind may happen (a bound)

MishapKind == {"kill",      \* a signal or a reboot ends processes
               "api",       \* Shodan refuses, returns nothing, or too little
               "raise",     \* an OSError in the repair or in the collector
               "space",     \* a disk-space guard says no
               "status",    \* the status directory cannot be written
               "rot",       \* a copy becomes partly unreadable
               "garble",    \* the status record becomes unparseable
               "store",     \* build_store.py fails
               "missed",    \* cron does not fire
               "operator"}  \* a second nightly run, or backfill --date by hand

ASSUME LookbackAssumption == Lookback \in Nat
ASSUME MishapAssumption == Mishaps \subseteq MishapKind /\ MaxMishaps \in Nat

VARIABLES
    disk,       \* the day's files (see DayFiles)
    status,     \* status/<date>.rc
    part,       \* the records in the day's store partition
    pc,         \* where each of the two jobs is; "idle": no such process
    child,      \* where its child process is; "none": it has no child
    result,     \* the exit code of its collector, as the job holds it
    broken,     \* run_nightly.sh: bookkeeping_broken
    stored,     \* run_nightly.sh: store_rc = 0
    ping,       \* the last health-check ping of the night, "none" if silent
    repull,     \* backfill_day: action == "repull"
    prior,      \* backfill_day: prior
    fresh,      \* backfill_day: new_exists
    readers,    \* backfill_day: readers (path -> complete and rejected)
    todo,       \* backfill_day: readers not yet disposed of
    aside,      \* backfill_day: parked; _fallback_restore: bb.path
    age,        \* days since the collection day
    asked,      \* whether today's cron entry for this day has fired
    left,       \* mishaps that may still happen
    ever,       \* every record that ever reached the disk      (history)
    dim,        \* every record that some copy could not yield  (history)
    full        \* whether some collector run returned 0        (history)

files    == <<disk, status, part>>
procs    == <<pc, child, result>>
night    == <<broken, stored, ping>>
locals   == <<repull, prior, fresh, readers, todo, aside>>
clock    == <<age, asked>>
history  == <<ever, dim, full>>
vars     == <<files, procs, night, locals, clock, left, history>>

Jobs == {"nightly", "repair"}

(* What the code tells apart of an exit code or a status record: none, the *)
(* in-progress marker, unparseable, success, partial, anything else.       *)
Rc == {"absent", "-1", "-2", "0", "3", "bad"}

NightPcs == {"idle", "guard", "wait", "project", "storing", "ping"}
MergePcs == {"park", "publish", "retire", "dispose", "record"}
FallbackPcs == {"fallback", "swap", "fbrecord"}
RepairPcs == {"idle", "mark", "quarantine", "guard", "wait", "copies", "merging",
              "project", "storing", "sweep"} \cup MergePcs \cup FallbackPcs
CollectorPcs == {"api", "aside", "quarantine", "open", "fetch", "leave"}
ChildPcs == {"none", "project"} \cup CollectorPcs

Reading == [complete : BOOLEAN, rejected : BOOLEAN]

TypeOK ==
    /\ DiskOK(disk) /\ status \in Rc /\ part \subseteq Rec
    /\ pc \in [Jobs -> NightPcs \cup RepairPcs]
    /\ pc["nightly"] \in NightPcs /\ pc["repair"] \in RepairPcs
    /\ child \in [Jobs -> ChildPcs] /\ result \in [Jobs -> Rc]
    /\ broken \in BOOLEAN /\ stored \in BOOLEAN /\ ping \in {"none", "success", "fail"}
    /\ repull \in BOOLEAN /\ prior \in Rc /\ fresh \in BOOLEAN
    /\ DOMAIN readers \subseteq Path /\ \A p \in DOMAIN readers : readers[p] \in Reading
    /\ todo \subseteq DOMAIN readers /\ aside \in Path
    /\ age \in Nat /\ asked \in BOOLEAN /\ left \in Nat
    /\ ever \subseteq Rec /\ dim \subseteq Rec /\ full \in BOOLEAN

-----------------------------------------------------------------------------
(* The pipeline lock *)

Collecting(j) == child[j] \in CollectorPcs

(* Children that do not inherit the lock *)
HoldsAlone(j) == pc[j] # "idle"

(* flock belongs to the open file, which a job shares with its children:   *)
(* it is free only when the last of them has gone.                         *)
Holds(j) == pc[j] # "idle" \/ child[j] # "none"

Idle == \A j \in Jobs : ~Holds(j)

NoTrouble == UNCHANGED left

Mishap(kind) == kind \in Mishaps /\ left > 0 /\ left' = left - 1

Goto(j, label) == pc' = [pc EXCEPT ![j] = label]

-----------------------------------------------------------------------------
(* day_status that takes the in-progress marker for a clean record *)
DayStatusUnmarked ==
    IF ~On(disk, Day) \/ status \notin {"absent", "-1", "0"} THEN "repull"
    ELSE IF Backups(disk) # {} \/ On(disk, Tmp) THEN "merge"
    ELSE "ok"

(* day_status: what the morning makes of the day *)

DayStatus ==
    IF ~On(disk, Day) \/ status \notin {"absent", "0"} THEN "repull"
    ELSE IF Backups(disk) # {} \/ On(disk, Tmp) THEN "merge"
    ELSE "ok"

(* prior_rc that lets an absent record through as a clean day *)
PriorRcTrusting == IF status = "absent" THEN "0" ELSE IF status \in {"-1", "-2"} THEN "3" ELSE status

(* prior_rc *)
PriorRc == IF status \in {"absent", "-1", "-2"} THEN "3" ELSE status

(* Rename p to a fresh name with this tag *)
MoveTo(p, tag) == HasRoom(disk, tag) /\ disk' = Renamed(disk, p, FreshName(disk, tag))

(* quarantine_partial_pull, also lines 356-369 of the collector *)
QuarantineTmp == IF On(disk, Tmp) THEN MoveTo(Tmp, "partial") ELSE UNCHANGED disk

-----------------------------------------------------------------------------
Init ==
    /\ disk = [p \in {} |-> p] /\ status = "absent" /\ part = {}
    /\ pc = [j \in Jobs |-> "idle"] /\ child = [j \in Jobs |-> "none"]
    /\ result = [j \in Jobs |-> "absent"]
    /\ broken = FALSE /\ stored = TRUE /\ ping = "none"
    /\ repull = FALSE /\ prior = "absent" /\ fresh = FALSE /\ readers = [p \in {} |-> p]
    /\ todo = {} /\ aside = Day
    /\ age = 0 /\ asked = FALSE /\ left = MaxMishaps
    /\ ever = {} /\ dim = {} /\ full = FALSE
=============================================================================
