---------------------------- MODULE DayPipeline ----------------------------
(***************************************************************************)
(* One collection day under the nightly job, the morning repair, their     *)
(* children, cron, an operator and the usual accidents.                    *)
(***************************************************************************)
EXTENDS Collector, Nightly, Backfill

(* The memory of these jobs is gone *)
Ended(jobs) ==
    /\ pc' = [j \in Jobs |-> IF j \in jobs THEN "idle" ELSE pc[j]]
    /\ result' = [j \in Jobs |-> IF j \in jobs THEN "absent" ELSE result[j]]
    /\ IF "nightly" \in jobs THEN broken' = FALSE /\ stored' = TRUE
       ELSE UNCHANGED <<broken, stored>>
    /\ IF "repair" \in jobs
       THEN /\ repull' = FALSE /\ prior' = "absent" /\ fresh' = FALSE
            /\ readers' = [p \in {} |-> p] /\ todo' = {} /\ aside' = Day
       ELSE UNCHANGED locals

(* A job is killed; a child it started lives on and keeps the lock *)
KillJob(j) ==
    /\ pc[j] # "idle" /\ Ended({j}) /\ Mishap("kill")
    /\ UNCHANGED <<files, child, ping, clock, history>>

(* A child is killed; subprocess reports minus the signal, the shell 128   *)
(* plus it.                                                                *)
KillChild(j) ==
    /\ child[j] # "none" /\ Mishap("kill")
    /\ IF Collecting(j)
       THEN /\ \E code \in {"bad"} \cup (IF j = "repair" THEN {"-1", "-2"} ELSE {}) : Exit(j, code)
            /\ UNCHANGED stored
       ELSE Exit(j, "bad") /\ Report(j, FALSE)
    /\ UNCHANGED <<files, pc, broken, ping, locals, clock, history>>

Reboot ==
    /\ ~Idle /\ Ended(Jobs) /\ child' = [j \in Jobs |-> "none"] /\ Mishap("kill")
    /\ UNCHANGED <<files, ping, clock, history>>

(* A copy becomes unreadable in part: a read ends in an error, or skips    *)
(* lines.                                                                  *)
Rot ==
    /\ Mishap("rot")
    /\ \E p \in Copies(disk), ending \in {"rotten", "ragged"} :
       \E S \in SUBSET disk[p].good \ {{}} :
          /\ disk[p].ending # "rotten"
          /\ disk' = [disk EXCEPT ![p] = [good |-> @.good \ S, dark |-> @.dark \cup S,
                                          ending |-> ending]]
          /\ dim' = dim \cup S
    /\ UNCHANGED <<status, part, procs, night, locals, clock, ever, full>>

Garble ==
    /\ Mishap("garble") /\ status # "absent" /\ status' = "-2"
    /\ UNCHANGED <<disk, part, procs, night, locals, clock, history>>

-----------------------------------------------------------------------------
(* Cron: one entry a day concerns this day, the nightly run on day 0, the  *)
(* repair on every later one.                                              *)

(* It fires while the pipeline lock is held, and exits *)
CronLocked ==
    /\ ~Idle /\ ~asked /\ asked' = TRUE
    /\ NoTrouble /\ UNCHANGED <<files, procs, night, locals, age, history>>

(* The box is off *)
CronMissed ==
    /\ ~asked /\ asked' = TRUE /\ Mishap("missed")
    /\ UNCHANGED <<files, procs, night, locals, age, history>>

(* The next day; the clock stops once the day is out of the repair's sight *)
NextDay ==
    /\ asked /\ age <= Lookback /\ age' = age + 1 /\ asked' = FALSE
    /\ NoTrouble /\ UNCHANGED <<files, procs, night, locals, history>>

Forgotten == age > Lookback /\ asked /\ Idle /\ UNCHANGED vars

Working ==
    \/ Night \/ Repair \/ CronLocked \/ NextDay
    \/ \E j \in Jobs : Collect(j) \/ StoreProject(j) \/ StoreRefuses(j)

Trouble ==
    \/ NightTrouble \/ RepairTrouble \/ Reboot \/ Rot \/ Garble \/ CronMissed
    \/ \E j \in Jobs : CollectTrouble(j) \/ StoreFails(j) \/ KillJob(j) \/ KillChild(j)

Next == Working \/ Trouble \/ Forgotten

Spec == Init /\ [][Next]_vars

(* Every job and child runs on unless killed, cron fires and days pass;    *)
(* and no job is still running when the next day's entry fires (the        *)
(* nightly run starts at 23:30, the repair at 06:00).                      *)
Prompt == (age' # age \/ asked' # asked) => Idle

PromptSpec == Init /\ [][Next /\ Prompt]_vars /\ WF_vars(Working /\ Prompt)

-----------------------------------------------------------------------------
(* Safety *)

(* No record that ever reached the disk disappears: not through a killed   *)
(* run, a re-pull over an old file, a merge of unreadable copies, a        *)
(* fallback, or the sweep.                                                 *)
NothingLost == ever \subseteq Saved(disk)

(* One process at a time works on the day's files: both jobs are never     *)
(* active together, an orphaned collector keeps every job out, and a job   *)
(* with a live collector does nothing but wait for it.                     *)
OneWriter ==
    /\ \A j, k \in Jobs : j # k => ~(Holds(j) /\ Holds(k))
    /\ \A j \in Jobs : Collecting(j) => pc[j] \in {"idle", "wait"}

(* A day nobody will look at again holds every record that any run ever    *)
(* wrote for it, except those a copy could not yield, and is recorded as   *)
(* clean only if some collector run really was.                            *)
Settled == Idle /\ DayStatus = "ok"

CleanMeansWhole ==
    Settled => /\ ever \ dim \subseteq Bytes(disk[Day])
               /\ status = "0" => full

-----------------------------------------------------------------------------
(* Why NothingLost and OneWriter hold: the inductive invariant *)

(* The lock: one job at a time, its child alone or waited for *)
LockInv ==
    /\ \A j, k \in Jobs : j # k => ~(Holds(j) /\ Holds(k))
    /\ \A j \in Jobs : Collecting(j) => pc[j] \in {"idle", "wait"}
    /\ \A j \in Jobs : child[j] = "project" => pc[j] \in {"idle", "storing"}

(* Bytes no reader yields show in how the read ends *)
Sound == \A p \in DOMAIN disk : disk[p].ending \in {"whole", "cut"} => disk[p].dark = {}

(* A collector works on a free name: the old file is aside before the      *)
(* download is opened, an old download is quarantined before that.         *)
PullInv ==
    \A j \in Jobs :
        /\ child[j] \in {"quarantine", "open", "fetch"} => ~On(disk, Day)
        /\ child[j] = "open" => ~On(disk, Tmp)
        /\ child[j] = "fetch" => On(disk, Tmp) /\ disk[Tmp].ending = "cut"

(* p is merged in full: all its bytes are in q *)
Carried(p, q) ==
    readers[p].complete /\ ~readers[p].rejected /\ On(disk, p) => Bytes(disk[p]) \subseteq Bytes(disk[q])

(* Between the merge and the disposal of its sources the merged file holds *)
(* whatever may be deleted or written over.                                *)
MergeInv ==
    /\ pc["repair"] \in MergePcs =>
          /\ \A p \in DOMAIN readers : p = Day \/ p[1] \in MergeTags
          /\ todo \subseteq DOMAIN readers \ {Day}
    /\ pc["repair"] = "park" =>
          /\ On(disk, Merge) /\ DOMAIN readers = Copies(disk)
          /\ \A p \in DOMAIN readers : Carried(p, Merge)
    /\ pc["repair"] = "publish" =>
          /\ On(disk, Merge)
          /\ On(disk, Day) => Bytes(disk[Day]) \subseteq Bytes(disk[Merge])
          /\ \A p \in DOMAIN readers \ {Day} : On(disk, p) /\ Carried(p, Merge)
    /\ pc["repair"] \in {"publish", "retire"} /\ aside # Day =>
          On(disk, aside) /\ aside[1] = "backup" /\ aside \notin DOMAIN readers
    /\ pc["repair"] \in {"retire", "dispose"} =>
          On(disk, Day) /\ \A p \in todo : On(disk, p) /\ Carried(p, Day)
    /\ pc["repair"] = "swap" => On(disk, aside) /\ aside[1] = "backup" /\ ~On(disk, Day)

IInv == TypeOK /\ LockInv /\ Sound /\ PullInv /\ MergeInv /\ NothingLost

-----------------------------------------------------------------------------
(* Why CleanMeansWhole, GreenNight, NoStrandedDay and the archive hold     *)

(* Every record is one that arrived; those that arrived can be read from   *)
(* the copies a merge reads, unless some copy could not yield them.        *)
HistoryInv ==
    /\ Saved(disk) \subseteq ever
    /\ ever \ dim \subseteq Yielded(disk)
    /\ \A p \in DOMAIN disk : disk[p].dark \subseteq dim

(* Exit code 0 is only found where a collector run once returned it *)
ZeroInv == full \/ (status # "0" /\ prior # "0" /\ \A j \in Jobs : result[j] # "0")

(* q yields what p yields *)
Yields(p, q) == On(disk, p) => disk[p].good \ dim \subseteq disk[q].good

(* Between the merge and the disposal of its sources the merged file       *)
(* yields what they do, read to their ends or not.                         *)
YieldInv ==
    /\ pc["repair"] \in {"park", "publish"} => Bytes(disk[Merge]) \subseteq Saved(disk)
    /\ pc["repair"] = "park" => \A p \in DOMAIN readers : Yields(p, Merge)
    /\ pc["repair"] = "publish" => \A p \in DOMAIN readers \cup {Day, aside} : Yields(p, Merge)
    /\ pc["repair"] \in {"retire", "dispose"} => \A p \in todo : Yields(p, Day)
    /\ pc["repair"] = "retire" => Yields(aside, Day)

(* Up to the ping, the night's own record stands, and so does the store it *)
(* built from the day's file.                                              *)
PingInv ==
    /\ pc["nightly"] \in {"project", "storing", "ping"} /\ ~broken => status \in {result["nightly"], "-2"}
    /\ pc["nightly"] = "storing" => On(disk, Day)
    /\ /\ stored /\ On(disk, Day)
       /\ pc["nightly"] = "ping" \/ (pc["nightly"] = "storing" /\ child["nightly"] = "none")
       => disk[Day].good \subseteq part

(* A fallback that left no file for the day had no backup to take *)
FallbackInv == pc["repair"] = "fbrecord" => On(disk, Day) \/ BestBackups(disk) = {}

CleanInv == HistoryInv /\ ZeroInv /\ YieldInv /\ PingInv

-----------------------------------------------------------------------------
(* Action properties *)

(* A cut-off download and a copy with unreadable lines keep their bytes in *)
(* a file of their own for good, whatever has been merged from them        *)
(* (backfill_missed.py: "NEVER deleted").                                  *)
RawBytesKept ==
    [][\A p \in DOMAIN disk : KeptApart(p) =>
          \E q \in DOMAIN disk' : KeptApart(q) /\ Bytes(disk'[q]) = Bytes(disk[p])]_vars

(* A night that ends green is honest: the morning will look at the day     *)
(* again, or a collector run returned 0 and the store has what the day's   *)
(* file yields.                                                            *)
GreenNight ==
    [][NightPing /\ ping' = "success" =>
          \/ DayStatus # "ok"
          \/ full /\ disk[Day].good \subseteq part]_vars

(* A repair that gives up does not leave a readable copy stranded under a  *)
(* backup name with no file for the day.                                   *)
NoStrandedDay ==
    [][RepairNothing \/ FallbackRecord => On(disk, Day) \/ BestBackups(disk) = {}]_vars

(* "From here on, a death means repair me again": a repair killed anywhere *)
(* after its marker leaves a day the next morning looks at.                *)
DeathMeansRepairAgain ==
    [][KillJob("repair") /\ pc["repair"] \notin {"mark", "sweep"} => DayStatus' # "ok"]_vars

-----------------------------------------------------------------------------
(* The pipeline implements the archive *)

(* What the day's file holds *)
Shown == IF On(disk, Day) THEN Bytes(disk[Day]) ELSE {}

Archive == INSTANCE DayArchive WITH
    held <- Saved(disk), lost <- dim, shown <- Shown, settled <- Settled

ImplementsArchive == Archive!Spec

-----------------------------------------------------------------------------
(* Liveness *)

Unreadable == \E p \in Backups(disk) : ~Complete(disk, p)

(* A day with fewer accidents than inspections ends up settled, after a    *)
(* collector run that returned 0, unless a copy of it is unreadable.       *)
EventuallyClean == <>[]((Settled /\ full) \/ Unreadable)
=============================================================================
