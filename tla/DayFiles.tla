------------------------------ MODULE DayFiles ------------------------------
(***************************************************************************)
(* The files of ONE collection day, as shodan_collect.py, run_nightly.sh   *)
(* and backfill_missed.py see them.                                        *)
(*                                                                         *)
(* A disk is a function from the paths that exist to files.  A path is a   *)
(* pair <<tag, n>>: the tag is the part of the name the code globs for,    *)
(* the number stands for the time stamp (and .n suffix) that makes it      *)
(* unique.  A file is the set of records a reader can get out of it, the   *)
(* set of records whose bytes are in it but which no reader gets, and how  *)
(* reading it ends.  Everything here is a pure operator: the state machine *)
(* is in DayState.                                                         *)
(***************************************************************************)
EXTENDS Naturals, FiniteSets

CONSTANTS
    Rec,        \* the records of the day: distinct lines of JSON
    Names       \* the numbers unique_name may draw (a bound on copies per tag)

ASSUME NamesAssumption == Names \subseteq Nat \ {0}
ASSUME RecAssumption == IsFiniteSet(Rec)

-----------------------------------------------------------------------------
(* Paths *)

Day   == <<"day", 0>>          \* <state>-events-<date>.json.gz
Tmp   == <<"tmp", 0>>          \* .json.gz.tmp, the collector's download
Merge == <<"merge", 0>>        \* .json.gz.merge.tmp, the repair's output

MergeTags == {"backup", "partial"}         \* .backup.*, .backup.*.partialpull
RetiredTags == {"salvaged", "rejected"}    \* names the merge does not glob

Path == {Day, Tmp, Merge} \cup ((MergeTags \cup RetiredTags) \X Names)

(* How reading a file ends: a clean end of file; the one error a cut-off   *)
(* download must end with; any other error; a clean end after lines that   *)
(* are not JSON objects.                                                   *)
Ending == {"whole", "cut", "rotten", "ragged"}

File == [good : SUBSET Rec, dark : SUBSET Rec, ending : Ending]

Bytes(f) == f.good \cup f.dark

-----------------------------------------------------------------------------
(* What is on a disk *)

DiskOK(disk) == DOMAIN disk \subseteq Path /\ \A p \in DOMAIN disk : disk[p] \in File

On(disk, p) == p \in DOMAIN disk

Backups(disk) == {p \in DOMAIN disk : p[1] \in MergeTags}

Copies(disk) == Backups(disk) \cup (DOMAIN disk \cap {Day})

(* Every record whose bytes are in some file of the day.  The merge output *)
(* is a copy that may be thrown away at any time, so it does not count.    *)
Saved(disk) == UNION {Bytes(disk[p]) : p \in DOMAIN disk \ {Merge}}

(* What a merge would read once the download is over: retired copies, and  *)
(* what no reader gets out of a copy, do not count.                        *)
Live(p) == p \in {Day, Tmp} \/ p[1] \in MergeTags

Yielded(disk) == UNION {disk[p].good : p \in {q \in DOMAIN disk : Live(q)}}

(* Cut-off downloads and copies with unreadable lines, merged or not *)
KeptApart(p) == p[1] \in {"partial", "salvaged", "rejected"}

(* os.replace(from, to) *)
Renamed(disk, from, to) ==
    [p \in (DOMAIN disk \ {from}) \cup {to} |->
        IF p = to THEN disk[from] ELSE disk[p]]

(* os.remove(p) *)
Removed(disk, p) == [q \in DOMAIN disk \ {p} |-> disk[q]]

(* open(p, "w"), then writing f: what was there before is gone *)
Written(disk, p, f) ==
    [q \in DOMAIN disk \cup {p} |-> IF q = p THEN f ELSE disk[q]]

(* unique_name without a time stamp in the name *)
BareName(disk, tag) == <<tag, 0>>

(* unique_name: the time stamp, then a counter, until no such file exists  *)
FreshName(disk, tag) == <<tag, CHOOSE n \in Names : <<tag, n>> \notin DOMAIN disk>>

HasRoom(disk, tag) == \E n \in Names : <<tag, n>> \notin DOMAIN disk

-----------------------------------------------------------------------------
(* Reading a copy: GzSource *)

(* A reader that takes any error for the end of the file *)
CompleteOnAnyError(disk, p) == p \in DOMAIN disk

(* complete: a cut-off stream counts as read only when its name says that  *)
(* it is a cut-off download.                                               *)
Complete(disk, p) ==
    \/ disk[p].ending \in {"whole", "ragged"}
    \/ disk[p].ending = "cut" /\ p[1] = "partial"

(* rejected > 0 *)
Rejects(disk, p) == disk[p].ending = "ragged"

(* Copies whose every byte a merge carries over *)
FullyRead(disk, p) == Complete(disk, p) /\ ~Rejects(disk, p)

(* merge_copies: the union, by exact line, of what every copy yields *)
MergedFile(disk) ==
    [good |-> UNION {disk[p].good : p \in Copies(disk)}, dark |-> {}, ending |-> "whole"]

(* best_backup: the fully readable ordinary backups with the most records *)
Fit(disk) == {p \in Backups(disk) : p[1] = "backup" /\ FullyRead(disk, p)}

BestBackups(disk) ==
    {p \in Fit(disk) : \A q \in Fit(disk) : Cardinality(disk[q].good) <= Cardinality(disk[p].good)}
=============================================================================
