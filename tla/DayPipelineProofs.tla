------------------------- MODULE DayPipelineProofs -------------------------
(***************************************************************************)
(* Type correctness, mutual exclusion, the durability of records, what a   *)
(* settled day, a green ping and a fallback stand for, and that the        *)
(* pipeline implements the archive: for every finite set of records, every *)
(* set of names, every lookback window and any number of accidents of any  *)
(* kind.                                                                   *)
(***************************************************************************)
EXTENDS DayPipeline, DayFilesProofs

USE DEF Jobs

(* Moving a file to a fresh name *)
LEMMA MoveToFresh ==
    ASSUME DiskOK(disk), NEW p \in DOMAIN disk, NEW tag \in MergeTags \cup RetiredTags,
           MoveTo(p, tag)
    PROVE  /\ DiskOK(disk')
           /\ FreshName(disk, tag) \in Path /\ FreshName(disk, tag) \notin DOMAIN disk
           /\ FreshName(disk, tag)[1] = tag /\ FreshName(disk, tag) \notin {Day, Tmp, Merge}
           /\ DOMAIN disk' = (DOMAIN disk \ {p}) \cup {FreshName(disk, tag)}
           /\ disk'[FreshName(disk, tag)] = disk[p]
           /\ \A q \in DOMAIN disk \ {p} : disk'[q] = disk[q]
           /\ p # Merge => Saved(disk') = Saved(disk)
  <1>1. HasRoom(disk, tag) /\ disk' = Renamed(disk, p, FreshName(disk, tag))
    BY DEF MoveTo
  <1>2. QED
    BY <1>1, FreshNameIsFree, RenamedFree

LEMMA QuarantineFresh ==
    ASSUME DiskOK(disk), QuarantineTmp
    PROVE  /\ DiskOK(disk') /\ Tmp \notin DOMAIN disk'
           /\ Day \in DOMAIN disk' <=> Day \in DOMAIN disk
           /\ \A q \in DOMAIN disk \ {Tmp} : q \in DOMAIN disk' /\ disk'[q] = disk[q]
           /\ \A q \in DOMAIN disk' : q \in DOMAIN disk \/ (q[1] = "partial" /\ disk'[q] = disk[Tmp] /\ Tmp \in DOMAIN disk)
           /\ Saved(disk') = Saved(disk)
  <1>1. CASE Tmp \in DOMAIN disk
    <2>1. MoveTo(Tmp, "partial") /\ "partial" \in MergeTags \cup RetiredTags /\ Tmp # Merge /\ Tmp # Day
      BY <1>1 DEF QuarantineTmp, On, MergeTags, Tmp, Merge, Day
    <2> DEFINE f == FreshName(disk, "partial")
    <2>2. /\ DiskOK(disk')
          /\ f[1] = "partial" /\ f \notin {Day, Tmp, Merge}
          /\ DOMAIN disk' = (DOMAIN disk \ {Tmp}) \cup {f}
          /\ disk'[f] = disk[Tmp]
          /\ \A q \in DOMAIN disk \ {Tmp} : disk'[q] = disk[q]
          /\ Saved(disk') = Saved(disk)
      BY <1>1, <2>1, MoveToFresh
    <2> HIDE DEF f
    <2>3. QED
      BY <1>1, <2>1, <2>2
  <1>2. CASE Tmp \notin DOMAIN disk
    BY <1>2 DEF QuarantineTmp, On
  <1>3. QED
    BY <1>1, <1>2

-----------------------------------------------------------------------------
(* Type correctness *)

LEMMA TypeInit == Init => TypeOK
  <1> SUFFICES ASSUME Init PROVE TypeOK
    OBVIOUS
  <1>1. DiskOK(disk) /\ DOMAIN readers = {}
    BY DEF Init, DiskOK
  <1>2. aside \in Path
    BY DEF Init, Path
  <1>3. QED
    BY <1>1, <1>2, MishapAssumption DEF Init, TypeOK, Rc, NightPcs, RepairPcs, ChildPcs

LEMMA PathsTyped == Day \in Path /\ Tmp \in Path /\ Merge \in Path
  BY DEF Path

LEMMA EmptyCutTyped == EmptyCut \in File
  BY DEF EmptyCut, File, Ending

LEMMA LeftTyped ==
    ASSUME left \in Nat, NoTrouble \/ \E kind \in MishapKind : Mishap(kind)
    PROVE  left' \in Nat
  BY DEF NoTrouble, Mishap

-----------------------------------------------------------------------------
(* The lock *)

LEMMA LockStep ==
    ASSUME TypeOK, LockInv, [Next]_vars
    PROVE  LockInv'
  <1> USE DEF LockInv, Holds, Idle, Collecting, CollectorPcs
  <1> DEFINE Typed == /\ pc \in [Jobs -> NightPcs \cup RepairPcs] /\ child \in [Jobs -> ChildPcs]
                      /\ pc["nightly"] \in NightPcs /\ pc["repair"] \in RepairPcs
  <1>0. Typed
    BY DEF TypeOK
  <1>1. ASSUME NEW j \in Jobs, Collect(j) \/ CollectTrouble(j)
        PROVE  LockInv'
    <2>1. /\ child[j] \in CollectorPcs /\ pc' = pc
          /\ \E c \in CollectorPcs \cup {"none"} : child' = [child EXCEPT ![j] = c]
      BY <1>1 DEF Collect, CollectTrouble, CollectStart, CollectRefused, CollectAside,
                  CollectQuarantine, CollectOpen, CollectRecord, CollectRaises, CollectNothing,
                  CollectPublish, CollectEnd, ChildAt, Exit, onlyFiles
    <2>2. QED
      BY <1>0, <2>1
  <1>2. ASSUME NEW j \in Jobs, StoreProject(j) \/ StoreRefuses(j) \/ StoreFails(j)
        PROVE  LockInv'
    <2>1. child[j] = "project" /\ pc' = pc /\ child' = [child EXCEPT ![j] = "none"]
      BY <1>2 DEF StoreProject, StoreRefuses, StoreFails, ChildAt, onlyStore
    <2>2. QED
      BY <1>0, <2>1
  <1>3. CASE Night \/ NightTrouble
    BY <1>0, <1>3 DEF Night, NightTrouble, NightStart, NightAgain, NightCollect, NightNoSpace,
         NightRecord, NightProject, NightStored, NightPing, At, Goto, NightPcs, ChildPcs
  <1>4. CASE Repair \/ RepairTrouble
    BY <1>0, <1>4 DEF Repair, RepairTrouble, MorningStart, RepairByHand, Begin, RepairMark,
         RepairQuarantine, RepairGuard, RepairNoSpace, RepairCollected, RepairNothing,
         RepairMergeOpen, RepairMerge, RepairMergeEmpty, RepairPark, RepairPublish, RepairRetire,
         RepairDispose, RepairDisposed, RepairRecord, RepairProject, RepairProjected,
         FallbackRename, FallbackSwap, FallbackRecord, RepairRaises, FallbackRaises, RepairSweep,
         Step, Goto, onlyDisk, RepairPcs, MergePcs, FallbackPcs, ChildPcs
  <1>5. ASSUME NEW j \in Jobs, KillJob(j) \/ KillChild(j)
        PROVE  LockInv'
    BY <1>0, <1>5 DEF KillJob, KillChild, Ended, Exit
  <1>6. CASE Reboot
    BY <1>0, <1>6 DEF Reboot, Ended
  <1>7. CASE Rot \/ Garble \/ CronMissed \/ CronLocked \/ NextDay \/ Forgotten \/ UNCHANGED vars
    BY <1>7 DEF Rot, Garble, CronMissed, CronLocked, NextDay, Forgotten, vars, procs
  <1>8. QED
    BY <1>1, <1>2, <1>3, <1>4, <1>5, <1>6, <1>7 DEF Next, Working, Trouble

-----------------------------------------------------------------------------
(* The collector and the store *)

(* While a child works on the files no merge is under way, and it is the   *)
(* only child.                                                             *)
LEMMA ChildAlone ==
    ASSUME TypeOK, LockInv, NEW j \in Jobs, child[j] # "none"
    PROVE  /\ pc["repair"] \in {"idle", "wait", "storing"}
           /\ \A k \in Jobs : k # j => child[k] = "none"
  BY DEF TypeOK, LockInv, Holds, Collecting, ChildPcs

(* A step that leaves the files alone keeps what is said about them alone *)
LEMMA FilesUntouched ==
    ASSUME IInv, disk' = disk, ever' = ever
    PROVE  DiskOK(disk') /\ Sound' /\ NothingLost'
  BY DEF IInv, TypeOK, Sound, NothingLost

LEMMA CollectStep ==
    ASSUME IInv, LockInv', NEW j \in Jobs, Collect(j) \/ CollectTrouble(j)
    PROVE  IInv'
  <1> USE DEF ChildAt, Exit, NoTrouble, Mishap, onlyFiles, files, night, locals, clock, history
  <1>1. /\ TypeOK /\ LockInv /\ Sound /\ PullInv /\ MergeInv /\ NothingLost /\ DiskOK(disk)
    BY DEF IInv, TypeOK
  <1>0. DiskOK(disk)
    BY <1>1
  <1>2. /\ child[j] \in CollectorPcs /\ pc' = pc
        /\ \E c \in CollectorPcs \cup {"none"} : child' = [child EXCEPT ![j] = c]
        /\ \/ result' = result
           \/ \E code \in Rc : result' = [result EXCEPT ![j] = IF pc[j] = "wait" THEN code ELSE @]
        /\ UNCHANGED <<status, part, night, locals, clock, dim>>
    BY DEF Collect, CollectTrouble, CollectStart, CollectRefused, CollectAside,
           CollectQuarantine, CollectOpen, CollectRecord, CollectRaises, CollectNothing,
           CollectPublish, CollectEnd, CollectorPcs, Rc
  <1>3. /\ pc["repair"] \in {"idle", "wait", "storing"}
        /\ \A k \in Jobs : k # j => child[k] = "none"
    BY <1>1, <1>2, ChildAlone DEF CollectorPcs
  <1>4. MergeInv'
    BY <1>2, <1>3 DEF MergeInv, MergePcs
  <1>5. left' \in Nat
    BY <1>1 DEF TypeOK, Collect, CollectTrouble, CollectStart, CollectRefused, CollectAside,
           CollectQuarantine, CollectOpen, CollectRecord, CollectRaises, CollectNothing,
           CollectPublish, CollectEnd
  <1>6. full' \in BOOLEAN
    BY <1>1 DEF TypeOK, Collect, CollectTrouble, CollectStart, CollectRefused, CollectAside,
           CollectQuarantine, CollectOpen, CollectRecord, CollectRaises, CollectNothing,
           CollectPublish, CollectEnd
  <1>7. ASSUME DiskOK(disk'), ever' \subseteq Rec PROVE TypeOK'
    <2>1. child' \in [Jobs -> ChildPcs] /\ result' \in [Jobs -> Rc]
      BY <1>1, <1>2 DEF TypeOK, ChildPcs
    <2>2. QED
      BY <1>1, <1>2, <1>5, <1>6, <1>7, <2>1 DEF TypeOK
  <1>8. CASE disk' = disk /\ ever' = ever /\ child'[j] \in {"none", "aside"}
    <2>1. PullInv'
      BY <1>1, <1>2, <1>3, <1>8 DEF PullInv, On, TypeOK
    <2>2. QED
      BY <1>1, <1>4, <1>7, <1>8, <2>1, FilesUntouched DEF IInv, TypeOK
  <1>9. CASE CollectStart(j) \/ CollectRefused(j)
    BY <1>1, <1>2, <1>8, <1>9 DEF CollectStart, CollectRefused, TypeOK
  <1>10. CASE CollectEnd(j)
    BY <1>1, <1>2, <1>8, <1>10 DEF CollectEnd, TypeOK
  <1>11. CASE CollectAside(j)
    <2>1. /\ DiskOK(disk') /\ ~On(disk', Day) /\ Saved(disk') = Saved(disk) /\ Sound'
      <3>1. CASE On(disk, Day)
        <4>1. MoveTo(Day, "backup") /\ Day \in DOMAIN disk /\ Day # Merge
              /\ "backup" \in MergeTags \cup RetiredTags
          BY <1>11, <3>1 DEF CollectAside, On, Day, Merge, MergeTags
        <4> DEFINE f == FreshName(disk, "backup")
        <4>2. /\ DiskOK(disk') /\ f \notin {Day, Tmp, Merge}
              /\ DOMAIN disk' = (DOMAIN disk \ {Day}) \cup {f} /\ disk'[f] = disk[Day]
              /\ \A q \in DOMAIN disk \ {Day} : disk'[q] = disk[q]
              /\ Saved(disk') = Saved(disk)
          BY <1>1, <4>1, MoveToFresh
        <4> HIDE DEF f
        <4>3. QED
          BY <1>1, <3>1, <4>2 DEF Sound, On
      <3>2. CASE ~On(disk, Day)
        BY <1>1, <1>11, <3>2 DEF CollectAside, Sound
      <3>3. QED
        BY <3>1, <3>2
    <2>2. ever' = ever /\ child' = [child EXCEPT ![j] = "quarantine"]
      BY <1>11 DEF CollectAside
    <2>3. PullInv'
      BY <1>1, <1>2, <1>3, <2>1, <2>2 DEF PullInv, TypeOK
    <2>4. NothingLost' /\ ever' \subseteq Rec
      BY <1>1, <2>1, <2>2 DEF NothingLost, TypeOK
    <2>5. QED
      BY <1>4, <1>7, <2>1, <2>3, <2>4 DEF IInv
  <1>12. CASE CollectQuarantine(j)
    <2>1. QuarantineTmp /\ ever' = ever /\ child[j] = "quarantine"
          /\ child' = [child EXCEPT ![j] = "open"]
      BY <1>12 DEF CollectQuarantine
    <2>2. /\ DiskOK(disk') /\ ~On(disk', Tmp) /\ On(disk', Day) = On(disk, Day)
          /\ Saved(disk') = Saved(disk)
      BY <1>1, <2>1, QuarantineFresh DEF On
    <2>3. Sound'
      BY <1>1, <2>1, QuarantineFresh DEF Sound
    <2>4. PullInv'
      BY <1>1, <1>2, <1>3, <2>1, <2>2 DEF PullInv, TypeOK
    <2>5. NothingLost' /\ ever' \subseteq Rec
      BY <1>1, <2>1, <2>2 DEF NothingLost, TypeOK
    <2>6. QED
      BY <1>4, <1>7, <2>2, <2>3, <2>4, <2>5 DEF IInv
  <1>13. CASE CollectOpen(j)
    <2>1. /\ disk' = Written(disk, Tmp, EmptyCut) /\ ever' = ever /\ child[j] = "open"
          /\ child' = [child EXCEPT ![j] = "fetch"]
      BY <1>13 DEF CollectOpen, EmptyCut
    <2>2. ~On(disk, Day) /\ ~On(disk, Tmp)
      BY <1>1, <2>1 DEF PullInv
    <2>3. /\ DiskOK(disk') /\ DOMAIN disk' = DOMAIN disk \cup {Tmp} /\ disk'[Tmp] = EmptyCut
          /\ \A q \in DOMAIN disk \ {Tmp} : disk'[q] = disk[q]
          /\ Saved(disk) \subseteq Saved(disk')
      <3>1. Tmp \notin DOMAIN disk
        BY <2>2 DEF On
      <3>2. QED
        BY <1>1, <2>1, <3>1, WrittenKeeps, PathsTyped, EmptyCutTyped
    <2>4. Sound'
      BY <1>1, <2>3 DEF Sound, EmptyCut
    <2>5. ~On(disk', Day) /\ On(disk', Tmp) /\ disk'[Tmp].ending = "cut"
      BY <2>2, <2>3 DEF On, EmptyCut, Day, Tmp
    <2>6. PullInv'
      BY <1>1, <1>3, <2>1, <2>5 DEF PullInv, TypeOK
    <2>7. NothingLost' /\ ever' \subseteq Rec
      BY <1>1, <2>1, <2>3 DEF NothingLost, TypeOK
    <2>8. QED
      BY <1>1, <1>4, <1>7, <2>3, <2>4, <2>6, <2>7 DEF IInv
  <1>14. CASE CollectRecord(j)
    <2>1. PICK r \in Rec : /\ disk' = [disk EXCEPT ![Tmp].good = @ \cup {r}]
                           /\ ever' = ever \cup {r} /\ child[j] = "fetch"
                           /\ child' = [child EXCEPT ![j] = "fetch"]
      BY <1>14 DEF CollectRecord
    <2>2. ~On(disk, Day) /\ Tmp \in DOMAIN disk /\ disk[Tmp].ending = "cut" /\ disk[Tmp] \in File
      BY <1>1, <2>1 DEF PullInv, On, DiskOK
    <2> DEFINE f == [disk[Tmp] EXCEPT !.good = @ \cup {r}]
    <2>3. /\ f \in File /\ f.ending = "cut" /\ f.dark = disk[Tmp].dark
          /\ Bytes(f) = Bytes(disk[Tmp]) \cup {r}
      BY <2>2 DEF File, Bytes
    <2>4. disk' = Written(disk, Tmp, f)
      BY <2>1, <2>2 DEF Written
    <2> HIDE DEF f
    <2>5. /\ DiskOK(disk') /\ DOMAIN disk' = DOMAIN disk \cup {Tmp} /\ disk'[Tmp] = f
          /\ \A q \in DOMAIN disk \ {Tmp} : disk'[q] = disk[q]
          /\ Saved(disk) \subseteq Saved(disk')
      <3>1. f \in File /\ Bytes(disk[Tmp]) \subseteq Bytes(f)
        BY <2>3
      <3>2. /\ DiskOK(Written(disk, Tmp, f))
            /\ DOMAIN Written(disk, Tmp, f) = DOMAIN disk \cup {Tmp}
            /\ Written(disk, Tmp, f)[Tmp] = f
            /\ \A q \in DOMAIN disk \ {Tmp} : Written(disk, Tmp, f)[q] = disk[q]
            /\ Saved(disk) \subseteq Saved(Written(disk, Tmp, f))
        BY <1>0, <3>1, WrittenKeeps, PathsTyped
      <3>3. QED
        BY <2>4, <3>2
    <2>6. Sound'
      BY <1>1, <2>2, <2>3, <2>5 DEF Sound
    <2>7. ~On(disk', Day) /\ On(disk', Tmp) /\ disk'[Tmp].ending = "cut"
      BY <2>2, <2>3, <2>5 DEF On, Day, Tmp
    <2>8. PullInv'
      BY <1>1, <1>3, <2>1, <2>7 DEF PullInv, TypeOK
    <2>9. r \in Saved(disk')
      BY <2>3, <2>5, SavedHas DEF Tmp, Merge
    <2>10. NothingLost' /\ ever' \subseteq Rec
      BY <1>1, <2>1, <2>5, <2>9 DEF NothingLost, TypeOK
    <2>11. QED
      BY <1>1, <1>4, <1>7, <2>5, <2>6, <2>8, <2>10 DEF IInv
  <1>15. CASE CollectRaises(j)
    <2>0. PICK e \in {"whole", "cut"} : disk' = [disk EXCEPT ![Tmp].ending = e]
      BY <1>15 DEF CollectRaises
    <2>1. /\ disk' = [disk EXCEPT ![Tmp].ending = e] /\ ever' = ever
          /\ child[j] = "fetch" /\ child'[j] = "none"
      BY <1>1, <1>15, <2>0 DEF CollectRaises, TypeOK
    <2>2. ~On(disk, Day) /\ Tmp \in DOMAIN disk /\ disk[Tmp].ending = "cut" /\ disk[Tmp] \in File
      BY <1>1, <2>1 DEF PullInv, On, DiskOK
    <2>3. disk[Tmp].dark = {}
      BY <1>1, <2>2 DEF Sound
    <2>4. PICK f \in File : f = [disk[Tmp] EXCEPT !.ending = e]
      BY <2>2 DEF File, Ending
    <2>5. f.dark = {} /\ Bytes(f) = Bytes(disk[Tmp]) /\ disk' = Written(disk, Tmp, f)
      BY <2>1, <2>2, <2>3, <2>4 DEF File, Bytes, Written
    <2>6. /\ DiskOK(disk') /\ DOMAIN disk' = DOMAIN disk \cup {Tmp} /\ disk'[Tmp] = f
          /\ \A q \in DOMAIN disk \ {Tmp} : disk'[q] = disk[q]
          /\ Saved(disk) \subseteq Saved(disk')
      <3>1. DiskOK(disk) /\ Tmp \in Path /\ Bytes(disk[Tmp]) \subseteq Bytes(f)
        BY <1>1, <2>5, PathsTyped
      <3>2. QED
        BY <2>5, <3>1, WrittenKeeps
    <2>7. Sound'
      BY <1>1, <2>5, <2>6 DEF Sound
    <2>8. PullInv'
      BY <1>2, <1>3, <2>1 DEF PullInv
    <2>9. NothingLost' /\ ever' \subseteq Rec
      BY <1>1, <2>1, <2>6 DEF NothingLost, TypeOK
    <2>10. QED
      BY <1>1, <1>4, <1>7, <2>6, <2>7, <2>8, <2>9 DEF IInv
  <1>16. CASE CollectNothing(j)
    <2>1. /\ disk' = Removed(disk, Tmp) /\ ever' = ever /\ disk[Tmp].good = {}
          /\ child[j] = "fetch" /\ child'[j] = "none"
      BY <1>1, <1>16 DEF CollectNothing, TypeOK
    <2>2. Tmp \in DOMAIN disk /\ Bytes(disk[Tmp]) = {}
      BY <1>1, <2>1 DEF PullInv, On, Sound, Bytes
    <2>3. /\ DiskOK(disk') /\ DOMAIN disk' = DOMAIN disk \ {Tmp}
          /\ \A q \in DOMAIN disk \ {Tmp} : disk'[q] = disk[q]
          /\ Saved(disk) \subseteq Saved(disk')
      BY <1>1, <2>1, <2>2, RemovedKeeps
    <2>4. Sound'
      BY <1>1, <2>3 DEF Sound
    <2>5. PullInv'
      BY <1>2, <1>3, <2>1 DEF PullInv
    <2>6. NothingLost' /\ ever' \subseteq Rec
      BY <1>1, <2>1, <2>3 DEF NothingLost, TypeOK
    <2>7. QED
      BY <1>1, <1>4, <1>7, <2>3, <2>4, <2>5, <2>6 DEF IInv
  <1>17. CASE CollectPublish(j)
    <2> DEFINE f == [disk[Tmp] EXCEPT !.ending = "whole"]
               d == [disk EXCEPT ![Tmp].ending = "whole"]
    <2>1. /\ disk' = Renamed(d, Tmp, Day) /\ ever' = ever /\ child[j] = "fetch"
          /\ child' = [child EXCEPT ![j] = "leave"]
      BY <1>17 DEF CollectPublish
    <2>2. ~On(disk, Day) /\ Tmp \in DOMAIN disk /\ disk[Tmp].ending = "cut" /\ disk[Tmp] \in File
      BY <1>1, <2>1 DEF PullInv, On, DiskOK
    <2>3. disk[Tmp].dark = {}
      BY <1>1, <2>2 DEF Sound
    <2>4. f \in File /\ f.dark = {} /\ Bytes(f) = Bytes(disk[Tmp])
      BY <2>2, <2>3 DEF File, Bytes, Ending
    <2>5. d = Written(disk, Tmp, f)
      BY <2>2 DEF Written
    <2> HIDE DEF f, d
    <2>6. /\ DiskOK(d) /\ DOMAIN d = DOMAIN disk /\ d[Tmp] = f
          /\ \A q \in DOMAIN disk \ {Tmp} : d[q] = disk[q]
          /\ Saved(disk) \subseteq Saved(d)
      <3>1. f \in File /\ Bytes(disk[Tmp]) \subseteq Bytes(f)
        BY <2>4
      <3>2. /\ DiskOK(Written(disk, Tmp, f))
            /\ DOMAIN Written(disk, Tmp, f) = DOMAIN disk \cup {Tmp}
            /\ Written(disk, Tmp, f)[Tmp] = f
            /\ \A q \in DOMAIN disk \ {Tmp} : Written(disk, Tmp, f)[q] = disk[q]
            /\ Saved(disk) \subseteq Saved(Written(disk, Tmp, f))
        BY <1>0, <3>1, WrittenKeeps, PathsTyped
      <3>3. QED
        BY <2>2, <2>5, <3>2
    <2>7. Tmp \in DOMAIN d /\ Day \notin DOMAIN d /\ Tmp # Merge /\ Day # Merge
      BY <2>2, <2>6 DEF On, Tmp, Merge, Day
    <2>8. /\ DiskOK(disk') /\ DOMAIN disk' = (DOMAIN d \ {Tmp}) \cup {Day}
          /\ disk'[Day] = f /\ \A q \in DOMAIN d \ {Tmp} : disk'[q] = d[q]
          /\ Saved(disk') = Saved(d)
      BY <2>1, <2>6, <2>7, RenamedFree, PathsTyped
    <2>9. Sound'
      BY <1>1, <2>4, <2>6, <2>8 DEF Sound
    <2>10. PullInv'
      BY <1>1, <1>3, <2>1 DEF PullInv, TypeOK
    <2>11. NothingLost' /\ ever' \subseteq Rec
      BY <1>1, <2>1, <2>6, <2>8 DEF NothingLost, TypeOK
    <2>12. QED
      BY <1>1, <1>4, <1>7, <2>8, <2>9, <2>10, <2>11 DEF IInv
  <1>18. QED
    BY <1>9, <1>10, <1>11, <1>12, <1>13, <1>14, <1>15, <1>16, <1>17 DEF Collect, CollectTrouble

-----------------------------------------------------------------------------
(* Steps that leave the files and the repair's place alone *)

LEMMA QuietStep ==
    ASSUME IInv, LockInv', TypeOK', MergeInv', disk' = disk, ever' = ever,
           \A j \in Jobs : child'[j] \in {"none", "api", "aside", "project", child[j]}
    PROVE  IInv'
  <1>1. PullInv'
    BY DEF IInv, PullInv, On
  <1>2. QED
    BY <1>1, FilesUntouched DEF IInv

LEMMA MergeUntouched ==
    ASSUME IInv, disk' = disk, readers' = readers, todo' = todo, aside' = aside,
           pc'["repair"] = pc["repair"]
    PROVE  MergeInv'
  <1>1. MergeInv /\ \A p, q : Carried(p, q)' <=> Carried(p, q)
    BY DEF IInv, Carried, On
  <1>2. \A p : On(disk', p) <=> On(disk, p)
    OBVIOUS
  <1>3. QED
    BY <1>1, <1>2 DEF MergeInv

LEMMA NoMerge ==
    ASSUME pc'["repair"] \notin MergePcs \cup {"swap"}
    PROVE  MergeInv'
  BY DEF MergeInv, MergePcs

LEMMA StoreStep ==
    ASSUME IInv, LockInv', NEW j \in Jobs,
           StoreProject(j) \/ StoreRefuses(j) \/ StoreFails(j)
    PROVE  IInv'
  <1> USE DEF StoreProject, StoreRefuses, StoreFails, onlyStore, night, locals, clock, history
  <1>1. TypeOK /\ DiskOK(disk)
    BY DEF IInv, TypeOK
  <1>2. /\ UNCHANGED <<disk, status, pc, result, broken, ping, locals, clock, history>>
        /\ child' = [child EXCEPT ![j] = "none"]
    BY DEF ChildAt
  <1>3. stored' \in BOOLEAN
    BY <1>1 DEF TypeOK, Report
  <1>4. left' \in Nat
    <2>1. left \in Nat
      BY <1>1 DEF TypeOK
    <2>2. NoTrouble \/ Mishap("store")
      OBVIOUS
    <2>3. QED
      BY <2>1, <2>2 DEF NoTrouble, Mishap
  <1>5. part' \subseteq Rec
    <2>1. Projectable => disk[Day].good \subseteq Rec
      BY <1>1 DEF Projectable, On, DiskOK, File
    <2>2. QED
      BY <1>1, <2>1 DEF TypeOK
  <1>6. child' \in [Jobs -> ChildPcs]
    BY <1>1, <1>2 DEF TypeOK, ChildPcs
  <1>7. TypeOK'
    BY <1>1, <1>2, <1>3, <1>4, <1>5, <1>6 DEF TypeOK
  <1>8. MergeInv'
    BY <1>2, MergeUntouched
  <1>9. \A k \in Jobs : child'[k] \in {"none", "api", "aside", "project", child[k]}
    BY <1>1, <1>2 DEF TypeOK
  <1>10. QED
    BY <1>2, <1>7, <1>8, <1>9, QuietStep

LEMMA NightStep ==
    ASSUME IInv, LockInv', Night \/ NightTrouble
    PROVE  IInv'
  <1> USE DEF Night, NightTrouble, NightStart, NightAgain, NightCollect, NightNoSpace,
              NightRecord, NightProject, NightStored, NightPing, At, Goto, Record,
              files, night, locals, clock, history
  <1>1. TypeOK
    BY DEF IInv
  <1>2. UNCHANGED <<disk, part, locals, age, history>>
    OBVIOUS
  <1>3. /\ pc' \in [Jobs -> NightPcs \cup RepairPcs] /\ pc'["repair"] = pc["repair"]
        /\ pc'["nightly"] \in NightPcs
    BY <1>1 DEF TypeOK, NightPcs, RepairPcs
  <1>4. /\ child' \in [Jobs -> ChildPcs]
        /\ \A k \in Jobs : child'[k] \in {"none", "api", "aside", "project", child[k]}
    BY <1>1 DEF TypeOK, ChildPcs, CollectorPcs
  <1>5. status' \in Rc /\ result' \in [Jobs -> Rc]
    BY <1>1 DEF TypeOK, Rc
  <1>6. broken' \in BOOLEAN
    BY <1>1 DEF TypeOK
  <1>7. stored' \in BOOLEAN
    BY <1>1 DEF TypeOK
  <1>8. ping' \in {"none", "success", "fail"}
    BY <1>1 DEF TypeOK, Outcome
  <1>9. asked' \in BOOLEAN
    BY <1>1 DEF TypeOK
  <1>10. left' \in Nat
    BY <1>1 DEF TypeOK, NoTrouble, Mishap
  <1>11. TypeOK'
    BY <1>1, <1>2, <1>3, <1>4, <1>5, <1>6, <1>7, <1>8, <1>9, <1>10 DEF TypeOK
  <1>12. MergeInv'
    BY <1>2, <1>3, MergeUntouched
  <1>13. QED
    BY <1>2, <1>4, <1>11, <1>12, QuietStep

-----------------------------------------------------------------------------
(* The repair: types *)

LEMMA FinalRcTyped ==
    ASSUME TypeOK
    PROVE  FinalRc \in Rc /\ PriorRc \in Rc
  BY DEF TypeOK, FinalRc, PullRc, PriorRc, Rc

LEMMA AsideTyped ==
    ASSUME TypeOK, Repair \/ RepairTrouble
    PROVE  aside' \in Path
  <1>1. DiskOK(disk) /\ aside \in Path
    BY DEF TypeOK
  <1>2. CASE RepairPark
    <2>1. aside' = Day \/ (HasRoom(disk, "backup") /\ aside' = FreshName(disk, "backup"))
      BY <1>2 DEF RepairPark, MoveTo
    <2>2. QED
      BY <2>1, FreshNameIsFree, PathsTyped DEF MergeTags
  <1>3. CASE FallbackRename
    <2>1. aside' = aside \/ aside' \in BestBackups(disk)
      BY <1>3 DEF FallbackRename
    <2>2. BestBackups(disk) \subseteq Path
      BY <1>1 DEF BestBackups, Fit, Backups, DiskOK
    <2>3. QED
      BY <1>1, <2>1, <2>2
  <1>4. CASE ~RepairPark /\ ~FallbackRename
    <2>1. aside' = aside \/ aside' = Day
      BY <1>4 DEF Repair, RepairTrouble, MorningStart, RepairByHand, Begin, RepairMark,
           RepairQuarantine, RepairGuard, RepairNoSpace, RepairCollected, RepairNothing,
           RepairMergeOpen, RepairMerge, RepairMergeEmpty, RepairPublish, RepairRetire,
           RepairDispose, RepairDisposed, RepairRecord, RepairProject, RepairProjected,
           FallbackSwap, FallbackRecord, RepairRaises, FallbackRaises, RepairSweep,
           onlyDisk, locals, Forget
    <2>2. QED
      BY <1>1, <2>1, PathsTyped
  <1>5. QED
    BY <1>2, <1>3, <1>4

LEMMA ReadersTyped ==
    ASSUME TypeOK, MergeInv, Repair \/ RepairTrouble
    PROVE  /\ DOMAIN readers' \subseteq Path /\ \A p \in DOMAIN readers' : readers'[p] \in Reading
           /\ todo' \subseteq DOMAIN readers'
  <1>1. /\ DOMAIN readers \subseteq Path /\ \A p \in DOMAIN readers : readers[p] \in Reading
        /\ todo \subseteq DOMAIN readers
    BY DEF TypeOK
  <1>2. CASE RepairMerge
    <2>1. /\ readers' = [p \in Copies(disk) |->
                     [complete |-> Complete(disk, p), rejected |-> Rejects(disk, p)]]
          /\ todo' = {}
      BY <1>2 DEF RepairMerge
    <2>2. Copies(disk) \subseteq Path
      BY DEF TypeOK, DiskOK, Copies, Backups
    <2>3. \A p \in Copies(disk) : Complete(disk, p) \in BOOLEAN /\ Rejects(disk, p) \in BOOLEAN
      BY DEF Complete, Rejects
    <2>4. QED
      BY <2>1, <2>2, <2>3 DEF Reading
  <1>3. CASE RepairSweep
    BY <1>3 DEF RepairSweep, Forget
  <1>4. CASE ~RepairMerge /\ ~RepairSweep
    <2>1. readers' = readers /\ (todo' \subseteq todo \/ todo' = DOMAIN readers \ {Day})
      BY <1>4 DEF Repair, RepairTrouble, MorningStart, RepairByHand, Begin, RepairMark,
           RepairQuarantine, RepairGuard, RepairNoSpace, RepairCollected, RepairNothing,
           RepairMergeOpen, RepairMergeEmpty, RepairPark, RepairPublish, RepairRetire,
           RepairDispose, RepairDisposed, RepairRecord, RepairProject, RepairProjected,
           FallbackRename, FallbackSwap, FallbackRecord, RepairRaises, FallbackRaises,
           onlyDisk, locals
    <2>2. QED
      BY <1>1, <2>1
  <1>5. QED
    BY <1>2, <1>3, <1>4

LEMMA RepairTyped ==
    ASSUME IInv, Repair \/ RepairTrouble, DiskOK(disk')
    PROVE  TypeOK'
  <1> USE DEF Repair, RepairTrouble, MorningStart, RepairByHand, Begin, RepairMark,
         RepairQuarantine, RepairGuard, RepairNoSpace, RepairCollected, RepairNothing,
         RepairMergeOpen, RepairMerge, RepairMergeEmpty, RepairPark, RepairPublish, RepairRetire,
         RepairDispose, RepairDisposed, RepairRecord, RepairProject, RepairProjected,
         FallbackRename, FallbackSwap, FallbackRecord, RepairRaises, FallbackRaises, RepairSweep,
         Step, Goto, onlyDisk, files, night, locals, clock, history, Forget
  <1>1. TypeOK /\ MergeInv
    BY DEF IInv
  <1>2. UNCHANGED <<part, night, age, history>>
    OBVIOUS
  <1>3. /\ pc' \in [Jobs -> NightPcs \cup RepairPcs] /\ pc'["nightly"] = pc["nightly"]
        /\ pc'["repair"] \in RepairPcs
    BY <1>1 DEF TypeOK, NightPcs, RepairPcs, MergePcs, FallbackPcs
  <1>4. child' \in [Jobs -> ChildPcs]
    BY <1>1 DEF TypeOK, ChildPcs, CollectorPcs
  <1>5. result' \in [Jobs -> Rc]
    BY <1>1 DEF TypeOK, Rc
  <1>6. status' \in Rc
    <2>1. status' \in {status, "-1", "3", FinalRc}
      OBVIOUS
    <2>2. status \in Rc /\ FinalRc \in Rc /\ "-1" \in Rc /\ "3" \in Rc
      BY <1>1, FinalRcTyped DEF TypeOK, Rc
    <2>3. QED
      BY <2>1, <2>2
  <1>7. prior' \in Rc
    <2>1. prior' \in {prior, "absent", PriorRc}
      OBVIOUS
    <2>2. prior \in Rc /\ PriorRc \in Rc /\ "absent" \in Rc
      BY <1>1, FinalRcTyped DEF TypeOK, Rc
    <2>3. QED
      BY <2>1, <2>2
  <1>8. repull' \in BOOLEAN
    BY <1>1 DEF TypeOK
  <1>9. fresh' \in BOOLEAN
    <2>1. fresh' = fresh \/ fresh' = FALSE \/ fresh' = On(disk, Day)
      OBVIOUS
    <2>2. fresh \in BOOLEAN
      BY <1>1 DEF TypeOK
    <2>3. On(disk, Day) \in BOOLEAN
      BY DEF On
    <2>4. QED
      BY <2>1, <2>2, <2>3
  <1>10. asked' \in BOOLEAN
    BY <1>1 DEF TypeOK
  <1>11. left' \in Nat
    <2>1. left \in Nat
      BY <1>1 DEF TypeOK
    <2>2. NoTrouble \/ \E kind \in MishapKind : Mishap(kind)
      BY DEF MishapKind
    <2>3. QED
      BY <2>1, <2>2, LeftTyped
  <1>12. aside' \in Path
    BY <1>1, AsideTyped
  <1>13. /\ DOMAIN readers' \subseteq Path /\ \A p \in DOMAIN readers' : readers'[p] \in Reading
         /\ todo' \subseteq DOMAIN readers'
    BY <1>1, ReadersTyped
  <1>14. QED
    BY <1>1, <1>2, <1>3, <1>4, <1>5, <1>6, <1>7, <1>8, <1>9, <1>10, <1>11, <1>12, <1>13
       DEF TypeOK

-----------------------------------------------------------------------------
(* The repair: files *)

(* While the repair works on the files it has no child, nor has the night *)
LEMMA NobodyCollects ==
    ASSUME TypeOK, LockInv,
           \/ pc["repair"] \notin {"idle", "wait", "storing"}
           \/ pc["repair"] = "wait" /\ child["repair"] = "none"
    PROVE  \A j \in Jobs : child[j] = "none"
  BY DEF TypeOK, LockInv, Holds, Collecting, ChildPcs

(* A step that only moves and removes files leaves no file unsound *)
LEMMA SoundMoved ==
    ASSUME Sound, \A q \in DOMAIN disk' : \E p \in DOMAIN disk : disk'[q] = disk[p]
    PROVE  Sound'
  BY DEF Sound

LEMMA DiskStep ==
    ASSUME IInv, LockInv', TypeOK', MergeInv', Sound', Saved(disk) \subseteq Saved(disk'),
           ever' = ever, \A j \in Jobs : child[j] = "none", child' = child
    PROVE  IInv'
  <1>1. PullInv'
    BY DEF PullInv
  <1>2. NothingLost'
    BY DEF IInv, NothingLost
  <1>3. QED
    BY <1>1, <1>2 DEF IInv

(* The repair steps that leave the files alone *)
RepairSilent ==
    \/ MorningStart \/ RepairByHand \/ RepairMark \/ RepairGuard \/ RepairNoSpace
    \/ RepairNothing \/ RepairDisposed \/ RepairRecord \/ RepairProject \/ RepairProjected
    \/ FallbackRecord \/ FallbackRaises

LEMMA RepairSilentStep ==
    ASSUME IInv, LockInv', RepairSilent
    PROVE  IInv'
  <1> USE DEF RepairSilent, MorningStart, RepairByHand, Begin, RepairMark, RepairGuard,
         RepairNoSpace, RepairNothing, RepairDisposed, RepairRecord, RepairProject,
         RepairProjected, FallbackRecord, FallbackRaises, Step, Goto, onlyDisk, files, night,
         locals, clock, history
  <1>1. TypeOK /\ DiskOK(disk) /\ MergeInv
    BY DEF IInv, TypeOK
  <1>2. disk' = disk /\ ever' = ever
    OBVIOUS
  <1>3. TypeOK'
    BY <1>1, <1>2, RepairTyped DEF Repair, RepairTrouble
  <1>4. \A j \in Jobs : child'[j] \in {"none", "api", "aside", "project", child[j]}
    BY <1>1 DEF TypeOK
  <1>5. MergeInv'
    <2>1. CASE RepairDisposed
      BY <1>1, <2>1 DEF TypeOK, MergeInv, MergePcs
    <2>2. CASE ~RepairDisposed
      <3>1. pc'["repair"] \notin MergePcs \cup {"swap"}
        BY <1>1, <2>2 DEF TypeOK, MergePcs
      <3>2. QED
        BY <3>1, NoMerge
    <2>3. QED
      BY <2>1, <2>2
  <1>6. QED
    BY <1>2, <1>3, <1>4, <1>5, QuietStep

LEMMA QuarantineStep ==
    ASSUME IInv, LockInv', RepairQuarantine \/ RepairCollected
    PROVE  IInv'
  <1>1. TypeOK /\ DiskOK(disk) /\ LockInv /\ Sound
    BY DEF IInv, TypeOK
  <1>2. /\ QuarantineTmp \/ disk' = disk
        /\ ever' = ever /\ child' = child /\ pc'["repair"] \in {"guard", "copies"}
        /\ pc["repair"] = "quarantine" \/ (pc["repair"] = "wait" /\ child["repair"] = "none")
    BY <1>1 DEF TypeOK, RepairQuarantine, RepairCollected, Step, Goto, onlyDisk, history
  <1>3. \A j \in Jobs : child[j] = "none"
    BY <1>1, <1>2, NobodyCollects
  <1>4. DiskOK(disk') /\ Sound' /\ Saved(disk) \subseteq Saved(disk')
    <2>1. CASE QuarantineTmp
      BY <1>1, <2>1, QuarantineFresh, SoundMoved
    <2>2. CASE disk' = disk
      BY <1>1, <2>2 DEF Sound
    <2>3. QED
      BY <1>2, <2>1, <2>2
  <1>5. TypeOK'
    BY <1>4, RepairTyped DEF Repair, RepairTrouble
  <1>6. MergeInv'
    BY <1>2, NoMerge DEF MergePcs
  <1>7. QED
    BY <1>2, <1>3, <1>4, <1>5, <1>6, DiskStep

LEMMA MergeWriteStep ==
    ASSUME IInv, LockInv', RepairMergeOpen \/ RepairMerge
    PROVE  IInv'
  <1> DEFINE f == IF RepairMerge THEN MergedFile(disk) ELSE EmptyCut
  <1>1. TypeOK /\ DiskOK(disk) /\ LockInv /\ Sound
    BY DEF IInv, TypeOK
  <1>2. /\ disk' = Written(disk, Merge, f) /\ ever' = ever /\ child' = child
        /\ pc["repair"] \in {"copies", "merging"}
    BY <1>1 DEF TypeOK, RepairMergeOpen, RepairMerge, Step, Goto, onlyDisk, history
  <1>3. \A j \in Jobs : child[j] = "none"
    BY <1>1, <1>2, NobodyCollects
  <1>4. f \in File /\ f.dark = {}
    BY <1>1, MergedFileHolds, EmptyCutTyped DEF EmptyCut
  <1> HIDE DEF f
  <1>5. /\ DiskOK(disk') /\ DOMAIN disk' = DOMAIN disk \cup {Merge} /\ disk'[Merge] = f
        /\ \A q \in DOMAIN disk \ {Merge} : disk'[q] = disk[q]
        /\ Saved(disk) \subseteq Saved(disk')
    <2>1. f \in File /\ DiskOK(disk) /\ Merge \in Path
      BY <1>1, <1>4, PathsTyped
    <2>2. /\ DiskOK(Written(disk, Merge, f))
          /\ DOMAIN Written(disk, Merge, f) = DOMAIN disk \cup {Merge}
          /\ Written(disk, Merge, f)[Merge] = f
          /\ \A q \in DOMAIN disk \ {Merge} : Written(disk, Merge, f)[q] = disk[q]
          /\ Saved(disk) \subseteq Saved(Written(disk, Merge, f))
      BY <2>1, WrittenKeeps
    <2>3. QED
      BY <1>2, <2>2
  <1>6. Sound'
    BY <1>1, <1>4, <1>5 DEF Sound
  <1>7. TypeOK'
    BY <1>5, RepairTyped DEF Repair, RepairTrouble
  <1>8. CASE RepairMergeOpen
    <2>1. MergeInv'
      BY <1>1, <1>8, NoMerge DEF TypeOK, RepairMergeOpen, Step, Goto, MergePcs
    <2>2. QED
      BY <1>2, <1>3, <1>5, <1>6, <1>7, <2>1, DiskStep
  <1>9. CASE RepairMerge
    <2>1. /\ f = MergedFile(disk) /\ todo' = {} /\ pc'["repair"] = "park"
          /\ readers' = [p \in Copies(disk) |->
                     [complete |-> Complete(disk, p), rejected |-> Rejects(disk, p)]]
      BY <1>1, <1>9 DEF f, RepairMerge, TypeOK, Step, Goto
    <2>2. Copies(disk') = Copies(disk)
      BY <1>5 DEF Copies, Backups, Merge, Day, MergeTags
    <2>3. \A p \in Copies(disk) : p \in DOMAIN disk \ {Merge} /\ (p = Day \/ p[1] \in MergeTags)
      BY DEF Copies, Backups, Merge, Day, MergeTags
    <2>4. ASSUME NEW p \in Copies(disk), Complete(disk, p), ~Rejects(disk, p)
          PROVE  Bytes(disk'[p]) \subseteq Bytes(disk'[Merge])
      <3>1. disk[p].dark = {}
        BY <1>1, <2>3, <2>4 DEF Complete, Rejects, Sound
      <3>2. Bytes(disk[p]) \subseteq Bytes(f)
        BY <1>1, <2>1, <3>1, MergedFileHolds
      <3>3. QED
        BY <1>5, <2>3, <3>2
    <2>5. \A p \in DOMAIN readers' : Carried(p, Merge)'
      BY <2>1, <2>4 DEF Carried
    <2>6. MergeInv'
      BY <1>5, <2>1, <2>2, <2>3, <2>5 DEF MergeInv, On
    <2>7. QED
      BY <1>2, <1>3, <1>5, <1>6, <1>7, <2>6, DiskStep
  <1>10. QED
    BY <1>8, <1>9

(* A file merged in full stays merged in full while neither it nor the     *)
(* merged file changes.                                                    *)
LEMMA StillCarried ==
    ASSUME NEW p, NEW a, NEW b, Carried(p, a), readers' = readers,
           On(disk, p), disk'[p] = disk[p], disk'[b] = disk[a]
    PROVE  Carried(p, b)'
  BY DEF Carried, On

LEMMA ParkStep ==
    ASSUME IInv, LockInv', RepairPark
    PROVE  IInv'
  <1>1. TypeOK /\ DiskOK(disk) /\ LockInv /\ Sound /\ MergeInv
    BY DEF IInv, TypeOK
  <1>2. /\ pc["repair"] = "park" /\ pc'["repair"] = "publish" /\ child' = child
        /\ ever' = ever /\ readers' = readers /\ todo' = todo
    BY <1>1 DEF TypeOK, RepairPark, Step, Goto, onlyDisk, history
  <1>3. \A j \in Jobs : child[j] = "none"
    BY <1>1, <1>2, NobodyCollects
  <1>4. /\ Merge \in DOMAIN disk /\ DOMAIN readers = Copies(disk)
        /\ \A p \in DOMAIN readers : Carried(p, Merge) /\ (p = Day \/ p[1] \in MergeTags)
        /\ todo \subseteq DOMAIN readers \ {Day}
    BY <1>1, <1>2 DEF MergeInv, On, MergePcs
  <1>5. \A p \in DOMAIN readers : p \in DOMAIN disk
    BY <1>4 DEF Copies, Backups
  <1>6. CASE CanonUnsafe
    <2> DEFINE f == FreshName(disk, "backup")
    <2>1. /\ MoveTo(Day, "backup") /\ aside' = f /\ Day \in DOMAIN disk
          /\ "backup" \in MergeTags \cup RetiredTags /\ Day # Merge
      BY <1>5, <1>6 DEF RepairPark, CanonUnsafe, MergeTags, Day, Merge
    <2>2. /\ DiskOK(disk') /\ f \notin DOMAIN disk /\ f[1] = "backup" /\ f \notin {Day, Tmp, Merge}
          /\ DOMAIN disk' = (DOMAIN disk \ {Day}) \cup {f} /\ disk'[f] = disk[Day]
          /\ \A q \in DOMAIN disk \ {Day} : disk'[q] = disk[q]
          /\ Saved(disk') = Saved(disk)
      BY <1>1, <2>1, MoveToFresh
    <2> HIDE DEF f
    <2>3. Sound'
      BY <1>1, <2>1, <2>2, SoundMoved
    <2>4. TypeOK'
      BY <2>2, RepairTyped DEF Repair
    <2>5. \A p \in DOMAIN readers \ {Day} : On(disk', p) /\ Carried(p, Merge)'
      BY <1>2, <1>4, <1>5, <2>1, <2>2, StillCarried DEF On
    <2>6. MergeInv'
      BY <1>2, <1>4, <1>5, <2>1, <2>2, <2>5 DEF MergeInv, On
    <2>7. QED
      BY <1>2, <1>3, <2>2, <2>3, <2>4, <2>6, DiskStep
  <1>7. CASE ~CanonUnsafe
    <2>1. disk' = disk /\ aside' = Day
      BY <1>7 DEF RepairPark
    <2>2. On(disk, Day) => Bytes(disk[Day]) \subseteq Bytes(disk[Merge])
      <3>1. On(disk, Day) => Day \in DOMAIN readers
        BY <1>4 DEF On, Copies
      <3>2. QED
        BY <1>4, <1>7, <3>1 DEF CanonUnsafe, Carried
    <2>3. TypeOK'
      BY <1>1, <2>1, RepairTyped DEF Repair
    <2>4. \A p \in DOMAIN readers \ {Day} : On(disk', p) /\ Carried(p, Merge)'
      BY <1>2, <1>4, <1>5, <2>1, StillCarried DEF On
    <2>5. MergeInv'
      BY <1>2, <1>4, <2>1, <2>2, <2>4 DEF MergeInv, On
    <2>6. QED
      BY <1>1, <1>2, <1>3, <2>1, <2>3, <2>5, DiskStep DEF Sound
  <1>8. QED
    BY <1>6, <1>7

LEMMA PublishStep ==
    ASSUME IInv, LockInv', RepairPublish
    PROVE  IInv'
  <1>1. TypeOK /\ DiskOK(disk) /\ LockInv /\ Sound /\ MergeInv
    BY DEF IInv, TypeOK
  <1>2. /\ pc["repair"] = "publish" /\ pc'["repair"] = "retire" /\ child' = child
        /\ ever' = ever /\ readers' = readers /\ todo' = DOMAIN readers \ {Day}
        /\ aside' = aside /\ disk' = Renamed(disk, Merge, Day)
    BY <1>1 DEF TypeOK, RepairPublish, Step, Goto, onlyDisk, history
  <1>3. \A j \in Jobs : child[j] = "none"
    BY <1>1, <1>2, NobodyCollects
  <1>4. /\ Merge \in DOMAIN disk
        /\ \A p \in DOMAIN readers : p = Day \/ p[1] \in MergeTags
        /\ Day \in DOMAIN disk => Bytes(disk[Day]) \subseteq Bytes(disk[Merge])
        /\ \A p \in DOMAIN readers \ {Day} : p \in DOMAIN disk /\ Carried(p, Merge)
        /\ aside # Day =>
              aside \in DOMAIN disk /\ aside[1] = "backup" /\ aside \notin DOMAIN readers
    BY <1>1, <1>2 DEF MergeInv, On, MergePcs
  <1>5. /\ DiskOK(disk') /\ DOMAIN disk' = (DOMAIN disk \ {Merge}) \cup {Day}
        /\ disk'[Day] = disk[Merge]
        /\ \A p \in DOMAIN disk \ {Merge, Day} : disk'[p] = disk[p]
        /\ Saved(disk) \subseteq Saved(disk')
    <2>1. Merge # Day /\ Day # Merge /\ Day \in Path
      BY PathsTyped DEF Merge, Day
    <2>2. QED
      BY <1>1, <1>2, <1>4, <2>1, RenamedOver
  <1>6. Sound'
    BY <1>1, <1>4, <1>5, SoundMoved
  <1>7. TypeOK'
    BY <1>5, RepairTyped DEF Repair
  <1>8. \A p \in DOMAIN readers \ {Day} : On(disk', p) /\ Carried(p, Day)'
    <2>1. ASSUME NEW p \in DOMAIN readers \ {Day} PROVE p \in DOMAIN disk \ {Merge, Day}
      BY <1>4 DEF Merge, MergeTags
    <2>2. QED
      BY <1>2, <1>4, <1>5, <2>1, StillCarried DEF On
  <1>9. aside # Day => aside \in DOMAIN disk'
    BY <1>4, <1>5 DEF Merge
  <1>10. MergeInv'
    BY <1>2, <1>4, <1>5, <1>8, <1>9 DEF MergeInv, On
  <1>11. QED
    BY <1>2, <1>3, <1>5, <1>6, <1>7, <1>10, DiskStep

LEMMA RetireStep ==
    ASSUME IInv, LockInv', RepairRetire
    PROVE  IInv'
  <1>1. TypeOK /\ DiskOK(disk) /\ LockInv /\ Sound /\ MergeInv
    BY DEF IInv, TypeOK
  <1>2. /\ pc["repair"] = "retire" /\ pc'["repair"] = "dispose" /\ child' = child
        /\ ever' = ever /\ readers' = readers /\ todo' = todo /\ aside' = Day
        /\ disk' = disk \/ (aside # Day /\ MoveTo(aside, "rejected"))
    BY <1>1 DEF TypeOK, RepairRetire, Step, Goto, onlyDisk, history
  <1>3. \A j \in Jobs : child[j] = "none"
    BY <1>1, <1>2, NobodyCollects
  <1>4. /\ Day \in DOMAIN disk
        /\ \A p \in DOMAIN readers : p = Day \/ p[1] \in MergeTags
        /\ todo \subseteq DOMAIN readers \ {Day}
        /\ \A p \in todo : p \in DOMAIN disk /\ Carried(p, Day)
        /\ aside # Day =>
              aside \in DOMAIN disk /\ aside[1] = "backup" /\ aside \notin DOMAIN readers
    BY <1>1, <1>2 DEF MergeInv, On, MergePcs
  <1>5. /\ DiskOK(disk') /\ Sound' /\ Saved(disk') = Saved(disk)
        /\ \A p \in todo \cup {Day} : p \in DOMAIN disk' /\ disk'[p] = disk[p]
    <2>1. CASE disk' = disk
      BY <1>1, <1>4, <2>1 DEF Sound
    <2>2. CASE aside # Day /\ MoveTo(aside, "rejected")
      <3> DEFINE f == FreshName(disk, "rejected")
      <3>1. "rejected" \in MergeTags \cup RetiredTags /\ aside \in DOMAIN disk /\ aside # Merge
        BY <1>4, <2>2 DEF RetiredTags, Merge
      <3>2. /\ DiskOK(disk')
            /\ DOMAIN disk' = (DOMAIN disk \ {aside}) \cup {f} /\ disk'[f] = disk[aside]
            /\ \A q \in DOMAIN disk \ {aside} : disk'[q] = disk[q]
            /\ Saved(disk') = Saved(disk)
        BY <1>1, <2>2, <3>1, MoveToFresh
      <3> HIDE DEF f
      <3>3. Sound'
        BY <1>1, <3>1, <3>2, SoundMoved
      <3>4. QED
        BY <1>4, <2>2, <3>2, <3>3
    <2>3. QED
      BY <1>2, <2>1, <2>2
  <1>6. TypeOK'
    BY <1>5, RepairTyped DEF Repair
  <1>7. \A p \in todo : On(disk', p) /\ Carried(p, Day)'
    BY <1>2, <1>4, <1>5, StillCarried DEF On
  <1>8. MergeInv'
    BY <1>2, <1>4, <1>5, <1>7 DEF MergeInv, On
  <1>9. QED
    BY <1>2, <1>3, <1>5, <1>6, <1>8, DiskStep

LEMMA DisposeStep ==
    ASSUME IInv, LockInv', RepairDispose
    PROVE  IInv'
  <1>1. TypeOK /\ DiskOK(disk) /\ LockInv /\ Sound /\ MergeInv
    BY DEF IInv, TypeOK
  <1>2. PICK p \in todo :
          /\ pc["repair"] = "dispose" /\ pc'["repair"] = "dispose" /\ child' = child
          /\ ever' = ever /\ readers' = readers /\ todo' = todo \ {p} /\ aside' = aside
          /\ Dispose(p)
    BY <1>1 DEF TypeOK, RepairDispose, Step, Goto, onlyDisk, history
  <1>3. \A j \in Jobs : child[j] = "none"
    BY <1>1, <1>2, NobodyCollects
  <1>4. /\ Day \in DOMAIN disk
        /\ \A q \in DOMAIN readers : q = Day \/ q[1] \in MergeTags
        /\ todo \subseteq DOMAIN readers \ {Day}
        /\ \A q \in todo : q \in DOMAIN disk /\ Carried(q, Day)
    BY <1>1, <1>2 DEF MergeInv, On, MergePcs
  <1>5. p \in DOMAIN disk /\ p # Day /\ p # Merge /\ Carried(p, Day)
    BY <1>4 DEF Merge, MergeTags
  <1>6. \/ disk' = disk
        \/ \E tag \in RetiredTags : MoveTo(p, tag)
        \/ readers[p].complete /\ ~readers[p].rejected /\ disk' = Removed(disk, p)
    BY <1>2 DEF Dispose, RetiredTags
  <1>7. /\ DiskOK(disk') /\ Sound' /\ Saved(disk) \subseteq Saved(disk')
        /\ \A q \in DOMAIN disk \ {p} : q \in DOMAIN disk' /\ disk'[q] = disk[q]
    <2>1. CASE disk' = disk
      BY <1>1, <2>1 DEF Sound
    <2>2. CASE \E tag \in RetiredTags : MoveTo(p, tag)
      <3>1. PICK tag \in MergeTags \cup RetiredTags : MoveTo(p, tag)
        BY <2>2
      <3> DEFINE f == FreshName(disk, tag)
      <3>2. /\ DiskOK(disk')
            /\ DOMAIN disk' = (DOMAIN disk \ {p}) \cup {f} /\ disk'[f] = disk[p]
            /\ \A q \in DOMAIN disk \ {p} : disk'[q] = disk[q]
            /\ Saved(disk') = Saved(disk)
        BY <1>1, <1>5, <3>1, MoveToFresh
      <3> HIDE DEF f
      <3>3. Sound'
        BY <1>1, <1>5, <3>2, SoundMoved
      <3>4. QED
        BY <3>2, <3>3
    <2>3. CASE readers[p].complete /\ ~readers[p].rejected /\ disk' = Removed(disk, p)
      <3>1. Bytes(disk[p]) \subseteq Bytes(disk[Day]) /\ Day \in DOMAIN disk \ {p, Merge}
        BY <1>4, <1>5, <2>3 DEF Carried, On, Day, Merge
      <3>2. /\ DiskOK(disk') /\ DOMAIN disk' = DOMAIN disk \ {p}
            /\ \A q \in DOMAIN disk \ {p} : disk'[q] = disk[q]
            /\ Saved(disk) \subseteq Saved(disk')
        BY <1>1, <2>3, <3>1, RemovedKeeps
      <3>3. Sound'
        BY <1>1, <3>2 DEF Sound
      <3>4. QED
        BY <3>2, <3>3
    <2>4. QED
      BY <1>6, <2>1, <2>2, <2>3
  <1>8. TypeOK'
    BY <1>7, RepairTyped DEF Repair
  <1>9. \A q \in todo' : On(disk', q) /\ Carried(q, Day)'
    <2>1. Day \in DOMAIN disk' /\ disk'[Day] = disk[Day]
      BY <1>4, <1>5, <1>7
    <2>2. ASSUME NEW q \in todo' PROVE On(disk', q) /\ Carried(q, Day)'
      <3>1. q \in todo /\ q # p
        BY <1>2, <2>2
      <3>2. q \in DOMAIN disk /\ Carried(q, Day) /\ q \in DOMAIN disk' /\ disk'[q] = disk[q]
        BY <1>4, <1>7, <3>1
      <3>3. QED
        BY <1>2, <2>1, <3>2, StillCarried DEF On
    <2>3. QED
      BY <2>2
  <1>10. MergeInv'
    BY <1>2, <1>4, <1>5, <1>7, <1>9 DEF MergeInv, On
  <1>11. QED
    BY <1>2, <1>3, <1>7, <1>8, <1>10, DiskStep

LEMMA DropStep ==
    ASSUME IInv, LockInv', RepairMergeEmpty \/ RepairRaises
    PROVE  IInv'
  <1>1. TypeOK /\ DiskOK(disk) /\ LockInv /\ Sound
    BY DEF IInv, TypeOK
  <1>2. /\ disk' = disk \/ disk' = Removed(disk, Merge)
        /\ ever' = ever /\ child' = child /\ pc'["repair"] = "fallback"
        /\ pc["repair"] \notin {"idle", "wait", "storing"}
    BY <1>1 DEF TypeOK, RepairMergeEmpty, RepairRaises, Step, Goto, onlyDisk, history, MergePcs
  <1>3. \A j \in Jobs : child[j] = "none"
    BY <1>1, <1>2, NobodyCollects
  <1>4. DiskOK(disk') /\ Sound' /\ Saved(disk) \subseteq Saved(disk')
    <2>1. CASE disk' = disk
      BY <1>1, <2>1 DEF Sound
    <2>2. CASE disk' = Removed(disk, Merge)
      <3>1. /\ DiskOK(disk') /\ DOMAIN disk' = DOMAIN disk \ {Merge}
            /\ \A q \in DOMAIN disk \ {Merge} : disk'[q] = disk[q]
            /\ Saved(disk) \subseteq Saved(disk')
        BY <1>1, <2>2, RemovedKeeps
      <3>2. QED
        BY <1>1, <3>1 DEF Sound
    <2>3. QED
      BY <1>2, <2>1, <2>2
  <1>5. TypeOK'
    BY <1>4, RepairTyped DEF Repair, RepairTrouble
  <1>6. MergeInv'
    BY <1>2, NoMerge DEF MergePcs
  <1>7. QED
    BY <1>2, <1>3, <1>4, <1>5, <1>6, DiskStep

LEMMA FallbackStep ==
    ASSUME IInv, LockInv', FallbackRename \/ FallbackSwap
    PROVE  IInv'
  <1>1. TypeOK /\ DiskOK(disk) /\ LockInv /\ Sound /\ MergeInv
    BY DEF IInv, TypeOK
  <1>2. /\ ever' = ever /\ child' = child /\ pc["repair"] \in {"fallback", "swap"}
    BY <1>1 DEF TypeOK, FallbackRename, FallbackSwap, Step, Goto, onlyDisk, history
  <1>3. \A j \in Jobs : child[j] = "none"
    BY <1>1, <1>2, NobodyCollects
  <1>4. \A b \in BestBackups(disk) : b \in DOMAIN disk /\ b[1] = "backup" /\ b \notin {Day, Merge}
    BY DEF BestBackups, Fit, Backups, Day, Merge
  <1>5. /\ Day # Merge /\ Day \in Path
    BY PathsTyped DEF Day, Merge
  <1>6. ASSUME NEW b \in DOMAIN disk, b \notin {Day, Merge}, Day \notin DOMAIN disk,
               disk' = Renamed(disk, b, Day)
        PROVE  DiskOK(disk') /\ Sound' /\ Saved(disk) \subseteq Saved(disk')
    <2>1. /\ DiskOK(disk') /\ DOMAIN disk' = (DOMAIN disk \ {b}) \cup {Day}
          /\ disk'[Day] = disk[b] /\ \A p \in DOMAIN disk \ {b} : disk'[p] = disk[p]
          /\ Saved(disk') = Saved(disk)
      BY <1>1, <1>5, <1>6, RenamedFree
    <2>2. QED
      BY <1>1, <2>1, SoundMoved
  <1>7. ASSUME DiskOK(disk'), Sound', Saved(disk) \subseteq Saved(disk'), MergeInv'
        PROVE  IInv'
    <2>1. TypeOK'
      BY <1>7, RepairTyped DEF Repair
    <2>2. QED
      BY <1>2, <1>3, <1>7, <2>1, DiskStep
  <1>8. CASE FallbackSwap
    <2>1. /\ pc["repair"] = "swap" /\ pc'["repair"] = "fbrecord"
          /\ disk' = Renamed(disk, aside, Day)
      BY <1>1, <1>8 DEF FallbackSwap, Step, Goto, TypeOK
    <2>2. aside \in DOMAIN disk /\ aside \notin {Day, Merge} /\ Day \notin DOMAIN disk
      BY <1>1, <2>1 DEF MergeInv, On, Day, Merge
    <2>3. MergeInv'
      BY <2>1, NoMerge DEF MergePcs
    <2>4. QED
      BY <1>6, <1>7, <2>1, <2>2, <2>3
  <1>9. CASE FallbackRename
    <2>1. \/ disk' = disk /\ pc'["repair"] = "fbrecord"
          \/ /\ Day \notin DOMAIN disk /\ pc'["repair"] = "fbrecord"
             /\ \E b \in BestBackups(disk) : disk' = Renamed(disk, b, Day)
          \/ /\ Day \in DOMAIN disk /\ pc'["repair"] = "swap"
             /\ MoveTo(Day, "backup") /\ aside' \in BestBackups(disk)
      BY <1>1, <1>9 DEF FallbackRename, Goto, TypeOK, On
    <2>2. CASE disk' = disk /\ pc'["repair"] = "fbrecord"
      <3>1. MergeInv'
        BY <2>2, NoMerge DEF MergePcs
      <3>2. QED
        BY <1>1, <1>7, <2>2, <3>1 DEF Sound
    <2>3. CASE /\ Day \notin DOMAIN disk /\ pc'["repair"] = "fbrecord"
               /\ \E b \in BestBackups(disk) : disk' = Renamed(disk, b, Day)
      <3>1. MergeInv'
        BY <2>3, NoMerge DEF MergePcs
      <3>2. QED
        BY <1>4, <1>6, <1>7, <2>3, <3>1
    <2>4. CASE /\ Day \in DOMAIN disk /\ pc'["repair"] = "swap"
               /\ MoveTo(Day, "backup") /\ aside' \in BestBackups(disk)
      <3> DEFINE f == FreshName(disk, "backup")
      <3>1. "backup" \in MergeTags \cup RetiredTags
        BY DEF MergeTags
      <3>2. /\ DiskOK(disk') /\ f \notin {Day, Tmp, Merge}
            /\ DOMAIN disk' = (DOMAIN disk \ {Day}) \cup {f} /\ disk'[f] = disk[Day]
            /\ \A q \in DOMAIN disk \ {Day} : disk'[q] = disk[q]
            /\ Saved(disk') = Saved(disk)
        BY <1>1, <1>5, <2>4, <3>1, MoveToFresh
      <3> HIDE DEF f
      <3>3. Sound'
        BY <1>1, <2>4, <3>2, SoundMoved
      <3>4. On(disk', aside') /\ aside'[1] = "backup" /\ ~On(disk', Day)
        BY <1>4, <2>4, <3>2 DEF On
      <3>5. MergeInv'
        BY <2>4, <3>4 DEF MergeInv, MergePcs
      <3>6. QED
        BY <1>7, <3>2, <3>3, <3>5
    <2>5. QED
      BY <2>1, <2>2, <2>3, <2>4
  <1>10. QED
    BY <1>8, <1>9

LEMMA SweepStep ==
    ASSUME IInv, LockInv', RepairSweep
    PROVE  IInv'
  <1>1. TypeOK /\ DiskOK(disk) /\ LockInv /\ Sound
    BY DEF IInv, TypeOK
  <1>2. /\ SweepTo(disk') /\ ever' = ever /\ child' = child
        /\ pc["repair"] = "sweep" /\ pc'["repair"] = "idle"
    BY <1>1 DEF TypeOK, RepairSweep, Step, Goto, history
  <1>3. \A j \in Jobs : child[j] = "none"
    BY <1>1, <1>2, NobodyCollects
  <1>4. PICK old \in SUBSET ({Tmp, Merge} \cap DOMAIN disk) :
          LET rest == [p \in DOMAIN disk \ (old \cap {Merge}) |-> disk[p]]
          IN  IF Tmp \in old
              THEN HasRoom(disk, "partial") /\ disk' = Renamed(rest, Tmp, FreshName(disk, "partial"))
              ELSE disk' = rest
    BY <1>2 DEF SweepTo
  <1> DEFINE rest == [p \in DOMAIN disk \ (old \cap {Merge}) |-> disk[p]]
  <1>5. /\ DiskOK(rest) /\ DOMAIN rest = DOMAIN disk \ (old \cap {Merge})
        /\ \A p \in DOMAIN rest : rest[p] = disk[p]
        /\ Saved(disk) \subseteq Saved(rest)
    <2>1. CASE Merge \in old
      <3>1. rest = Removed(disk, Merge) /\ old \cap {Merge} = {Merge}
        BY <2>1 DEF Removed
      <3>2. /\ DiskOK(Removed(disk, Merge)) /\ DOMAIN Removed(disk, Merge) = DOMAIN disk \ {Merge}
            /\ \A q \in DOMAIN disk \ {Merge} : Removed(disk, Merge)[q] = disk[q]
            /\ Saved(disk) \subseteq Saved(Removed(disk, Merge))
        BY <1>1, RemovedKeeps
      <3> HIDE DEF rest
      <3>3. QED
        BY <3>1, <3>2
    <2>2. CASE Merge \notin old
      <3>1. old \cap {Merge} = {}
        BY <2>2
      <3>2. DOMAIN rest = DOMAIN disk /\ \A p \in DOMAIN disk : rest[p] = disk[p]
        BY <3>1
      <3>3. DiskOK(rest)
        BY <1>1, <3>2 DEF DiskOK
      <3>4. Saved(disk) \subseteq Saved(rest)
        BY <3>2 DEF Saved
      <3>5. QED
        BY <3>1, <3>2, <3>3, <3>4
    <2>3. QED
      BY <2>1, <2>2
  <1> HIDE DEF rest
  <1>6. DiskOK(disk') /\ Sound' /\ Saved(disk) \subseteq Saved(disk')
    <2>1. CASE Tmp \in old
      <3> DEFINE f == FreshName(disk, "partial")
      <3>1. disk' = Renamed(rest, Tmp, f) /\ HasRoom(disk, "partial")
        BY <1>4, <2>1 DEF rest
      <3>2. /\ f \notin DOMAIN disk /\ f \in Path /\ f \notin {Day, Tmp, Merge}
        BY <3>1, FreshNameIsFree DEF MergeTags
      <3>3. Tmp \in DOMAIN rest /\ f \notin DOMAIN rest /\ Tmp # Merge /\ f # Merge
        BY <1>5, <2>1, <3>2 DEF Tmp, Merge
      <3> HIDE DEF f
      <3>4. /\ DiskOK(disk') /\ DOMAIN disk' = (DOMAIN rest \ {Tmp}) \cup {f}
            /\ disk'[f] = rest[Tmp] /\ \A p \in DOMAIN rest \ {Tmp} : disk'[p] = rest[p]
            /\ Saved(disk') = Saved(rest)
        <4>1. DiskOK(rest) /\ Tmp \in DOMAIN rest /\ f \in Path /\ f \notin DOMAIN rest
          BY <1>5, <3>2, <3>3
        <4>2. /\ DiskOK(Renamed(rest, Tmp, f))
              /\ DOMAIN Renamed(rest, Tmp, f) = (DOMAIN rest \ {Tmp}) \cup {f}
              /\ Renamed(rest, Tmp, f)[f] = rest[Tmp]
              /\ \A p \in DOMAIN rest \ {Tmp} : Renamed(rest, Tmp, f)[p] = rest[p]
              /\ Saved(Renamed(rest, Tmp, f)) = Saved(rest)
          BY <3>3, <4>1, RenamedFree
        <4>3. QED
          BY <3>1, <4>2
      <3>5. Sound'
        <4>1. \A q \in DOMAIN disk' : \E p \in DOMAIN disk : disk'[q] = disk[p]
          BY <1>5, <3>3, <3>4
        <4>2. QED
          BY <1>1, <4>1, SoundMoved
      <3>6. QED
        BY <1>5, <3>4, <3>5
    <2>2. CASE Tmp \notin old
      <3>1. disk' = rest
        BY <1>4, <2>2 DEF rest
      <3>2. \A q \in DOMAIN disk' : \E p \in DOMAIN disk : disk'[q] = disk[p]
        BY <1>5, <3>1
      <3>3. QED
        BY <1>1, <1>5, <3>1, <3>2, SoundMoved
    <2>3. QED
      BY <2>1, <2>2
  <1>7. TypeOK'
    BY <1>6, RepairTyped DEF Repair
  <1>8. MergeInv'
    BY <1>2, NoMerge DEF MergePcs
  <1>9. QED
    BY <1>2, <1>3, <1>6, <1>7, <1>8, DiskStep

LEMMA RepairStep ==
    ASSUME IInv, LockInv', Repair \/ RepairTrouble
    PROVE  IInv'
  BY RepairSilentStep, QuarantineStep, MergeWriteStep, ParkStep, PublishStep, RetireStep,
     DisposeStep, DropStep, FallbackStep, SweepStep DEF Repair, RepairTrouble, RepairSilent

-----------------------------------------------------------------------------
(* Accidents, cron and the clock *)

LEMMA KillStep ==
    ASSUME IInv, LockInv', (\E j \in Jobs : KillJob(j) \/ KillChild(j)) \/ Reboot
    PROVE  IInv'
  <1> USE DEF KillJob, KillChild, Reboot, Ended, Exit, files, night, locals, clock, history
  <1>1. TypeOK /\ DiskOK(disk)
    BY DEF IInv, TypeOK
  <1>2. UNCHANGED <<disk, status, part, ping, age, asked, ever, dim, full>>
    OBVIOUS
  <1>3. /\ pc' \in [Jobs -> NightPcs \cup RepairPcs]
        /\ pc'["nightly"] \in NightPcs /\ pc'["repair"] \in RepairPcs
        /\ pc'["repair"] \in {"idle", pc["repair"]}
    <2>1. pc' = pc \/ \E gone \in SUBSET Jobs : pc' = [j \in Jobs |-> IF j \in gone THEN "idle" ELSE pc[j]]
      <3>1. \A j \in Jobs : {j} \in SUBSET Jobs
        OBVIOUS
      <3>2. ASSUME NEW j \in Jobs, KillJob(j) \/ KillChild(j)
            PROVE  pc' = pc \/ pc' = [k \in Jobs |-> IF k \in {j} THEN "idle" ELSE pc[k]]
        BY <3>2
      <3>3. Reboot => pc' = [j \in Jobs |-> IF j \in Jobs THEN "idle" ELSE pc[j]]
        OBVIOUS
      <3> QED
        BY <3>1, <3>2, <3>3
    <2>2. /\ pc \in [Jobs -> NightPcs \cup RepairPcs]
          /\ pc["nightly"] \in NightPcs /\ pc["repair"] \in RepairPcs
          /\ "idle" \in NightPcs /\ "idle" \in RepairPcs
      BY <1>1 DEF TypeOK, NightPcs, RepairPcs
    <2> HIDE DEF KillJob, KillChild, Reboot
    <2>3. QED
      BY <2>1, <2>2
  <1>4. /\ child' \in [Jobs -> ChildPcs]
        /\ \A j \in Jobs : child'[j] \in {"none", "api", "aside", "project", child[j]}
    <2>1. \/ child' = child
          \/ \E j \in Jobs : child' = [child EXCEPT ![j] = "none"]
          \/ child' = [j \in Jobs |-> "none"]
      OBVIOUS
    <2>2. child \in [Jobs -> ChildPcs] /\ "none" \in ChildPcs
      BY <1>1 DEF TypeOK, ChildPcs
    <2> HIDE DEF KillJob, KillChild, Reboot
    <2>3. QED
      BY <2>1, <2>2
  <1>5. result' \in [Jobs -> Rc]
    <2>1. \/ result' = result
          \/ \E j \in Jobs, code \in Rc :
                \/ result' = [result EXCEPT ![j] = IF pc[j] = "wait" THEN code ELSE @]
                \/ result' = [k \in Jobs |-> IF k \in {j} THEN code ELSE result[k]]
                \/ result' = [k \in Jobs |-> IF k \in Jobs THEN code ELSE result[k]]
      <3>1. {"bad", "-1", "-2", "absent"} \subseteq Rc
        BY DEF Rc
      <3>2. ASSUME NEW j \in Jobs, KillJob(j)
            PROVE  result' = [k \in Jobs |-> IF k \in {j} THEN "absent" ELSE result[k]]
        BY <3>2
      <3>3. ASSUME NEW j \in Jobs, KillChild(j)
            PROVE  \E code \in {"bad", "-1", "-2"} :
                      result' = [result EXCEPT ![j] = IF pc[j] = "wait" THEN code ELSE @]
        BY <3>3
      <3>4. Reboot => result' = [k \in Jobs |-> IF k \in Jobs THEN "absent" ELSE result[k]]
        OBVIOUS
      <3> HIDE DEF KillJob, KillChild, Reboot
      <3>5. QED
        BY <3>1, <3>2, <3>3, <3>4
    <2>2. result \in [Jobs -> Rc]
      BY <1>1 DEF TypeOK
    <2> HIDE DEF KillJob, KillChild, Reboot
    <2>3. QED
      BY <2>1, <2>2
  <1>6. broken' \in BOOLEAN
    BY <1>1 DEF TypeOK
  <1>7. stored' \in BOOLEAN
    BY <1>1 DEF TypeOK, Report
  <1>8. /\ \/ UNCHANGED locals
           \/ /\ repull' = FALSE /\ prior' = "absent" /\ fresh' = FALSE
              /\ readers' = [p \in {} |-> p] /\ todo' = {} /\ aside' = Day
              /\ pc'["repair"] = "idle"
    BY <1>1 DEF TypeOK
  <1>9. repull' \in BOOLEAN /\ fresh' \in BOOLEAN
    BY <1>1, <1>8 DEF TypeOK
  <1>10. /\ prior' \in Rc /\ aside' \in Path
         /\ DOMAIN readers' \subseteq Path /\ \A p \in DOMAIN readers' : readers'[p] \in Reading
         /\ todo' \subseteq DOMAIN readers'
    BY <1>1, <1>8, PathsTyped DEF TypeOK, Rc
  <1>11. left' \in Nat
    <2>1. left \in Nat
      BY <1>1 DEF TypeOK
    <2>2. Mishap("kill")
      OBVIOUS
    <2>3. QED
      BY <2>1, <2>2 DEF Mishap
  <1>12. TypeOK'
    BY <1>1, <1>2, <1>3, <1>4, <1>5, <1>6, <1>7, <1>9, <1>10, <1>11 DEF TypeOK
  <1>13. MergeInv'
    <2>1. CASE pc'["repair"] = "idle"
      BY <2>1, NoMerge DEF MergePcs
    <2>2. CASE pc'["repair"] # "idle"
      BY <1>2, <1>3, <1>8, <2>2, MergeUntouched
    <2>3. QED
      BY <2>1, <2>2
  <1>14. QED
    BY <1>2, <1>4, <1>12, <1>13, QuietStep

LEMMA RotStep ==
    ASSUME IInv, LockInv', Rot
    PROVE  IInv'
  <1>1. TypeOK /\ DiskOK(disk) /\ Sound /\ PullInv /\ MergeInv /\ NothingLost
    BY DEF IInv, TypeOK
  <1>2. /\ UNCHANGED <<status, part, procs, night, locals, clock, ever, full>>
        /\ Mishap("rot")
    BY DEF Rot
  <1>3. PICK p \in Copies(disk), ending \in {"rotten", "ragged"} :
        \E S \in SUBSET disk[p].good \ {{}} :
          /\ disk[p].ending # "rotten"
          /\ disk' = [disk EXCEPT ![p] = [good |-> @.good \ S, dark |-> @.dark \cup S,
                                          ending |-> ending]]
          /\ dim' = dim \cup S
    BY DEF Rot
  <1>4. PICK S \in SUBSET disk[p].good \ {{}} :
          /\ disk[p].ending # "rotten"
          /\ disk' = [disk EXCEPT ![p] = [good |-> @.good \ S, dark |-> @.dark \cup S,
                                          ending |-> ending]]
          /\ dim' = dim \cup S
    BY <1>3
  <1>5. p \in DOMAIN disk /\ p \notin {Tmp, Merge} /\ disk[p] \in File
    BY <1>1 DEF Copies, Backups, Day, Tmp, Merge, MergeTags, DiskOK
  <1> DEFINE f == [good |-> disk[p].good \ S, dark |-> disk[p].dark \cup S, ending |-> ending]
  <1>6. f \in File /\ Bytes(f) = Bytes(disk[p]) /\ f.ending \notin {"whole", "cut"}
    BY <1>5 DEF File, Bytes, Ending
  <1>7. DOMAIN disk' = DOMAIN disk /\ disk'[p] = f /\ \A q \in DOMAIN disk \ {p} : disk'[q] = disk[q]
    BY <1>4, <1>5
  <1> HIDE DEF f
  <1>8. DiskOK(disk') /\ Sound'
    BY <1>1, <1>6, <1>7 DEF DiskOK, Sound
  <1>9. \A q \in DOMAIN disk : Bytes(disk'[q]) = Bytes(disk[q])
    BY <1>6, <1>7
  <1>10. Saved(disk') = Saved(disk)
    BY <1>7, <1>9 DEF Saved
  <1>11. NothingLost'
    BY <1>1, <1>2, <1>10 DEF NothingLost
  <1>12. TypeOK'
    <2>1. S \subseteq Rec
      BY <1>5 DEF File
    <2>2. left' \in Nat
      BY <1>1, <1>2 DEF Mishap, TypeOK
    <2>3. dim' \subseteq Rec
      BY <1>1, <1>4, <2>1 DEF TypeOK
    <2>4. QED
      BY <1>1, <1>2, <1>8, <2>2, <2>3 DEF TypeOK, procs, night, locals, clock
  <1>13. PullInv'
    <2>1. Tmp \in DOMAIN disk => disk'[Tmp] = disk[Tmp]
      BY <1>5, <1>7
    <2>2. child' = child
      BY <1>2 DEF procs
    <2>3. QED
      BY <1>1, <1>7, <2>1, <2>2 DEF PullInv, On
  <1>14. MergeInv'
    <2>1. pc' = pc /\ readers' = readers /\ todo' = todo /\ aside' = aside
      BY <1>2 DEF procs, locals
    <2>2. \A q : On(disk', q) <=> On(disk, q)
      BY <1>7 DEF On
    <2>3. Copies(disk') = Copies(disk)
      BY <1>7 DEF Copies, Backups
    <2>4. ASSUME NEW q, Carried(q, Merge), On(disk, Merge) PROVE Carried(q, Merge)'
      BY <1>9, <2>1, <2>2, <2>4 DEF Carried, On
    <2>5. ASSUME NEW q, Carried(q, Day), On(disk, Day) PROVE Carried(q, Day)'
      BY <1>9, <2>1, <2>2, <2>5 DEF Carried, On
    <2>6. On(disk, Day) /\ On(disk, Merge) /\ Bytes(disk[Day]) \subseteq Bytes(disk[Merge])
             => Bytes(disk'[Day]) \subseteq Bytes(disk'[Merge])
      BY <1>9 DEF On
    <2>7. QED
      BY <1>1, <2>1, <2>2, <2>3, <2>4, <2>5, <2>6 DEF MergeInv, MergePcs
  <1>15. QED
    BY <1>8, <1>11, <1>12, <1>13, <1>14 DEF IInv

LEMMA ClockStep ==
    ASSUME IInv, LockInv', Garble \/ CronMissed \/ CronLocked \/ NextDay \/ Forgotten \/ UNCHANGED vars
    PROVE  IInv'
  <1> USE DEF Garble, CronMissed, CronLocked, NextDay, Forgotten, vars, files, procs, night,
              locals, clock, history
  <1>1. TypeOK
    BY DEF IInv
  <1>2. UNCHANGED <<disk, part, pc, child, result, broken, stored, ping, locals, ever, dim, full>>
    OBVIOUS
  <1>3. status' \in Rc
    BY <1>1 DEF TypeOK, Rc
  <1>4. asked' \in BOOLEAN
    BY <1>1 DEF TypeOK
  <1>5. left' \in Nat
    <2>1. left \in Nat
      BY <1>1 DEF TypeOK
    <2>2. left' = left \/ (left > 0 /\ left' = left - 1)
      BY DEF NoTrouble, Mishap
    <2>3. QED
      BY <2>1, <2>2
  <1>6. age' \in Nat
    <2>1. age \in Nat
      BY <1>1 DEF TypeOK
    <2>2. age' = age \/ age' = age + 1
      OBVIOUS
    <2>3. QED
      BY <2>1, <2>2
  <1>7. TypeOK'
    BY <1>1, <1>2, <1>3, <1>4, <1>5, <1>6 DEF TypeOK
  <1>8. MergeInv'
    BY <1>2, MergeUntouched
  <1>9. QED
    BY <1>2, <1>7, <1>8, QuietStep

-----------------------------------------------------------------------------
(* The invariant, and what follows from it *)

LEMMA InvInit == Init => IInv
  <1> SUFFICES ASSUME Init PROVE IInv
    OBVIOUS
  <1>1. TypeOK
    BY TypeInit
  <1>2. LockInv
    BY DEF Init, LockInv, Holds, Collecting, CollectorPcs
  <1>3. Sound /\ PullInv /\ MergeInv /\ NothingLost
    BY DEF Init, Sound, PullInv, MergeInv, NothingLost, MergePcs
  <1>4. QED
    BY <1>1, <1>2, <1>3 DEF IInv

LEMMA InvStep == IInv /\ [Next]_vars => IInv'
  <1> SUFFICES ASSUME IInv, [Next]_vars PROVE IInv'
    OBVIOUS
  <1>1. LockInv'
    BY LockStep DEF IInv
  <1>2. QED
    BY <1>1, CollectStep, StoreStep, NightStep, RepairStep, KillStep, RotStep, ClockStep
       DEF Next, Working, Trouble

(* Every variable keeps its type, whatever happens when. *)
THEOREM Typing == Spec => []TypeOK
  <1>1. IInv => TypeOK
    BY DEF IInv
  <1>2. QED
    BY <1>1, InvInit, InvStep, PTL DEF Spec

(* The flock of run_nightly.sh:30-35 and backfill_missed.py:512-518, held  *)
(* by a job and inherited by its children, lets one process at a time work *)
(* on the day's files, also when a job dies and its child lives on.        *)
THEOREM MutualExclusion == Spec => []OneWriter
  <1>1. IInv => OneWriter
    BY DEF IInv, LockInv, OneWriter
  <1>2. QED
    BY <1>1, InvInit, InvStep, PTL DEF Spec

(* No record that ever reached the disk is lost, for any number of copies, *)
(* records, mornings and accidents.                                        *)
THEOREM Durability == Spec => []NothingLost
  <1>1. IInv => NothingLost
    BY DEF IInv
  <1>2. QED
    BY <1>1, InvInit, InvStep, PTL DEF Spec

-----------------------------------------------------------------------------
(* What every step but an arriving record and decay keeps of the files *)

LEMMA MoveKept ==
    ASSUME DiskOK(disk), NEW p \in DOMAIN disk, NEW tag \in MergeTags \cup RetiredTags,
           MoveTo(p, tag), p # Merge, KeptApart(p) => tag # "backup",
           \/ Live(p) => tag \in MergeTags
           \/ \E q \in DOMAIN disk \ {p} : Live(q) /\ disk[p].good \ dim \subseteq disk[q].good
    PROVE  Kept(disk, disk', dim)
  <1> DEFINE f == FreshName(disk, tag)
  <1>1. HasRoom(disk, tag) /\ disk' = Renamed(disk, p, f)
    BY DEF MoveTo
  <1>2. f \notin DOMAIN disk /\ f \in Path /\ f[1] = tag /\ f # Merge
    BY <1>1, FreshNameIsFree
  <1>3. KeptApart(p) => KeptApart(f)
    BY <1>2 DEF KeptApart, MergeTags, RetiredTags
  <1>4. tag \in MergeTags => Live(f)
    BY <1>2 DEF Live
  <1> HIDE DEF f
  <1>5. QED
    BY <1>1, <1>2, <1>3, <1>4, KeptMoved

LEMMA QuarantineKept ==
    ASSUME DiskOK(disk), QuarantineTmp
    PROVE  Kept(disk, disk', dim)
  <1>1. CASE Tmp \in DOMAIN disk
    <2>1. MoveTo(Tmp, "partial") /\ "partial" \in MergeTags /\ Tmp # Merge /\ ~KeptApart(Tmp)
      BY <1>1 DEF QuarantineTmp, On, MergeTags, Tmp, Merge, KeptApart
    <2>2. QED
      BY <1>1, <2>1, MoveKept
  <1>2. CASE Tmp \notin DOMAIN disk
    BY <1>2, KeptSame DEF QuarantineTmp, On
  <1>3. QED
    BY <1>1, <1>2

(* The collector's steps, but for a record that arrives *)
LEMMA CollectKept ==
    ASSUME IInv, NEW j \in Jobs, Collect(j) \/ CollectTrouble(j), ~CollectRecord(j)
    PROVE  Kept(disk, disk', dim)
  <1> USE DEF ChildAt, Exit
  <1>1. DiskOK(disk) /\ Sound /\ PullInv
    BY DEF IInv, TypeOK
  <1>2. CASE CollectStart(j) \/ CollectRefused(j) \/ CollectEnd(j)
    BY <1>2, KeptSame DEF CollectStart, CollectRefused, CollectEnd, files
  <1>3. CASE CollectAside(j)
    <2>1. CASE Day \in DOMAIN disk
      <3>1. MoveTo(Day, "backup") /\ "backup" \in MergeTags /\ Day # Merge /\ ~KeptApart(Day)
        BY <1>3, <2>1 DEF CollectAside, On, MergeTags, Day, Merge, KeptApart
      <3>2. QED
        BY <1>1, <2>1, <3>1, MoveKept
    <2>2. CASE Day \notin DOMAIN disk
      BY <1>3, <2>2, KeptSame DEF CollectAside, On
    <2>3. QED
      BY <2>1, <2>2
  <1>4. CASE CollectQuarantine(j)
    BY <1>1, <1>4, QuarantineKept DEF CollectQuarantine
  <1>5. CASE CollectOpen(j)
    <2>1. disk' = Written(disk, Tmp, EmptyCut) /\ Tmp \notin DOMAIN disk
      BY <1>1, <1>5 DEF CollectOpen, EmptyCut, PullInv, On
    <2>2. EmptyCut.dark = {} /\ EmptyCut.good = {}
      BY DEF EmptyCut
    <2>3. QED
      BY <1>1, <2>1, <2>2, EmptyCutTyped, KeptWritten
  <1> DEFINE f == [disk[Tmp] EXCEPT !.ending = "whole"]
             d == [disk EXCEPT ![Tmp].ending = "whole"]
  <1>6. ASSUME child[j] = "fetch"
        PROVE  /\ Tmp \in DOMAIN disk /\ Day \notin DOMAIN disk /\ disk[Tmp].dark = {}
               /\ f \in File /\ f.good = disk[Tmp].good /\ f.dark = {} /\ d = Written(disk, Tmp, f)
               /\ Kept(disk, d, dim)
    <2>1. /\ Tmp \in DOMAIN disk /\ Day \notin DOMAIN disk /\ disk[Tmp].dark = {}
          /\ disk[Tmp] \in File
      BY <1>1, <1>6 DEF PullInv, On, Sound, DiskOK
    <2>2. f \in File /\ f.good = disk[Tmp].good /\ f.dark = {}
      BY <2>1 DEF File, Ending
    <2>3. d = Written(disk, Tmp, f)
      BY <2>1 DEF Written
    <2> HIDE DEF f, d
    <2>4. QED
      BY <1>1, <2>1, <2>2, <2>3, KeptWritten
  <1> HIDE DEF f, d
  <1>7. CASE CollectRaises(j)
    <2>1. child[j] = "fetch" /\ (disk' = d \/ disk' = [disk EXCEPT ![Tmp].ending = "cut"])
      BY <1>7 DEF CollectRaises, d
    <2>2. disk[Tmp].ending = "cut" /\ Tmp \in DOMAIN disk /\ disk[Tmp] \in File
      BY <1>1, <2>1 DEF PullInv, On, DiskOK
    <2>3. CASE disk' = [disk EXCEPT ![Tmp].ending = "cut"]
      <3> DEFINE g == [disk[Tmp] EXCEPT !.ending = "cut"]
      <3>1. g \in File /\ g.good = disk[Tmp].good /\ g.dark = {}
        BY <1>6, <2>1, <2>2 DEF File, Ending
      <3>2. disk' = Written(disk, Tmp, g)
        BY <2>2, <2>3 DEF Written
      <3> HIDE DEF g
      <3>3. QED
        BY <1>1, <2>2, <3>1, <3>2, <1>6, <2>1, KeptWritten
    <2>4. QED
      BY <1>6, <2>1, <2>3
  <1>8. CASE CollectNothing(j)
    <2>1. /\ disk' = Removed(disk, Tmp) /\ Bytes(disk[Tmp]) = {} /\ ~KeptApart(Tmp)
      BY <1>6, <1>8 DEF CollectNothing, Bytes, KeptApart, Tmp
    <2>2. QED
      BY <1>1, <2>1, KeptRemoved
  <1>9. CASE CollectPublish(j)
    <2>1. child[j] = "fetch" /\ disk' = Renamed(d, Tmp, Day)
      BY <1>9 DEF CollectPublish, d
    <2>2. /\ DiskOK(d) /\ DOMAIN d = DOMAIN disk
      <3>1. d = Written(disk, Tmp, f) /\ Tmp \in DOMAIN disk /\ f \in File /\ Bytes(disk[Tmp]) \subseteq Bytes(f)
        BY <1>6, <2>1 DEF Bytes
      <3>2. DiskOK(Written(disk, Tmp, f)) /\ DOMAIN Written(disk, Tmp, f) = DOMAIN disk \cup {Tmp}
        BY <1>1, <3>1, WrittenKeeps, PathsTyped
      <3>3. QED
        BY <3>1, <3>2
    <2>3. Tmp \in DOMAIN d /\ Day \notin DOMAIN d
      BY <1>6, <2>1, <2>2
    <2>4. Tmp # Merge /\ Day # Merge /\ ~KeptApart(Tmp) /\ Live(Day)
      BY DEF Tmp, Merge, Day, KeptApart, Live
    <2>5. Kept(d, Renamed(d, Tmp, Day), dim)
      BY <2>2, <2>3, <2>4, PathsTyped, KeptMoved
    <2>6. QED
      BY <1>6, <2>1, <2>5, KeptTwice
  <1>10. QED
    BY <1>2, <1>3, <1>4, <1>5, <1>7, <1>8, <1>9 DEF Collect, CollectTrouble

(* The merge output is written over, thrown away, or left *)
LEMMA OutputKept ==
    ASSUME IInv, RepairMergeOpen \/ RepairMerge \/ RepairMergeEmpty \/ RepairRaises
    PROVE  Kept(disk, disk', dim)
  <1>1. DiskOK(disk) /\ ~KeptApart(Merge)
    BY DEF IInv, TypeOK, KeptApart, Merge
  <1>2. Kept(disk, Written(disk, Merge, EmptyCut), dim)
    BY <1>1, EmptyCutTyped, KeptWritten DEF EmptyCut
  <1>3. Kept(disk, Written(disk, Merge, MergedFile(disk)), dim)
    BY <1>1, MergedFileHolds, KeptWritten
  <1>4. Kept(disk, Removed(disk, Merge), dim)
    BY <1>1, KeptRemoved
  <1>5. QED
    BY <1>2, <1>3, <1>4, KeptSame DEF RepairMergeOpen, RepairMerge, RepairMergeEmpty, RepairRaises

LEMMA ParkKept ==
    ASSUME IInv, RepairPark
    PROVE  Kept(disk, disk', dim)
  <1>1. DiskOK(disk) /\ pc["repair"] = "park" /\ MergeInv
    BY DEF IInv, TypeOK, RepairPark, Step
  <1>2. CASE CanonUnsafe
    <2>1. Day \in DOMAIN disk
      BY <1>1, <1>2 DEF CanonUnsafe, MergeInv, Copies, Backups
    <2>2. MoveTo(Day, "backup") /\ "backup" \in MergeTags /\ Day # Merge /\ ~KeptApart(Day)
      BY <1>2 DEF RepairPark, MergeTags, Day, Merge, KeptApart
    <2>3. QED
      BY <1>1, <2>1, <2>2, MoveKept
  <1>3. CASE ~CanonUnsafe
    BY <1>3, KeptSame DEF RepairPark
  <1>4. QED
    BY <1>2, <1>3

LEMMA PublishKept ==
    ASSUME IInv, YieldInv, RepairPublish
    PROVE  Kept(disk, disk', dim)
  <1>1. DiskOK(disk) /\ pc["repair"] = "publish" /\ MergeInv
    BY DEF IInv, TypeOK, RepairPublish, Step
  <1>2. /\ Merge \in DOMAIN disk /\ Bytes(disk[Merge]) \subseteq Saved(disk)
        /\ Day \in DOMAIN disk => /\ Bytes(disk[Day]) \subseteq Bytes(disk[Merge])
                                  /\ disk[Day].good \ dim \subseteq disk[Merge].good
    BY <1>1 DEF MergeInv, YieldInv, Yields, On
  <1>3. QED
    BY <1>1, <1>2, KeptPublished DEF RepairPublish

LEMMA RetireKept ==
    ASSUME IInv, YieldInv, RepairRetire
    PROVE  Kept(disk, disk', dim)
  <1>1. DiskOK(disk) /\ pc["repair"] = "retire" /\ MergeInv
    BY DEF IInv, TypeOK, RepairRetire, Step
  <1>2. CASE disk' = disk
    BY <1>2, KeptSame
  <1>3. CASE aside # Day /\ MoveTo(aside, "rejected")
    <2>1. /\ aside \in DOMAIN disk /\ aside[1] = "backup" /\ Day \in DOMAIN disk
          /\ disk[aside].good \ dim \subseteq disk[Day].good
      BY <1>1, <1>3 DEF MergeInv, YieldInv, Yields, On
    <2>2. /\ aside # Merge /\ ~KeptApart(aside) /\ Day \in DOMAIN disk \ {aside} /\ Live(Day)
          /\ "rejected" \in RetiredTags
      BY <1>3, <2>1 DEF Merge, KeptApart, Live, RetiredTags
    <2>3. QED
      BY <1>1, <1>3, <2>1, <2>2, MoveKept
  <1>4. QED
    BY <1>2, <1>3 DEF RepairRetire

LEMMA DisposeKept ==
    ASSUME IInv, YieldInv, RepairDispose
    PROVE  Kept(disk, disk', dim)
  <1>1. DiskOK(disk) /\ pc["repair"] = "dispose" /\ MergeInv
    BY DEF IInv, TypeOK, RepairDispose, Step
  <1>2. PICK p \in todo : Dispose(p)
    BY DEF RepairDispose
  <1>3. /\ p \in DOMAIN disk /\ Carried(p, Day) /\ Day \in DOMAIN disk /\ p[1] \in MergeTags
        /\ disk[p].good \ dim \subseteq disk[Day].good
    BY <1>1, <1>2 DEF MergeInv, MergePcs, YieldInv, Yields, On
  <1>4. p \notin {Merge, Day} /\ p[1] \in {"backup", "partial"}
    BY <1>3 DEF Merge, Day, MergeTags
  <1>5. Day \in DOMAIN disk \ {p, Merge} /\ Live(Day)
    BY <1>3, <1>4 DEF Live, Day, Merge
  <1>6. CASE disk' = disk
    BY <1>6, KeptSame
  <1>7. CASE \E tag \in RetiredTags : MoveTo(p, tag)
    <2>1. PICK tag \in RetiredTags : MoveTo(p, tag)
      BY <1>7
    <2>2. tag # "backup"
      BY DEF RetiredTags
    <2>3. QED
      BY <1>1, <1>3, <1>4, <1>5, <2>1, <2>2, MoveKept
  <1>8. CASE readers[p].complete /\ ~readers[p].rejected /\ p[1] # "partial" /\ disk' = Removed(disk, p)
    <2>1. Bytes(disk[p]) \subseteq Bytes(disk[Day]) /\ ~KeptApart(p)
      BY <1>3, <1>4, <1>8 DEF Carried, On, KeptApart
    <2>2. QED
      BY <1>1, <1>3, <1>5, <1>8, <2>1, KeptRemoved
  <1>9. QED
    BY <1>2, <1>6, <1>7, <1>8 DEF Dispose, RetiredTags

LEMMA FallbackKept ==
    ASSUME IInv, FallbackRename \/ FallbackSwap
    PROVE  Kept(disk, disk', dim)
  <1>1. DiskOK(disk) /\ MergeInv
    BY DEF IInv, TypeOK
  <1>2. ASSUME NEW b \in DOMAIN disk, b[1] = "backup", Day \notin DOMAIN disk,
               disk' = Renamed(disk, b, Day)
        PROVE  Kept(disk, disk', dim)
    <2>1. b # Merge /\ Day # Merge /\ ~KeptApart(b) /\ Live(Day)
      BY <1>2 DEF Merge, Day, KeptApart, Live
    <2>2. QED
      BY <1>1, <1>2, <2>1, PathsTyped, KeptMoved
  <1>3. CASE FallbackSwap
    BY <1>1, <1>2, <1>3 DEF FallbackSwap, Step, MergeInv, On
  <1>4. CASE FallbackRename
    <2>1. \/ disk' = disk
          \/ Day \notin DOMAIN disk /\ \E b \in BestBackups(disk) : disk' = Renamed(disk, b, Day)
          \/ Day \in DOMAIN disk /\ MoveTo(Day, "backup")
      BY <1>4 DEF FallbackRename, On
    <2>2. \A b \in BestBackups(disk) : b \in DOMAIN disk /\ b[1] = "backup"
      BY DEF BestBackups, Fit, Backups
    <2>3. ASSUME Day \in DOMAIN disk, MoveTo(Day, "backup") PROVE Kept(disk, disk', dim)
      <3>1. "backup" \in MergeTags /\ Day # Merge /\ ~KeptApart(Day)
        BY DEF MergeTags, Day, Merge, KeptApart
      <3>2. QED
        BY <1>1, <2>3, <3>1, MoveKept
    <2>4. QED
      BY <1>2, <2>1, <2>2, <2>3, KeptSame
  <1>5. QED
    BY <1>3, <1>4

LEMMA SweepKept ==
    ASSUME IInv, RepairSweep
    PROVE  Kept(disk, disk', dim)
  <1>1. DiskOK(disk) /\ SweepTo(disk')
    BY DEF IInv, TypeOK, RepairSweep
  <1>2. PICK old \in SUBSET ({Tmp, Merge} \cap DOMAIN disk) :
          LET rest == [p \in DOMAIN disk \ (old \cap {Merge}) |-> disk[p]]
          IN  IF Tmp \in old
              THEN HasRoom(disk, "partial") /\ disk' = Renamed(rest, Tmp, FreshName(disk, "partial"))
              ELSE disk' = rest
    BY <1>1 DEF SweepTo
  <1> DEFINE rest == [p \in DOMAIN disk \ (old \cap {Merge}) |-> disk[p]]
  <1>3. DiskOK(rest) /\ DOMAIN rest \subseteq DOMAIN disk /\ Kept(disk, rest, dim)
        /\ (Tmp \in old => Tmp \in DOMAIN rest)
    <2>1. Tmp \in old => Tmp \in DOMAIN rest
      BY DEF Tmp, Merge
    <2>2. CASE Merge \in old
      <3>1. rest = Removed(disk, Merge) /\ ~KeptApart(Merge)
        <4>1. old \cap {Merge} = {Merge}
          BY <2>2
        <4>2. QED
          BY <4>1 DEF Removed, KeptApart, Merge
      <3>2. DiskOK(Removed(disk, Merge)) /\ DOMAIN Removed(disk, Merge) = DOMAIN disk \ {Merge}
        BY <1>1, RemovedKeeps
      <3>3. Kept(disk, Removed(disk, Merge), dim)
        BY <1>1, <3>1, KeptRemoved
      <3> HIDE DEF rest
      <3>4. QED
        BY <2>1, <3>1, <3>2, <3>3
    <2>3. CASE Merge \notin old
      <3>1. old \cap {Merge} = {}
        BY <2>3
      <3>2. DOMAIN rest = DOMAIN disk /\ \A p \in DOMAIN disk : rest[p] = disk[p]
        BY <3>1
      <3> HIDE DEF rest
      <3>3. DiskOK(rest)
        BY <1>1, <3>2 DEF DiskOK
      <3>4. Saved(rest) = Saved(disk) /\ Yielded(rest) = Yielded(disk)
        BY <3>2 DEF Saved, Yielded
      <3>5. Kept(disk, rest, dim)
        BY <3>2, <3>4 DEF Kept
      <3>6. QED
        BY <2>1, <3>2, <3>3, <3>5
    <2>4. QED
      BY <2>2, <2>3
  <1>4. CASE Tmp \notin old
    BY <1>2, <1>3, <1>4
  <1>5. CASE Tmp \in old
    <2> DEFINE f == FreshName(disk, "partial")
    <2>1. HasRoom(disk, "partial") /\ disk' = Renamed(rest, Tmp, f)
      BY <1>2, <1>5
    <2>2. /\ f \notin DOMAIN disk /\ f \in Path /\ f[1] = "partial" /\ f # Merge
      BY <2>1, FreshNameIsFree DEF MergeTags
    <2> HIDE DEF f, rest
    <2>3. Tmp \in DOMAIN rest /\ f \notin DOMAIN rest /\ Tmp # Merge /\ ~KeptApart(Tmp) /\ Live(f)
      BY <1>3, <1>5, <2>2 DEF Tmp, Merge, KeptApart, Live, MergeTags
    <2>4. Kept(rest, Renamed(rest, Tmp, f), dim)
      BY <1>3, <2>2, <2>3, KeptMoved
    <2>5. QED
      BY <1>3, <2>1, <2>4, KeptTwice
  <1>6. QED
    BY <1>4, <1>5

LEMMA RepairKept ==
    ASSUME IInv, YieldInv, Repair \/ RepairTrouble
    PROVE  Kept(disk, disk', dim)
  <1>1. DiskOK(disk)
    BY DEF IInv, TypeOK
  <1>2. CASE RepairQuarantine \/ RepairCollected
    BY <1>1, <1>2, QuarantineKept, KeptSame DEF RepairQuarantine, RepairCollected
  <1>3. CASE RepairSilent
    BY <1>3, KeptSame DEF RepairSilent, MorningStart, RepairByHand, RepairMark, RepairGuard,
         RepairNoSpace, RepairNothing, RepairDisposed, RepairRecord, RepairProject,
         RepairProjected, FallbackRecord, FallbackRaises, files
  <1>4. QED
    BY <1>2, <1>3, OutputKept, ParkKept, PublishKept, RetireKept, DisposeKept, FallbackKept,
       SweepKept DEF Repair, RepairTrouble, RepairSilent

(* No other step touches the files *)
LEMMA EffectStep ==
    ASSUME IInv, YieldInv, [Next]_vars, ~Rot, \A j \in Jobs : ~CollectRecord(j)
    PROVE  Kept(disk, disk', dim) /\ dim' = dim /\ ever' = ever
  <1>1. ASSUME NEW j \in Jobs, Collect(j) \/ CollectTrouble(j)
        PROVE  Kept(disk, disk', dim) /\ dim' = dim /\ ever' = ever
    BY <1>1, CollectKept DEF Collect, CollectTrouble, CollectStart, CollectRefused, CollectAside,
         CollectQuarantine, CollectOpen, CollectRaises, CollectNothing, CollectPublish, CollectEnd,
         history
  <1>2. CASE Repair \/ RepairTrouble
    <2>1. dim' = dim /\ ever' = ever
      BY <1>2 DEF Repair, RepairTrouble, MorningStart, RepairByHand, RepairMark,
         RepairQuarantine, RepairGuard, RepairNoSpace, RepairCollected, RepairNothing,
         RepairMergeOpen, RepairMerge, RepairMergeEmpty, RepairPark, RepairPublish, RepairRetire,
         RepairDispose, RepairDisposed, RepairRecord, RepairProject, RepairProjected,
         FallbackRename, FallbackSwap, FallbackRecord, RepairRaises, FallbackRaises, RepairSweep,
         onlyDisk, history
    <2>2. QED
      BY <1>2, <2>1, RepairKept
  <1>3. CASE Night \/ NightTrouble
    BY <1>3, KeptSame DEF Night, NightTrouble, NightStart, NightAgain, NightCollect, NightNoSpace,
         NightRecord, NightProject, NightStored, NightPing, files, history
  <1>4. ASSUME NEW j \in Jobs, StoreProject(j) \/ StoreRefuses(j) \/ StoreFails(j) \/ KillJob(j) \/ KillChild(j)
        PROVE  Kept(disk, disk', dim) /\ dim' = dim /\ ever' = ever
    BY <1>4, KeptSame DEF StoreProject, StoreRefuses, StoreFails, KillJob, KillChild, onlyStore,
         files, history
  <1>5. CASE Reboot \/ Garble \/ CronMissed \/ CronLocked \/ NextDay \/ Forgotten \/ UNCHANGED vars
    BY <1>5, KeptSame DEF Reboot, Garble, CronMissed, CronLocked, NextDay, Forgotten, vars, files,
         history
  <1>6. QED
    BY <1>1, <1>2, <1>3, <1>4, <1>5 DEF Next, Working, Trouble

(* A record that arrives is one more in the download *)
LEMMA RecordEffect ==
    ASSUME IInv, NEW j \in Jobs, CollectRecord(j)
    PROVE  \E r \in Rec :
              /\ Saved(disk') = Saved(disk) \cup {r} /\ Yielded(disk') = Yielded(disk) \cup {r}
              /\ DOMAIN disk' = DOMAIN disk
              /\ \A q \in DOMAIN disk : disk'[q].dark = disk[q].dark /\ (q # Tmp => disk'[q] = disk[q])
              /\ ever' = ever \cup {r} /\ dim' = dim
  <1>1. PICK r \in Rec : disk' = [disk EXCEPT ![Tmp].good = @ \cup {r}] /\ ever' = ever \cup {r}
    BY DEF CollectRecord
  <1>2. Tmp \in DOMAIN disk /\ disk[Tmp] \in File /\ dim' = dim
    BY DEF IInv, TypeOK, PullInv, CollectRecord, ChildAt, On, DiskOK
  <1> DEFINE f == [disk[Tmp] EXCEPT !.good = @ \cup {r}]
  <1>3. f.good = disk[Tmp].good \cup {r} /\ f.dark = disk[Tmp].dark
    BY <1>2 DEF File
  <1>4. DOMAIN disk' = DOMAIN disk /\ disk'[Tmp] = f /\ \A q \in DOMAIN disk : q # Tmp => disk'[q] = disk[q]
    BY <1>1, <1>2
  <1> HIDE DEF f
  <1>5. Tmp # Merge /\ Live(Tmp)
    BY DEF Tmp, Merge, Live
  <1>6. Saved(disk') = Saved(disk) \cup {r}
    <2>1. Bytes(disk'[Tmp]) = Bytes(disk[Tmp]) \cup {r}
      BY <1>3, <1>4 DEF Bytes
    <2>2. \A x : x \in Saved(disk') => x \in Saved(disk) \cup {r}
      BY <1>4, <2>1 DEF Saved
    <2>3. Saved(disk) \subseteq Saved(disk') /\ r \in Saved(disk')
      BY <1>2, <1>4, <1>5, <2>1 DEF Saved
    <2>4. QED
      BY <2>2, <2>3
  <1>7. Yielded(disk') = Yielded(disk) \cup {r}
    <2>1. \A x : x \in Yielded(disk') => x \in Yielded(disk) \cup {r}
      BY <1>3, <1>4 DEF Yielded
    <2>2. Yielded(disk) \subseteq Yielded(disk') /\ r \in Yielded(disk')
      BY <1>2, <1>3, <1>4, <1>5 DEF Yielded
    <2>3. QED
      BY <2>1, <2>2
  <1>8. QED
    BY <1>1, <1>2, <1>3, <1>4, <1>6, <1>7

(* Decay takes records of one copy from its readers, and no byte from it *)
LEMMA RotEffect ==
    ASSUME IInv, Rot
    PROVE  \E p \in Copies(disk) : \E S \in SUBSET disk[p].good :
              /\ DOMAIN disk' = DOMAIN disk /\ dim' = dim \cup S
              /\ disk'[p].good = disk[p].good \ S /\ disk'[p].dark = disk[p].dark \cup S
              /\ disk'[p].ending \in {"rotten", "ragged"}
              /\ \A q \in DOMAIN disk : q # p => disk'[q] = disk[q]
              /\ \A q \in DOMAIN disk : Bytes(disk'[q]) = Bytes(disk[q])
              /\ Saved(disk') = Saved(disk)
              /\ UNCHANGED <<status, part, procs, night, locals, clock, ever, full>>
  <1>1. PICK p \in Copies(disk), ending \in {"rotten", "ragged"} :
        \E S \in SUBSET disk[p].good \ {{}} :
          /\ disk' = [disk EXCEPT ![p] = [good |-> @.good \ S, dark |-> @.dark \cup S,
                                          ending |-> ending]]
          /\ dim' = dim \cup S
    BY DEF Rot
  <1>2. PICK S \in SUBSET disk[p].good :
          /\ disk' = [disk EXCEPT ![p] = [good |-> @.good \ S, dark |-> @.dark \cup S,
                                          ending |-> ending]]
          /\ dim' = dim \cup S
    BY <1>1
  <1> DEFINE f == [good |-> disk[p].good \ S, dark |-> disk[p].dark \cup S, ending |-> ending]
  <1>3. p \in DOMAIN disk
    BY DEF Copies, Backups
  <1>4. f.good = disk[p].good \ S /\ f.dark = disk[p].dark \cup S /\ f.ending = ending
    OBVIOUS
  <1>5. DOMAIN disk' = DOMAIN disk /\ disk'[p] = f /\ \A q \in DOMAIN disk : q # p => disk'[q] = disk[q]
    BY <1>2, <1>3
  <1> HIDE DEF f
  <1>6. \A q \in DOMAIN disk : Bytes(disk'[q]) = Bytes(disk[q])
    <2>1. Bytes(f) = Bytes(disk[p])
      BY <1>4 DEF Bytes
    <2>2. QED
      BY <1>5, <2>1
  <1>7. Saved(disk') = Saved(disk)
    BY <1>5, <1>6 DEF Saved
  <1>8. UNCHANGED <<status, part, procs, night, locals, clock, ever, full>>
    BY DEF Rot
  <1>9. QED
    BY <1>2, <1>4, <1>5, <1>6, <1>7, <1>8

-----------------------------------------------------------------------------
(* The invariant of the records *)

LEMMA HistoryStep ==
    ASSUME IInv, HistoryInv, YieldInv, [Next]_vars
    PROVE  HistoryInv'
  <1> USE DEF HistoryInv
  <1>1. CASE Rot
    <2>1. PICK p \in Copies(disk) : \E S \in SUBSET disk[p].good :
              /\ DOMAIN disk' = DOMAIN disk /\ dim' = dim \cup S /\ ever' = ever
              /\ disk'[p].good = disk[p].good \ S /\ disk'[p].dark = disk[p].dark \cup S
              /\ \A q \in DOMAIN disk : q # p => disk'[q] = disk[q]
              /\ Saved(disk') = Saved(disk)
      BY <1>1, RotEffect
    <2>2. PICK S \in SUBSET disk[p].good :
              /\ DOMAIN disk' = DOMAIN disk /\ dim' = dim \cup S /\ ever' = ever
              /\ disk'[p].good = disk[p].good \ S /\ disk'[p].dark = disk[p].dark \cup S
              /\ \A q \in DOMAIN disk : q # p => disk'[q] = disk[q]
              /\ Saved(disk') = Saved(disk)
      BY <2>1
    <2>3. Yielded(disk) \ S \subseteq Yielded(disk')
      BY <2>2 DEF Yielded
    <2>4. \A q \in DOMAIN disk : disk'[q].dark \subseteq disk[q].dark \cup S
      BY <2>2
    <2>5. QED
      BY <2>2, <2>3, <2>4
  <1>2. ASSUME NEW j \in Jobs, CollectRecord(j) PROVE HistoryInv'
    BY <1>2, RecordEffect
  <1>3. CASE ~Rot /\ \A j \in Jobs : ~CollectRecord(j)
    <2>1. Kept(disk, disk', dim) /\ dim' = dim /\ ever' = ever
      BY <1>3, EffectStep
    <2>2. ASSUME NEW q \in DOMAIN disk' PROVE disk'[q].dark \subseteq dim
      BY <2>1 DEF Kept
    <2>3. QED
      BY <2>1, <2>2 DEF Kept
  <1>4. QED
    BY <1>1, <1>2, <1>3

(* No byte of a copy kept apart is lost by any step *)
LEMMA RawBytesStep ==
    ASSUME IInv, YieldInv, [Next]_vars, NEW p \in DOMAIN disk, KeptApart(p)
    PROVE  \E q \in DOMAIN disk' : KeptApart(q) /\ Bytes(disk'[q]) = Bytes(disk[p])
  <1>1. CASE Rot
    BY <1>1, RotEffect
  <1>2. ASSUME NEW j \in Jobs, CollectRecord(j)
        PROVE  \E q \in DOMAIN disk' : KeptApart(q) /\ Bytes(disk'[q]) = Bytes(disk[p])
    <2>1. p # Tmp
      BY DEF KeptApart, Tmp
    <2>2. QED
      BY <1>2, <2>1, RecordEffect
  <1>3. CASE ~Rot /\ \A j \in Jobs : ~CollectRecord(j)
    BY <1>3, EffectStep DEF Kept
  <1>4. QED
    BY <1>1, <1>2, <1>3

-----------------------------------------------------------------------------
(* Exit code 0 *)

LEMMA ZeroStep ==
    ASSUME IInv, ZeroInv, [Next]_vars
    PROVE  ZeroInv'
  <1> USE DEF ZeroInv
  <1>0. result \in [Jobs -> Rc]
    BY DEF IInv, TypeOK
  <1>1. full' = full \/ full'
    BY DEF IInv, TypeOK, Next, Working, Trouble, vars, history, onlyStore, onlyDisk,
         Night, NightTrouble, NightStart, NightAgain, NightCollect, NightNoSpace, NightRecord,
         NightProject, NightStored, NightPing, Collect, CollectTrouble, CollectStart,
         CollectRefused, CollectAside, CollectQuarantine, CollectOpen, CollectRecord,
         CollectRaises, CollectNothing, CollectPublish, CollectEnd, StoreProject, StoreRefuses,
         StoreFails, KillJob, KillChild, Reboot, Rot, Garble, CronMissed, CronLocked, NextDay,
         Forgotten, Repair, RepairTrouble, MorningStart, RepairByHand, RepairMark,
         RepairQuarantine, RepairGuard, RepairNoSpace, RepairCollected, RepairNothing,
         RepairMergeOpen, RepairMerge, RepairMergeEmpty, RepairPark, RepairPublish, RepairRetire,
         RepairDispose, RepairDisposed, RepairRecord, RepairProject, RepairProjected,
         FallbackRename, FallbackSwap, FallbackRecord, RepairRaises, FallbackRaises, RepairSweep
  <1> SUFFICES ASSUME ~full, ~full' PROVE ZeroInv'
    BY <1>1
  <1>2. status # "0" /\ prior # "0" /\ \A j \in Jobs : result[j] # "0"
    OBVIOUS
  <1>3. ASSUME NEW j \in Jobs, Collect(j) \/ CollectTrouble(j)
        PROVE  ZeroInv'
    BY <1>0, <1>2, <1>3 DEF Collect, CollectTrouble, CollectStart, CollectRefused, CollectAside,
         CollectQuarantine, CollectOpen, CollectRecord, CollectRaises, CollectNothing,
         CollectPublish, CollectEnd, Exit, onlyFiles, files, locals
  <1>4. ASSUME NEW j \in Jobs, StoreProject(j) \/ StoreRefuses(j) \/ StoreFails(j)
        PROVE  ZeroInv'
    BY <1>2, <1>4 DEF StoreProject, StoreRefuses, StoreFails, onlyStore, locals
  <1>5. CASE Night \/ NightTrouble
    <2>1. prior' = prior /\ status' \in {status, "-1", "bad", result["nightly"]}
      BY <1>5 DEF Night, NightTrouble, NightStart, NightAgain, NightCollect, NightNoSpace,
           NightRecord, NightProject, NightStored, NightPing, Record, files, locals
    <2>2. result' = result \/ result' = [result EXCEPT !["nightly"] = "absent"]
      BY <1>5 DEF Night, NightTrouble, NightStart, NightAgain, NightCollect, NightNoSpace,
           NightRecord, NightProject, NightStored, NightPing
    <2>3. \A j \in Jobs : result'[j] # "0"
      BY <1>0, <1>2, <2>2
    <2>4. prior' # "0" /\ status' # "0"
      BY <1>2, <2>1
    <2>5. QED
      BY <2>3, <2>4
  <1>6. CASE Repair \/ RepairTrouble
    <2>1. /\ status' \in {status, "-1", "3", FinalRc} /\ prior' \in {prior, "absent", PriorRc}
          /\ result' = result \/ result' = [result EXCEPT !["repair"] = "absent"]
      BY <1>6 DEF Repair, RepairTrouble, MorningStart, RepairByHand, Begin, RepairMark,
         RepairQuarantine, RepairGuard, RepairNoSpace, RepairCollected, RepairNothing,
         RepairMergeOpen, RepairMerge, RepairMergeEmpty, RepairPark, RepairPublish, RepairRetire,
         RepairDispose, RepairDisposed, RepairRecord, RepairProject, RepairProjected,
         FallbackRename, FallbackSwap, FallbackRecord, RepairRaises, FallbackRaises, RepairSweep,
         onlyDisk, files, locals, Forget
    <2>2. FinalRc # "0" /\ PriorRc # "0"
      BY <1>2 DEF FinalRc, PullRc, PriorRc
    <2>3. \A j \in Jobs : result'[j] # "0"
      BY <1>0, <1>2, <2>1
    <2>4. prior' # "0" /\ status' # "0"
      BY <1>2, <2>1, <2>2
    <2>5. QED
      BY <2>3, <2>4
  <1>7. ASSUME NEW j \in Jobs, KillJob(j) \/ KillChild(j)
        PROVE  ZeroInv'
    <2>1. CASE KillJob(j)
      BY <1>0, <1>2, <2>1 DEF KillJob, Ended, files, locals
    <2>2. CASE KillChild(j)
      BY <1>0, <1>2, <2>2 DEF KillChild, Exit, files, locals
    <2>3. QED
      BY <1>7, <2>1, <2>2
  <1>8. CASE Reboot
    BY <1>0, <1>2, <1>8 DEF Reboot, Ended, files, locals
  <1>9. CASE Rot \/ Garble \/ CronMissed \/ CronLocked \/ NextDay \/ Forgotten \/ UNCHANGED vars
    BY <1>2, <1>9 DEF Rot, Garble, CronMissed, CronLocked, NextDay, Forgotten, vars, procs, files,
         locals
  <1>10. QED
    BY <1>3, <1>4, <1>5, <1>6, <1>7, <1>8, <1>9 DEF Next, Working, Trouble

-----------------------------------------------------------------------------
(* The merged file yields what its sources do *)

LEMMA YieldUntouched ==
    ASSUME YieldInv, disk' = disk, dim' = dim, readers' = readers, todo' = todo, aside' = aside,
           pc'["repair"] = pc["repair"]
    PROVE  YieldInv'
  BY DEF YieldInv, Yields, On

LEMMA NoYield ==
    ASSUME pc'["repair"] \notin {"park", "publish", "retire", "dispose"}
    PROVE  YieldInv'
  BY DEF YieldInv

LEMMA MergeYields ==
    ASSUME IInv, RepairMerge
    PROVE  YieldInv'
  <1>1. DiskOK(disk) /\ pc \in [Jobs -> NightPcs \cup RepairPcs]
    BY DEF IInv, TypeOK
  <1>2. /\ pc'["repair"] = "park" /\ disk' = Written(disk, Merge, MergedFile(disk))
        /\ DOMAIN readers' = Copies(disk) /\ dim' = dim
    BY <1>1 DEF RepairMerge, Step, Goto, onlyDisk, history
  <1>3. /\ DOMAIN disk' = DOMAIN disk \cup {Merge} /\ disk'[Merge] = MergedFile(disk)
        /\ \A q \in DOMAIN disk \ {Merge} : disk'[q] = disk[q]
        /\ Saved(disk) \subseteq Saved(disk')
    <2>1. MergedFile(disk) \in File
      BY <1>1, MergedFileHolds
    <2>2. QED
      BY <1>1, <1>2, <2>1, PathsTyped, WrittenKeeps
  <1>4. \A p \in Copies(disk) : p \in DOMAIN disk \ {Merge}
    BY DEF Copies, Backups, Merge, Day, MergeTags
  <1>5. /\ MergedFile(disk).dark = {}
        /\ MergedFile(disk).good = UNION {disk[p].good : p \in Copies(disk)}
    BY DEF MergedFile
  <1>6. Bytes(disk'[Merge]) \subseteq Saved(disk')
    <2>1. Bytes(MergedFile(disk)) \subseteq Saved(disk)
      BY <1>4, <1>5 DEF Bytes, Saved
    <2>2. QED
      BY <1>3, <2>1
  <1>7. \A p \in Copies(disk) : disk'[p].good \subseteq disk'[Merge].good
    BY <1>3, <1>4, <1>5
  <1>8. QED
    BY <1>2, <1>6, <1>7 DEF YieldInv, Yields

LEMMA ParkYields ==
    ASSUME IInv, YieldInv, RepairPark
    PROVE  YieldInv'
  <1>1. DiskOK(disk) /\ MergeInv /\ pc \in [Jobs -> NightPcs \cup RepairPcs]
    BY DEF IInv, TypeOK
  <1>2. /\ pc["repair"] = "park" /\ pc'["repair"] = "publish" /\ readers' = readers /\ dim' = dim
    BY <1>1 DEF RepairPark, Step, Goto, onlyDisk, history
  <1>3. /\ Merge \in DOMAIN disk /\ DOMAIN readers = Copies(disk)
        /\ \A p \in DOMAIN readers : p \in DOMAIN disk /\ disk[p].good \ dim \subseteq disk[Merge].good
        /\ Bytes(disk[Merge]) \subseteq Saved(disk)
    BY <1>1, <1>2 DEF MergeInv, YieldInv, Yields, On, Copies, Backups
  <1>4. Day # Merge /\ (Day \in DOMAIN disk => Day \in DOMAIN readers)
    BY <1>3 DEF Day, Merge, Copies
  <1>5. CASE CanonUnsafe
    <2> DEFINE f == FreshName(disk, "backup")
    <2>1. MoveTo(Day, "backup") /\ aside' = f /\ Day \in DOMAIN disk /\ "backup" \in MergeTags
      BY <1>3, <1>5 DEF RepairPark, CanonUnsafe, MergeTags
    <2>2. /\ f \notin DOMAIN disk /\ f # Day
          /\ DOMAIN disk' = (DOMAIN disk \ {Day}) \cup {f} /\ disk'[f] = disk[Day]
          /\ \A q \in DOMAIN disk \ {Day} : disk'[q] = disk[q]
          /\ Saved(disk') = Saved(disk)
      BY <1>1, <1>4, <2>1, MoveToFresh
    <2> HIDE DEF f
    <2>3. disk'[Merge] = disk[Merge]
      BY <1>3, <1>4, <2>2
    <2>4. ASSUME NEW p \in DOMAIN readers \cup {Day, f}, p \in DOMAIN disk'
          PROVE  disk'[p].good \ dim \subseteq disk'[Merge].good
      BY <1>3, <1>4, <2>1, <2>2, <2>3, <2>4
    <2>5. QED
      BY <1>2, <1>3, <2>1, <2>2, <2>3, <2>4 DEF YieldInv, Yields, On
  <1>6. CASE ~CanonUnsafe
    <2>1. disk' = disk /\ aside' = Day
      BY <1>6 DEF RepairPark
    <2>2. QED
      BY <1>2, <1>3, <1>4, <2>1 DEF YieldInv, Yields, On
  <1>7. QED
    BY <1>5, <1>6

LEMMA PublishYields ==
    ASSUME IInv, YieldInv, RepairPublish
    PROVE  YieldInv'
  <1>1. DiskOK(disk) /\ MergeInv /\ pc \in [Jobs -> NightPcs \cup RepairPcs]
    BY DEF IInv, TypeOK
  <1>2. /\ pc["repair"] = "publish" /\ pc'["repair"] = "retire" /\ readers' = readers /\ dim' = dim
        /\ todo' = DOMAIN readers \ {Day} /\ aside' = aside /\ disk' = Renamed(disk, Merge, Day)
    BY <1>1 DEF RepairPublish, Step, Goto, onlyDisk, history
  <1>3. /\ Merge \in DOMAIN disk
        /\ \A p \in DOMAIN readers : p = Day \/ p[1] \in MergeTags
        /\ Day \in DOMAIN disk => Bytes(disk[Day]) \subseteq Bytes(disk[Merge])
        /\ \A p \in DOMAIN readers \cup {aside} : p # Day =>
              p \in DOMAIN disk /\ disk[p].good \ dim \subseteq disk[Merge].good
        /\ aside # Day => aside[1] = "backup"
    BY <1>1, <1>2 DEF MergeInv, MergePcs, YieldInv, Yields, On
  <1>4. /\ DOMAIN disk' = (DOMAIN disk \ {Merge}) \cup {Day} /\ disk'[Day] = disk[Merge]
        /\ \A p \in DOMAIN disk \ {Merge, Day} : disk'[p] = disk[p]
    <2>1. /\ Merge # Day /\ Day \in Path /\ Merge \in DOMAIN disk
          /\ Day \in DOMAIN disk => Bytes(disk[Day]) \subseteq Bytes(disk[Merge])
      BY <1>3, PathsTyped DEF Merge, Day
    <2>2. QED
      BY <1>1, <1>2, <2>1, RenamedOver
  <1>5. ASSUME NEW p \in DOMAIN readers \cup {aside}, p # Day
        PROVE  disk'[p].good \ dim \subseteq disk'[Day].good
    <2>1. p # Merge
      BY <1>3, <1>5 DEF Merge, MergeTags
    <2>2. QED
      BY <1>3, <1>4, <1>5, <2>1
  <1>6. QED
    BY <1>2, <1>5 DEF YieldInv, Yields, On

LEMMA DisposalYields ==
    ASSUME IInv, YieldInv, RepairRetire \/ RepairDispose
    PROVE  YieldInv'
  <1>1. DiskOK(disk) /\ MergeInv /\ pc \in [Jobs -> NightPcs \cup RepairPcs]
    BY DEF IInv, TypeOK
  <1>2. /\ pc["repair"] \in {"retire", "dispose"} /\ pc'["repair"] = "dispose" /\ dim' = dim
        /\ todo' \subseteq todo
    BY <1>1 DEF RepairRetire, RepairDispose, Step, Goto, onlyDisk, history
  <1>3. /\ Day \in DOMAIN disk /\ todo \subseteq DOMAIN readers \ {Day}
        /\ \A p \in todo : p[1] \in MergeTags /\ p \in DOMAIN disk /\ disk[p].good \ dim \subseteq disk[Day].good
        /\ pc["repair"] = "retire" /\ aside # Day => aside \in DOMAIN disk /\ aside \notin DOMAIN readers
    BY <1>1, <1>2 DEF MergeInv, MergePcs, YieldInv, Yields, On
  <1>4. \/ disk' = disk
        \/ \E p \in DOMAIN disk :
              /\ p \notin todo' \cup {Day}
              /\ disk' = Removed(disk, p) \/ \E tag \in RetiredTags : MoveTo(p, tag)
    <2>1. CASE RepairRetire
      BY <1>2, <1>3, <2>1 DEF RepairRetire, RetiredTags, Step
    <2>2. CASE RepairDispose
      <3>1. PICK p \in todo : Dispose(p) /\ todo' = todo \ {p}
        BY <2>2 DEF RepairDispose
      <3>2. disk' = disk \/ disk' = Removed(disk, p) \/ \E tag \in RetiredTags : MoveTo(p, tag)
        BY <3>1 DEF Dispose, RetiredTags
      <3>3. QED
        BY <1>3, <3>1, <3>2
    <2>3. QED
      BY <2>1, <2>2
  <1>5. \A q \in todo' \cup {Day} : disk'[q] = disk[q]
    <2>1. \A q \in todo' \cup {Day} : q \in DOMAIN disk
      BY <1>2, <1>3
    <2>2. ASSUME NEW p \in DOMAIN disk, p \notin todo' \cup {Day}, disk' = Removed(disk, p)
          PROVE  \A q \in todo' \cup {Day} : disk'[q] = disk[q]
      BY <2>1, <2>2 DEF Removed
    <2>3. ASSUME NEW p \in DOMAIN disk, p \notin todo' \cup {Day}, NEW tag \in RetiredTags, MoveTo(p, tag)
          PROVE  \A q \in todo' \cup {Day} : disk'[q] = disk[q]
      BY <1>1, <2>1, <2>3, MoveToFresh
    <2>4. QED
      BY <1>4, <2>2, <2>3
  <1>6. ASSUME NEW q \in todo' PROVE disk'[q].good \ dim \subseteq disk'[Day].good
    BY <1>2, <1>3, <1>5
  <1>7. QED
    BY <1>2, <1>6 DEF YieldInv, Yields

LEMMA RotYields ==
    ASSUME IInv, YieldInv, Rot
    PROVE  YieldInv'
  <1>1. PICK p \in Copies(disk) : \E S \in SUBSET disk[p].good :
              /\ DOMAIN disk' = DOMAIN disk /\ dim' = dim \cup S
              /\ disk'[p].good = disk[p].good \ S
              /\ \A q \in DOMAIN disk : q # p => disk'[q] = disk[q]
              /\ \A q \in DOMAIN disk : Bytes(disk'[q]) = Bytes(disk[q])
              /\ Saved(disk') = Saved(disk)
              /\ UNCHANGED <<procs, locals>>
    BY RotEffect
  <1>2. PICK S \in SUBSET disk[p].good :
              /\ DOMAIN disk' = DOMAIN disk /\ dim' = dim \cup S
              /\ disk'[p].good = disk[p].good \ S
              /\ \A q \in DOMAIN disk : q # p => disk'[q] = disk[q]
              /\ \A q \in DOMAIN disk : Bytes(disk'[q]) = Bytes(disk[q])
              /\ Saved(disk') = Saved(disk)
              /\ UNCHANGED <<procs, locals>>
    BY <1>1
  <1>3. pc' = pc /\ readers' = readers /\ todo' = todo /\ aside' = aside
    BY <1>2 DEF procs, locals
  <1>4. ASSUME NEW x, NEW y \in DOMAIN disk, Yields(x, y) PROVE Yields(x, y)'
    BY <1>2, <1>4 DEF Yields, On
  <1>5. /\ pc["repair"] \in {"park", "publish"} => Merge \in DOMAIN disk
        /\ pc["repair"] \in {"retire", "dispose"} => Day \in DOMAIN disk
    BY DEF IInv, MergeInv, On
  <1>6. QED
    BY <1>2, <1>3, <1>4, <1>5 DEF YieldInv

LEMMA YieldStep ==
    ASSUME IInv, YieldInv, [Next]_vars
    PROVE  YieldInv'
  <1>1. TypeOK /\ LockInv /\ pc \in [Jobs -> NightPcs \cup RepairPcs]
    BY DEF IInv, TypeOK
  <1>2. ASSUME NEW j \in Jobs, Collect(j) \/ CollectTrouble(j)
        PROVE  YieldInv'
    <2>1. child[j] # "none" /\ pc' = pc
      BY <1>2 DEF Collect, CollectTrouble, CollectStart, CollectRefused, CollectAside,
           CollectQuarantine, CollectOpen, CollectRecord, CollectRaises, CollectNothing,
           CollectPublish, CollectEnd, ChildAt, onlyFiles
    <2>2. QED
      BY <1>1, <2>1, NobodyCollects, NoYield
  <1>3. ASSUME NEW j \in Jobs, StoreProject(j) \/ StoreRefuses(j) \/ StoreFails(j)
        PROVE  YieldInv'
    BY <1>3, YieldUntouched DEF StoreProject, StoreRefuses, StoreFails, onlyStore, locals, history
  <1>4. CASE Night \/ NightTrouble
    <2>1. UNCHANGED <<disk, dim, locals>> /\ pc'["repair"] = pc["repair"]
      BY <1>1, <1>4 DEF Night, NightTrouble, NightStart, NightAgain, NightCollect, NightNoSpace,
           NightRecord, NightProject, NightStored, NightPing, At, Goto, files, history
    <2>2. QED
      BY <2>1, YieldUntouched DEF locals
  <1>5. CASE Repair \/ RepairTrouble
    <2>1. CASE \/ MorningStart \/ RepairByHand \/ RepairMark \/ RepairQuarantine \/ RepairGuard
               \/ RepairNoSpace \/ RepairCollected \/ RepairNothing \/ RepairMergeOpen
               \/ RepairMergeEmpty \/ RepairDisposed \/ RepairRecord \/ RepairProject
               \/ RepairProjected \/ FallbackRename \/ FallbackSwap \/ FallbackRecord
               \/ RepairRaises \/ FallbackRaises \/ RepairSweep
      <3>1. pc'["repair"] \notin {"park", "publish", "retire", "dispose"}
        BY <1>1, <2>1 DEF MorningStart, RepairByHand, Begin, RepairMark,
           RepairQuarantine, RepairGuard, RepairNoSpace, RepairCollected, RepairNothing,
           RepairMergeOpen, RepairMergeEmpty, RepairDisposed, RepairRecord, RepairProject,
           RepairProjected, FallbackRename, FallbackSwap, FallbackRecord, RepairRaises,
           FallbackRaises, RepairSweep, Step, Goto
      <3>2. QED
        BY <3>1, NoYield
    <2>2. QED
      BY <1>5, <2>1, MergeYields, ParkYields, PublishYields, DisposalYields
         DEF Repair, RepairTrouble
  <1>6. ASSUME NEW j \in Jobs, KillJob(j) \/ KillChild(j) \/ Reboot
        PROVE  YieldInv'
    <2>1. UNCHANGED <<disk, dim>>
      BY <1>6 DEF KillJob, KillChild, Reboot, files, history
    <2>2. pc'["repair"] = "idle" \/ (pc'["repair"] = pc["repair"] /\ UNCHANGED locals)
      BY <1>1, <1>6 DEF KillJob, KillChild, Reboot, Ended
    <2>3. QED
      BY <2>1, <2>2, YieldUntouched, NoYield DEF locals
  <1>7. CASE Garble \/ CronMissed \/ CronLocked \/ NextDay \/ Forgotten \/ UNCHANGED vars
    BY <1>7, YieldUntouched DEF Garble, CronMissed, CronLocked, NextDay, Forgotten, vars, procs,
       files, locals, history
  <1>8. QED
    BY <1>2, <1>3, <1>4, <1>5, <1>6, <1>7, RotYields DEF Next, Working, Trouble

-----------------------------------------------------------------------------
(* The night between its record and its ping *)

Recorded == pc["nightly"] \in {"project", "storing", "ping"}

(* Nobody else works on the day then, and no collector of the night's *)
LEMMA RecordedAlone ==
    ASSUME TypeOK, LockInv, Recorded
    PROVE  /\ pc["repair"] = "idle" /\ child["repair"] = "none"
           /\ child["nightly"] \in {"none", "project"}
  BY DEF TypeOK, LockInv, Holds, Collecting, Recorded, ChildPcs

LEMMA PingUntouched ==
    ASSUME PingInv, UNCHANGED <<disk, status, part, stored, broken>>,
           pc'["nightly"] = pc["nightly"], child'["nightly"] = child["nightly"],
           result'["nightly"] = result["nightly"]
    PROVE  PingInv'
  BY DEF PingInv, On

LEMMA NoPing ==
    ASSUME ~Recorded'
    PROVE  PingInv'
  BY DEF PingInv, Recorded

LEMMA NightPingInv ==
    ASSUME TypeOK, PingInv, Night \/ NightTrouble
    PROVE  PingInv'
  <1>1. pc \in [Jobs -> NightPcs \cup RepairPcs] /\ child \in [Jobs -> ChildPcs] /\ result \in [Jobs -> Rc]
    BY DEF TypeOK
  <1>2. CASE NightStart \/ NightCollect \/ NightPing \/ NightTrouble
    <2>1. pc'["nightly"] \notin {"project", "storing", "ping"}
      BY <1>1, <1>2 DEF NightStart, NightCollect, NightPing, NightTrouble, NightAgain, NightNoSpace,
         At, Goto
    <2>2. QED
      BY <2>1, NoPing DEF Recorded
  <1>3. CASE NightRecord
    <2>1. /\ pc'["nightly"] = "project" /\ result' = result
          /\ status' = result["nightly"] \/ broken' = TRUE
      BY <1>1, <1>3 DEF NightRecord, At, Goto, Record
    <2>2. QED
      BY <2>1 DEF PingInv
  <1>4. CASE NightProject
    <2>1. /\ UNCHANGED <<disk, status, part, broken, result>> /\ pc["nightly"] = "project"
          /\ \/ On(disk, Day) /\ pc'["nightly"] = "storing" /\ child'["nightly"] = "project"
             \/ ~On(disk, Day) /\ pc'["nightly"] = "ping"
      BY <1>1, <1>4 DEF NightProject, Goto, files
    <2>2. QED
      BY <2>1 DEF PingInv, On
  <1>5. CASE NightStored
    <2>1. /\ UNCHANGED <<disk, status, part, broken, stored, result, child>>
          /\ pc["nightly"] = "storing" /\ child["nightly"] = "none" /\ pc'["nightly"] = "ping"
      BY <1>1, <1>5 DEF NightStored, At, Goto, files, night
    <2>2. QED
      BY <2>1 DEF PingInv, On
  <1>6. QED
    BY <1>2, <1>3, <1>4, <1>5 DEF Night

LEMMA StorePing ==
    ASSUME TypeOK, LockInv, PingInv, NEW j \in Jobs,
           \/ StoreProject(j) \/ StoreRefuses(j) \/ StoreFails(j)
           \/ KillChild(j)
    PROVE  PingInv'
  <1>1. /\ pc' = pc /\ child[j] # "none" /\ child \in [Jobs -> ChildPcs] /\ result \in [Jobs -> Rc]
        /\ UNCHANGED <<disk, status, broken>> /\ pc \in [Jobs -> NightPcs \cup RepairPcs]
    BY DEF TypeOK, StoreProject, StoreRefuses, StoreFails, KillChild, ChildAt, onlyStore, files
  <1>2. CASE ~Recorded
    BY <1>1, <1>2, NoPing DEF Recorded
  <1>3. CASE Recorded
    <2>1. j = "nightly" /\ ~Collecting(j) /\ pc["nightly"] = "storing"
      BY <1>1, <1>3, RecordedAlone DEF Recorded, Collecting, CollectorPcs, LockInv
    <2>2. result' = result
      BY <1>1, <2>1 DEF StoreProject, StoreRefuses, StoreFails, KillChild, Exit, onlyStore
    <2>3. StoreProject(j) \/ stored' = FALSE
      BY <2>1 DEF StoreRefuses, StoreFails, KillChild, Report
    <2>4. StoreProject(j) => part' = disk[Day].good
      BY DEF StoreProject
    <2>5. QED
      BY <1>1, <2>1, <2>2, <2>3, <2>4 DEF PingInv, On
  <1>4. QED
    BY <1>2, <1>3

LEMMA PingStep ==
    ASSUME IInv, PingInv, [Next]_vars
    PROVE  PingInv'
  <1>1. TypeOK /\ LockInv /\ pc \in [Jobs -> NightPcs \cup RepairPcs]
    BY DEF IInv, TypeOK
  <1>2. ASSUME NEW j \in Jobs, Collect(j) \/ CollectTrouble(j)
        PROVE  PingInv'
    <2>1. child[j] \in CollectorPcs /\ pc' = pc
      BY <1>2 DEF Collect, CollectTrouble, CollectStart, CollectRefused, CollectAside,
           CollectQuarantine, CollectOpen, CollectRecord, CollectRaises, CollectNothing,
           CollectPublish, CollectEnd, ChildAt, onlyFiles, CollectorPcs
    <2>2. ~Recorded
      BY <1>1, <2>1, RecordedAlone DEF CollectorPcs
    <2>3. QED
      BY <2>1, <2>2, NoPing DEF Recorded
  <1>3. CASE Repair \/ RepairTrouble
    <2>1. Idle \/ pc["repair"] # "idle"
      BY <1>3 DEF Repair, RepairTrouble, MorningStart, RepairByHand, RepairMark,
         RepairQuarantine, RepairGuard, RepairNoSpace, RepairCollected, RepairNothing,
         RepairMergeOpen, RepairMerge, RepairMergeEmpty, RepairPark, RepairPublish, RepairRetire,
         RepairDispose, RepairDisposed, RepairRecord, RepairProject, RepairProjected,
         FallbackRename, FallbackSwap, FallbackRecord, RepairRaises, FallbackRaises, RepairSweep,
         Step, FallbackPcs, MergePcs
    <2>2. pc'["nightly"] = pc["nightly"]
      BY <1>1, <1>3 DEF Repair, RepairTrouble, MorningStart, RepairByHand, Begin, RepairMark,
         RepairQuarantine, RepairGuard, RepairNoSpace, RepairCollected, RepairNothing,
         RepairMergeOpen, RepairMerge, RepairMergeEmpty, RepairPark, RepairPublish, RepairRetire,
         RepairDispose, RepairDisposed, RepairRecord, RepairProject, RepairProjected,
         FallbackRename, FallbackSwap, FallbackRecord, RepairRaises, FallbackRaises, RepairSweep,
         Step, Goto
    <2>3. ~Recorded
      BY <1>1, <2>1, RecordedAlone DEF Idle, Holds, Recorded
    <2>4. QED
      BY <2>2, <2>3, NoPing DEF Recorded
  <1>4. ASSUME NEW j \in Jobs, KillJob(j)
        PROVE  PingInv'
    <2>1. pc'["nightly"] = "idle" \/ (pc["repair"] # "idle" /\ pc'["nightly"] = pc["nightly"])
      <3>1. pc[j] # "idle" /\ pc' = [k \in Jobs |-> IF k \in {j} THEN "idle" ELSE pc[k]]
        BY <1>4 DEF KillJob, Ended
      <3>2. QED
        BY <3>1
    <2>2. ~Recorded'
      BY <1>1, <2>1, RecordedAlone DEF Recorded
    <2>3. QED
      BY <2>2, NoPing
  <1>5. CASE Reboot
    BY <1>1, <1>5, NoPing DEF Reboot, Ended, Recorded
  <1>6. CASE Rot
    <2>1. PICK p \in Copies(disk) : \E S \in SUBSET disk[p].good :
              /\ DOMAIN disk' = DOMAIN disk /\ disk'[p].good = disk[p].good \ S
              /\ \A q \in DOMAIN disk : q # p => disk'[q] = disk[q]
              /\ UNCHANGED <<status, part, procs, night>>
      BY <1>6, RotEffect
    <2>2. Day \in DOMAIN disk => disk'[Day].good \subseteq disk[Day].good
      BY <2>1
    <2>3. QED
      BY <2>1, <2>2 DEF PingInv, On, procs, night
  <1>7. CASE Garble
    <2>1. status' = "-2" /\ UNCHANGED <<disk, part, procs, night>>
      BY <1>7 DEF Garble
    <2>2. QED
      BY <2>1 DEF PingInv, On, procs, night
  <1>8. CASE CronMissed \/ CronLocked \/ NextDay \/ Forgotten \/ UNCHANGED vars
    BY <1>8, PingUntouched DEF CronMissed, CronLocked, NextDay, Forgotten, vars, procs, files, night
  <1>9. QED
    BY <1>1, <1>2, <1>3, <1>4, <1>5, <1>6, <1>7, <1>8, NightPingInv, StorePing
       DEF Next, Working, Trouble

-----------------------------------------------------------------------------
(* The second invariant, and what follows from it *)

LEMMA CleanInit == Init => CleanInv
  <1> SUFFICES ASSUME Init PROVE CleanInv
    OBVIOUS
  <1>1. DOMAIN disk = {} /\ ever = {} /\ dim = {}
    BY DEF Init
  <1>2. HistoryInv
    BY <1>1 DEF HistoryInv, Saved
  <1>3. ZeroInv /\ YieldInv /\ PingInv
    BY DEF Init, ZeroInv, YieldInv, PingInv
  <1>4. QED
    BY <1>2, <1>3 DEF CleanInv

LEMMA CleanStep == IInv /\ CleanInv /\ [Next]_vars => CleanInv'
  BY HistoryStep, ZeroStep, YieldStep, PingStep DEF CleanInv

LEMMA CleanHolds == Spec => [](IInv /\ CleanInv)
  BY InvInit, InvStep, CleanInit, CleanStep, PTL DEF Spec

(* A day without copies and without a download shows what can be read *)
LEMMA SettledShown ==
    HistoryInv /\ Settled => On(disk, Day) /\ ever \ dim \subseteq disk[Day].good
  <1> SUFFICES ASSUME HistoryInv, Settled
               PROVE  On(disk, Day) /\ ever \ dim \subseteq disk[Day].good
    OBVIOUS
  <1>1. Day \in DOMAIN disk /\ Backups(disk) = {} /\ Tmp \notin DOMAIN disk
    BY DEF Settled, DayStatus, On
  <1>2. \A p \in DOMAIN disk : Live(p) => p = Day
    BY <1>1 DEF Live, Backups
  <1>3. Yielded(disk) \subseteq disk[Day].good
    BY <1>2 DEF Yielded
  <1>4. QED
    BY <1>1, <1>3 DEF HistoryInv, On

(* A day the morning no longer looks at (day_status, backfill_missed.py)   *)
(* holds in its one file every record any run ever wrote for it but those  *)
(* a copy could not yield, and is recorded as clean only if a collector    *)
(* run returned 0.                                                         *)
THEOREM CleanDays == Spec => []CleanMeansWhole
  <1>1. IInv /\ CleanInv => CleanMeansWhole
    <2> SUFFICES ASSUME IInv, CleanInv, Settled
                 PROVE  ever \ dim \subseteq Bytes(disk[Day]) /\ (status = "0" => full)
      BY DEF CleanMeansWhole
    <2>1. ever \ dim \subseteq disk[Day].good
      BY SettledShown DEF CleanInv
    <2>2. status = "0" => full
      BY DEF CleanInv, ZeroInv
    <2>3. QED
      BY <2>1, <2>2 DEF Bytes
  <1>2. QED
    BY <1>1, CleanHolds, PTL

(* The bytes of a quarantined download and of a copy with unreadable       *)
(* lines outlive every merge, retirement, fallback and sweep ("NEVER       *)
(* deleted", backfill_missed.py).                                          *)
THEOREM RawBytes == Spec => RawBytesKept
  <1>1. IInv /\ CleanInv /\ [Next]_vars =>
          [\A p \in DOMAIN disk : KeptApart(p) =>
             \E q \in DOMAIN disk' : KeptApart(q) /\ Bytes(disk'[q]) = Bytes(disk[p])]_vars
    BY RawBytesStep DEF CleanInv
  <1>2. QED
    BY <1>1, CleanHolds, PTL DEF Spec, RawBytesKept

(* A success ping of run_nightly.sh is never sent over a day the morning   *)
(* would leave alone unless a collector run returned 0 and the store has   *)
(* what the day's file yields.                                             *)
THEOREM HonestPing == Spec => GreenNight
  <1>1. IInv /\ CleanInv /\ [Next]_vars =>
          [NightPing /\ ping' = "success" =>
             \/ DayStatus # "ok"
             \/ full /\ disk[Day].good \subseteq part]_vars
    <2> SUFFICES ASSUME IInv, CleanInv, NightPing, ping' = "success", DayStatus = "ok"
                 PROVE  full /\ disk[Day].good \subseteq part
      OBVIOUS
    <2>1. pc["nightly"] = "ping" /\ stored /\ ~broken
      BY DEF IInv, TypeOK, NightPing, At, Outcome
    <2>2. result["nightly"] \in {"0", "3"}
      BY DEF NightPing, Outcome
    <2>3. On(disk, Day) /\ status \in {"absent", "0"}
      BY DEF DayStatus
    <2>4. status = result["nightly"] /\ disk[Day].good \subseteq part
      BY <2>1, <2>3 DEF CleanInv, PingInv
    <2>5. full
      BY <2>2, <2>3, <2>4 DEF CleanInv, ZeroInv
    <2>6. QED
      BY <2>4, <2>5
  <1>2. QED
    BY <1>1, CleanHolds, PTL DEF Spec, GreenNight

-----------------------------------------------------------------------------
(* The fallback *)

LEMMA FallbackInvStep ==
    ASSUME IInv, FallbackInv, [Next]_vars
    PROVE  FallbackInv'
  <1>1. TypeOK /\ LockInv /\ DiskOK(disk) /\ pc \in [Jobs -> NightPcs \cup RepairPcs]
    BY DEF IInv, TypeOK
  <1>2. ASSUME NEW j \in Jobs, Collect(j) \/ CollectTrouble(j)
        PROVE  FallbackInv'
    <2>1. child[j] # "none" /\ pc' = pc
      BY <1>2 DEF Collect, CollectTrouble, CollectStart, CollectRefused, CollectAside,
           CollectQuarantine, CollectOpen, CollectRecord, CollectRaises, CollectNothing,
           CollectPublish, CollectEnd, ChildAt, onlyFiles
    <2>2. QED
      BY <1>1, <2>1, NobodyCollects DEF FallbackInv
  <1>3. CASE FallbackRename \/ FallbackSwap
    <2>1. CASE FallbackSwap
      BY <2>1 DEF FallbackSwap, FallbackInv, On, Renamed
    <2>2. CASE FallbackRename
      BY <1>1, <2>2 DEF FallbackRename, FallbackInv, Goto, On, Renamed
    <2>3. QED
      BY <1>3, <2>1, <2>2
  <1>4. CASE /\ Repair \/ RepairTrouble
             /\ ~FallbackRename /\ ~FallbackSwap
    <2>1. pc'["repair"] # "fbrecord"
      BY <1>1, <1>4 DEF Repair, RepairTrouble, MorningStart, RepairByHand, Begin, RepairMark,
         RepairQuarantine, RepairGuard, RepairNoSpace, RepairCollected, RepairNothing,
         RepairMergeOpen, RepairMerge, RepairMergeEmpty, RepairPark, RepairPublish, RepairRetire,
         RepairDispose, RepairDisposed, RepairRecord, RepairProject, RepairProjected,
         FallbackRecord, RepairRaises, FallbackRaises, RepairSweep, Step, Goto
    <2>2. QED
      BY <2>1 DEF FallbackInv
  <1>5. CASE Rot
    <2>1. PICK p \in Copies(disk) : \E S \in SUBSET disk[p].good :
              /\ DOMAIN disk' = DOMAIN disk
              /\ disk'[p].ending \in {"rotten", "ragged"}
              /\ \A q \in DOMAIN disk : q # p => disk'[q] = disk[q]
              /\ UNCHANGED procs
      BY <1>5, RotEffect
    <2>2. Fit(disk') \subseteq Fit(disk)
      BY <2>1 DEF Fit, Backups, FullyRead, Complete, Rejects
    <2>3. DiskOK(disk')
      BY InvStep DEF IInv, TypeOK
    <2>4. BestBackups(disk) = {} => BestBackups(disk') = {}
      BY <1>1, <2>2, <2>3, BestBackupIsOne
    <2>5. QED
      BY <2>1, <2>4 DEF FallbackInv, On, procs
  <1>6. CASE Night \/ NightTrouble
    <2>1. UNCHANGED disk /\ pc'["repair"] = pc["repair"]
      BY <1>1, <1>6 DEF Night, NightTrouble, NightStart, NightAgain, NightCollect, NightNoSpace,
           NightRecord, NightProject, NightStored, NightPing, At, Goto, files
    <2>2. QED
      BY <2>1 DEF FallbackInv, On
  <1>7. ASSUME NEW j \in Jobs, KillJob(j) \/ KillChild(j) \/ Reboot
        PROVE  FallbackInv'
    <2>1. disk' = disk
      BY <1>7 DEF KillJob, KillChild, Reboot, files
    <2>2. pc'["repair"] \in {"idle", pc["repair"]}
      BY <1>1, <1>7 DEF KillJob, KillChild, Reboot, Ended
    <2>3. QED
      BY <2>1, <2>2 DEF FallbackInv, On
  <1>8. ASSUME NEW j \in Jobs, StoreProject(j) \/ StoreRefuses(j) \/ StoreFails(j)
        PROVE  FallbackInv'
    BY <1>8 DEF StoreProject, StoreRefuses, StoreFails, onlyStore, FallbackInv, On
  <1>9. CASE Garble \/ CronMissed \/ CronLocked \/ NextDay \/ Forgotten \/ UNCHANGED vars
    BY <1>9 DEF Garble, CronMissed, CronLocked, NextDay, Forgotten, vars, procs, files, FallbackInv, On
  <1>10. QED
    BY <1>2, <1>3, <1>4, <1>5, <1>6, <1>7, <1>8, <1>9 DEF Next, Working, Trouble

(* The repair gives up on a day without a file only if best_backup has     *)
(* none to offer, also when a backup decays meanwhile.                     *)
THEOREM NobodyStranded == Spec => NoStrandedDay
  <1>1. Init => FallbackInv
    BY DEF Init, FallbackInv
  <1>2. IInv /\ FallbackInv /\ [Next]_vars =>
          [RepairNothing \/ FallbackRecord => On(disk, Day) \/ BestBackups(disk) = {}]_vars
    <2>1. RepairNothing => BestBackups(disk) = {}
      BY DEF RepairNothing, BestBackups, Fit, Copies
    <2>2. FallbackInv /\ FallbackRecord => On(disk, Day) \/ BestBackups(disk) = {}
      BY DEF FallbackInv, FallbackRecord, Step
    <2>3. QED
      BY <2>1, <2>2
  <1>3. IInv /\ FallbackInv /\ [Next]_vars => FallbackInv'
    BY FallbackInvStep
  <1>4. QED
    BY <1>1, <1>2, <1>3, InvInit, InvStep, PTL DEF Spec, NoStrandedDay

-----------------------------------------------------------------------------
(* The archive *)

(* A step that changes the day's file is one of a job at work *)
LEMMA ShownStep ==
    ASSUME IInv, [Next]_vars, Shown' # Shown
    PROVE  ~Idle /\ ~Idle'
  <1>1. TypeOK /\ LockInv /\ DiskOK(disk) /\ pc \in [Jobs -> NightPcs \cup RepairPcs]
        /\ child \in [Jobs -> ChildPcs]
    BY DEF IInv, TypeOK
  <1>2. disk' # disk
    BY DEF Shown, On
  <1>3. ASSUME NEW j \in Jobs, CollectAside(j) \/ CollectQuarantine(j) \/ CollectOpen(j)
                               \/ CollectRecord(j) \/ CollectPublish(j)
        PROVE  ~Idle /\ ~Idle'
    <2>1. child[j] # "none" /\ child'[j] # "none"
      BY <1>1, <1>3 DEF CollectAside, CollectQuarantine, CollectOpen, CollectRecord, CollectPublish,
         ChildAt
    <2>2. QED
      BY <2>1 DEF Idle, Holds
  <1>4. ASSUME NEW j \in Jobs, CollectRaises(j) \/ CollectNothing(j)
        PROVE  Shown' = Shown
    <2>1. Tmp \in DOMAIN disk /\ Day # Tmp
      BY <1>4 DEF CollectRaises, CollectNothing, IInv, PullInv, On, Day, Tmp
    <2>2. (Day \in DOMAIN disk' <=> Day \in DOMAIN disk) /\ (Day \in DOMAIN disk => disk'[Day] = disk[Day])
      BY <1>4, <2>1 DEF CollectRaises, CollectNothing, Removed
    <2>3. QED
      BY <2>2 DEF Shown, On
  <1>5. CASE Repair \/ RepairTrouble
    <2>1. CASE RepairSweep
      <3>1. (Day \in DOMAIN disk' <=> Day \in DOMAIN disk) /\ (Day \in DOMAIN disk => disk'[Day] = disk[Day])
        <4>1. PICK old \in SUBSET ({Tmp, Merge} \cap DOMAIN disk) :
                LET rest == [p \in DOMAIN disk \ (old \cap {Merge}) |-> disk[p]]
                IN  IF Tmp \in old
                    THEN HasRoom(disk, "partial") /\ disk' = Renamed(rest, Tmp, FreshName(disk, "partial"))
                    ELSE disk' = rest
          BY <2>1 DEF RepairSweep, SweepTo
        <4>2. Day \notin {Tmp, Merge}
          BY DEF Day, Tmp, Merge
        <4>3. HasRoom(disk, "partial") => FreshName(disk, "partial") # Day
          BY FreshNameIsFree DEF MergeTags
        <4>4. QED
          BY <4>1, <4>2, <4>3 DEF Renamed
      <3>2. QED
        BY <3>1 DEF Shown, On
    <2>2. CASE ~RepairSweep
      <3>1. pc'["repair"] # "idle"
        BY <1>1, <1>5, <2>2 DEF Repair, RepairTrouble, MorningStart, RepairByHand, Begin, RepairMark,
         RepairQuarantine, RepairGuard, RepairNoSpace, RepairCollected, RepairNothing,
         RepairMergeOpen, RepairMerge, RepairMergeEmpty, RepairPark, RepairPublish, RepairRetire,
         RepairDispose, RepairDisposed, RepairRecord, RepairProject, RepairProjected,
         FallbackRename, FallbackSwap, FallbackRecord, RepairRaises, FallbackRaises, Step, Goto
      <3>2. pc["repair"] # "idle"
        BY <1>2, <1>5, <2>2 DEF Repair, RepairTrouble, MorningStart, RepairByHand, RepairMark,
         RepairQuarantine, RepairGuard, RepairNoSpace, RepairCollected, RepairNothing,
         RepairMergeOpen, RepairMerge, RepairMergeEmpty, RepairPark, RepairPublish, RepairRetire,
         RepairDispose, RepairDisposed, RepairRecord, RepairProject, RepairProjected,
         FallbackRename, FallbackSwap, FallbackRecord, RepairRaises, FallbackRaises, Step,
         FallbackPcs, MergePcs, files
      <3>3. QED
        BY <3>1, <3>2 DEF Idle, Holds
    <2>3. QED
      BY <2>1, <2>2
  <1>6. CASE Rot
    <2>1. DOMAIN disk' = DOMAIN disk /\ \A q \in DOMAIN disk : Bytes(disk'[q]) = Bytes(disk[q])
      BY <1>6, RotEffect
    <2>2. QED
      BY <2>1 DEF Shown, On
  <1>7. CASE Night \/ NightTrouble
    BY <1>2, <1>7 DEF Night, NightTrouble, NightStart, NightAgain, NightCollect, NightNoSpace,
         NightRecord, NightProject, NightStored, NightPing, files
  <1>8. ASSUME NEW j \in Jobs, \/ StoreProject(j) \/ StoreRefuses(j) \/ StoreFails(j) \/ KillJob(j)
                               \/ KillChild(j) \/ CollectStart(j) \/ CollectRefused(j) \/ CollectEnd(j)
        PROVE  FALSE
    BY <1>2, <1>8 DEF StoreProject, StoreRefuses, StoreFails, KillJob, KillChild, CollectStart,
       CollectRefused, CollectEnd, onlyStore, files
  <1>9. CASE Reboot \/ Garble \/ CronMissed \/ CronLocked \/ NextDay \/ Forgotten \/ UNCHANGED vars
    BY <1>2, <1>9 DEF Reboot, Garble, CronMissed, CronLocked, NextDay, Forgotten, vars, files
  <1>10. QED
    BY <1>3, <1>4, <1>5, <1>6, <1>7, <1>8, <1>9 DEF Next, Working, Trouble, Collect, CollectTrouble

LEMMA DayStatusKept ==
    ASSUME status' = status, DOMAIN disk' = DOMAIN disk, procs' = procs
    PROVE  Settled' = Settled
  <1>1. (Idle' <=> Idle) /\ \A p : On(disk', p) <=> On(disk, p)
    BY DEF Idle, Holds, procs, On
  <1>2. Backups(disk') = Backups(disk)
    BY DEF Backups
  <1>3. DayStatus' = DayStatus
    BY <1>1, <1>2 DEF DayStatus
  <1>4. QED
    BY <1>1, <1>3 DEF Settled

LEMMA ArchiveStep ==
    ASSUME IInv, CleanInv, [Next]_vars
    PROVE  [Archive!Next]_(Archive!vars)
  <1> USE DEF Archive!Next, Archive!vars, Archive!Receive, Archive!Decay, Archive!Show,
              Archive!Reopen, Archive!Settle, Archive!Whole
  <1>1. IInv' /\ CleanInv'
    BY InvStep, CleanStep
  <1>0. Settled \in BOOLEAN /\ Settled' \in BOOLEAN
    BY DEF Settled
  <1>2. Shown \subseteq Saved(disk) /\ Shown' \subseteq Saved(disk')
    <2>1. Day # Merge
      BY DEF Day, Merge
    <2>2. QED
      BY <2>1 DEF Shown, Saved, On
  <1>3. CASE Rot
    <2>1. PICK p \in Copies(disk) : \E S \in SUBSET disk[p].good :
              /\ DOMAIN disk' = DOMAIN disk /\ dim' = dim \cup S
              /\ \A q \in DOMAIN disk : Bytes(disk'[q]) = Bytes(disk[q])
              /\ Saved(disk') = Saved(disk)
              /\ UNCHANGED <<status, procs>>
      BY <1>3, RotEffect
    <2>2. PICK S \in SUBSET disk[p].good :
              /\ DOMAIN disk' = DOMAIN disk /\ dim' = dim \cup S
              /\ \A q \in DOMAIN disk : Bytes(disk'[q]) = Bytes(disk[q])
              /\ Saved(disk') = Saved(disk)
              /\ UNCHANGED <<status, procs>>
      BY <2>1
    <2>3. S \subseteq Saved(disk)
      <3>1. p \in DOMAIN disk /\ p # Merge
        BY DEF Copies, Backups, Day, Merge, MergeTags
      <3>2. QED
        BY <3>1, SavedHas DEF Bytes
    <2>4. Shown' = Shown
      BY <2>2 DEF Shown, On
    <2>5. Settled' = Settled
      BY <2>2, DayStatusKept
    <2>6. \E T \in SUBSET Saved(disk) : Archive!Decay(T)
      BY <2>2, <2>3, <2>4, <2>5
    <2>7. QED
      BY <2>6
  <1>4. ASSUME NEW j \in Jobs, CollectRecord(j) PROVE Archive!Next
    <2>1. PICK r \in Rec : Saved(disk') = Saved(disk) \cup {r} /\ DOMAIN disk' = DOMAIN disk /\ dim' = dim
      BY <1>4, RecordEffect
    <2>2. ~Idle /\ ~Idle'
      BY <1>4 DEF CollectRecord, ChildAt, Idle, Holds, IInv, TypeOK
    <2>3. Shown' = Shown
      BY <1>4, <2>1 DEF CollectRecord, ChildAt, IInv, PullInv, Shown, On
    <2>4. ~Settled /\ ~Settled'
      BY <2>2 DEF Settled
    <2>5. Archive!Receive(r)
      BY <1>0, <2>1, <2>3, <2>4
    <2>6. QED
      BY <2>5
  <1>5. CASE ~Rot /\ \A j \in Jobs : ~CollectRecord(j)
    <2>1. Saved(disk') = Saved(disk) /\ dim' = dim
      BY <1>5, EffectStep DEF CleanInv, Kept
    <2>2. CASE Shown' # Shown
      <3>1. ~Settled /\ ~Settled'
        BY <2>2, ShownStep DEF Settled
      <3>2. Archive!Show(Shown') /\ Shown' \in SUBSET Saved(disk)
        BY <1>0, <1>2, <2>1, <3>1
      <3>3. QED
        BY <3>2
    <2>3. CASE Shown' = Shown /\ Settled /\ ~Settled'
      BY <1>0, <2>1, <2>3
    <2>4. CASE Shown' = Shown /\ ~Settled /\ Settled'
      <3>1. On(disk', Day) /\ ever' \ dim' \subseteq disk'[Day].good
        <4>1. (HistoryInv /\ Settled => On(disk, Day) /\ ever \ dim \subseteq disk[Day].good)'
          BY SettledShown, PTL
        <4>2. QED
          BY <1>1, <2>4, <4>1 DEF CleanInv
      <3>2. Saved(disk) \ dim \subseteq Shown
        BY <1>1, <2>1, <2>4, <3>1 DEF CleanInv, HistoryInv, Shown, Bytes
      <3>3. QED
        BY <1>0, <2>1, <2>4, <3>2
    <2>5. CASE Shown' = Shown /\ (Settled <=> Settled')
      BY <1>0, <2>1, <2>5
    <2>6. QED
      BY <2>2, <2>3, <2>4, <2>5
  <1>6. QED
    BY <1>3, <1>4, <1>5

(* The nightly job, the repair, their children and all accidents together  *)
(* implement the archive of DayArchive: every step of theirs is one of its *)
(* steps, or leaves what it speaks of unchanged.                           *)
THEOREM Implementation == Spec => ImplementsArchive
  <1>1. Init => Archive!Init
    <2> SUFFICES ASSUME Init PROVE Archive!Init
      OBVIOUS
    <2>1. DOMAIN disk = {} /\ dim = {}
      BY DEF Init
    <2>2. Saved(disk) = {} /\ Shown = {} /\ ~Settled
      BY <2>1 DEF Saved, Shown, On, Settled, DayStatus
    <2>3. QED
      BY <2>1, <2>2 DEF Archive!Init
  <1>2. IInv /\ CleanInv /\ [Next]_vars => [Archive!Next]_(Archive!vars)
    BY ArchiveStep
  <1>3. QED
    BY <1>1, <1>2, CleanHolds, PTL DEF Spec, ImplementsArchive, Archive!Spec
=============================================================================
