--------------------------- MODULE DayFilesProofs ---------------------------
(***************************************************************************)
(* What the file operations of DayFiles do to a disk, for every disk.      *)
(***************************************************************************)
EXTENDS DayFiles, FiniteSetTheorems, WellFoundedInduction, TLAPS

(* A name unique_name returns is a path of its tag that does not exist *)
LEMMA FreshNameIsFree ==
    ASSUME NEW d, NEW tag \in MergeTags \cup RetiredTags, HasRoom(d, tag)
    PROVE  /\ FreshName(d, tag) \notin DOMAIN d
           /\ FreshName(d, tag) \in Path
           /\ FreshName(d, tag)[1] = tag
           /\ FreshName(d, tag) \notin {Day, Tmp, Merge}
  <1> DEFINE n == CHOOSE n \in Names : <<tag, n>> \notin DOMAIN d
  <1>1. n \in Names /\ <<tag, n>> \notin DOMAIN d
    BY DEF HasRoom
  <1>2. FreshName(d, tag) = <<tag, n>>
    BY DEF FreshName
  <1>3. tag \notin {"day", "tmp", "merge"}
    BY DEF MergeTags, RetiredTags
  <1> HIDE DEF n
  <1>4. QED
    BY <1>1, <1>2, <1>3 DEF Path, Day, Tmp, Merge

(* A rename to a free name moves one file and touches no other *)
LEMMA RenamedFree ==
    ASSUME NEW d, DiskOK(d), NEW a \in DOMAIN d, NEW b \in Path, b \notin DOMAIN d
    PROVE  /\ DiskOK(Renamed(d, a, b))
           /\ DOMAIN Renamed(d, a, b) = (DOMAIN d \ {a}) \cup {b}
           /\ Renamed(d, a, b)[b] = d[a]
           /\ \A p \in DOMAIN d \ {a} : Renamed(d, a, b)[p] = d[p]
           /\ a # Merge /\ b # Merge => Saved(Renamed(d, a, b)) = Saved(d)
  <1> DEFINE e == Renamed(d, a, b)
  <1>1. DOMAIN e = (DOMAIN d \ {a}) \cup {b}
    BY DEF Renamed
  <1>2. e[b] = d[a]
    BY DEF Renamed
  <1>3. \A p \in DOMAIN d \ {a} : e[p] = d[p]
    BY DEF Renamed
  <1>4. DiskOK(e)
    BY <1>1, <1>2, <1>3 DEF DiskOK
  <1>5. ASSUME a # Merge, b # Merge PROVE Saved(e) = Saved(d)
    <2> HIDE DEF e
    <2>1. ASSUME NEW r \in Saved(d) PROVE r \in Saved(e)
      <3>1. PICK p \in DOMAIN d \ {Merge} : r \in Bytes(d[p])
        BY <2>1 DEF Saved
      <3>2. CASE p = a
        BY <3>1, <3>2, <1>1, <1>2, <1>5 DEF Saved
      <3>3. CASE p # a
        BY <3>1, <3>3, <1>1, <1>3 DEF Saved
      <3>4. QED
        BY <3>2, <3>3
    <2>2. ASSUME NEW r \in Saved(e) PROVE r \in Saved(d)
      <3>1. PICK p \in DOMAIN e \ {Merge} : r \in Bytes(e[p])
        BY <2>2 DEF Saved
      <3>2. CASE p = b
        BY <3>1, <3>2, <1>2, <1>5 DEF Saved
      <3>3. CASE p # b
        BY <3>1, <3>3, <1>1, <1>3 DEF Saved
      <3>4. QED
        BY <3>2, <3>3
    <2>3. QED
      BY <2>1, <2>2
  <1>6. QED
    BY <1>1, <1>2, <1>3, <1>4, <1>5

(* What is on disk d is on disk e if every file of d is carried over *)
LEMMA SavedGrows ==
    ASSUME NEW d, NEW e, \A p \in DOMAIN d \ {Merge} : Bytes(d[p]) \subseteq Saved(e)
    PROVE  Saved(d) \subseteq Saved(e)
  BY DEF Saved

LEMMA SavedHas ==
    ASSUME NEW d, NEW p \in DOMAIN d, p # Merge
    PROVE  Bytes(d[p]) \subseteq Saved(d)
  BY DEF Saved

(* A rename onto a file it covers loses nothing *)
LEMMA RenamedOver ==
    ASSUME NEW d, DiskOK(d), NEW a \in DOMAIN d, NEW b \in Path, a # b, b # Merge,
           b \in DOMAIN d => Bytes(d[b]) \subseteq Bytes(d[a])
    PROVE  /\ DiskOK(Renamed(d, a, b))
           /\ DOMAIN Renamed(d, a, b) = (DOMAIN d \ {a}) \cup {b}
           /\ Renamed(d, a, b)[b] = d[a]
           /\ \A p \in DOMAIN d \ {a, b} : Renamed(d, a, b)[p] = d[p]
           /\ Saved(d) \subseteq Saved(Renamed(d, a, b))
  <1> DEFINE e == Renamed(d, a, b)
  <1>1. DOMAIN e = (DOMAIN d \ {a}) \cup {b}
    BY DEF Renamed
  <1>2. e[b] = d[a]
    BY DEF Renamed
  <1>3. \A p \in DOMAIN d \ {a, b} : e[p] = d[p]
    BY DEF Renamed
  <1>4. DiskOK(e)
    BY <1>1, <1>2, <1>3 DEF DiskOK
  <1>5. Saved(d) \subseteq Saved(e)
    <2> HIDE DEF e
    <2>1. Bytes(e[b]) \subseteq Saved(e)
      BY <1>1, SavedHas
    <2>2. ASSUME NEW p \in DOMAIN d \ {Merge} PROVE Bytes(d[p]) \subseteq Saved(e)
      <3>1. CASE p = a
        BY <2>1, <1>2, <3>1
      <3>2. CASE p = b
        BY <2>1, <1>2, <3>2
      <3>3. CASE p \notin {a, b}
        <4>1. p \in DOMAIN e /\ p # Merge /\ e[p] = d[p]
          BY <3>3, <2>2, <1>1, <1>3
        <4>2. QED
          BY <4>1, SavedHas
      <3>4. QED
        BY <3>1, <3>2, <3>3
    <2>3. QED
      BY <2>2, SavedGrows
  <1>6. QED
    BY <1>1, <1>2, <1>3, <1>4, <1>5

(* Removing a file whose bytes are held elsewhere, or the merge output,    *)
(* loses nothing.                                                          *)
LEMMA RemovedKeeps ==
    ASSUME NEW d, DiskOK(d), NEW p,
           p = Merge \/ p \notin DOMAIN d \/ Bytes(d[p]) = {}
             \/ \E q \in DOMAIN d \ {p, Merge} : Bytes(d[p]) \subseteq Bytes(d[q])
    PROVE  /\ DiskOK(Removed(d, p))
           /\ DOMAIN Removed(d, p) = DOMAIN d \ {p}
           /\ \A q \in DOMAIN d \ {p} : Removed(d, p)[q] = d[q]
           /\ Saved(d) \subseteq Saved(Removed(d, p))
  <1> DEFINE e == Removed(d, p)
  <1>1. DOMAIN e = DOMAIN d \ {p}
    BY DEF Removed
  <1>2. \A q \in DOMAIN d \ {p} : e[q] = d[q]
    BY DEF Removed
  <1>3. DiskOK(e)
    BY <1>1, <1>2 DEF DiskOK
  <1>4. Saved(d) \subseteq Saved(e)
    <2> HIDE DEF e
    <2>1. \A q \in DOMAIN d \ {p, Merge} : Bytes(d[q]) \subseteq Saved(e)
      BY <1>1, <1>2, SavedHas
    <2>2. ASSUME p \in DOMAIN d \ {Merge} PROVE Bytes(d[p]) \subseteq Saved(e)
      <3>1. CASE Bytes(d[p]) = {}
        BY <3>1
      <3>2. CASE \E q \in DOMAIN d \ {p, Merge} : Bytes(d[p]) \subseteq Bytes(d[q])
        BY <3>2, <2>1
      <3>3. QED
        BY <2>2, <3>1, <3>2
    <2>3. QED
      BY <2>1, <2>2, SavedGrows
  <1>5. QED
    BY <1>1, <1>2, <1>3, <1>4

(* Writing a file that is new, or writing the merge output *)
LEMMA WrittenKeeps ==
    ASSUME NEW d, DiskOK(d), NEW p \in Path, NEW f \in File,
           p = Merge \/ p \notin DOMAIN d \/ Bytes(d[p]) \subseteq Bytes(f)
    PROVE  /\ DiskOK(Written(d, p, f))
           /\ DOMAIN Written(d, p, f) = DOMAIN d \cup {p}
           /\ Written(d, p, f)[p] = f
           /\ \A q \in DOMAIN d \ {p} : Written(d, p, f)[q] = d[q]
           /\ Saved(d) \subseteq Saved(Written(d, p, f))
  <1> DEFINE e == Written(d, p, f)
  <1>1. DOMAIN e = DOMAIN d \cup {p}
    BY DEF Written
  <1>2. e[p] = f
    BY DEF Written
  <1>3. \A q \in DOMAIN d \ {p} : e[q] = d[q]
    BY DEF Written
  <1>4. DiskOK(e)
    BY <1>1, <1>2, <1>3 DEF DiskOK
  <1>5. Saved(d) \subseteq Saved(e)
    <2> HIDE DEF e
    <2>1. ASSUME NEW q \in DOMAIN d \ {Merge} PROVE Bytes(d[q]) \subseteq Saved(e)
      <3>1. q \in DOMAIN e /\ Bytes(e[q]) \subseteq Saved(e)
        BY <2>1, <1>1, SavedHas
      <3>2. Bytes(d[q]) \subseteq Bytes(e[q])
        BY <2>1, <1>2, <1>3
      <3>3. QED
        BY <3>1, <3>2
    <2>2. QED
      BY <2>1, SavedGrows
  <1>6. QED
    BY <1>1, <1>2, <1>3, <1>4, <1>5

(* What a merge writes is a file that holds every copy read in full *)
LEMMA MergedFileHolds ==
    ASSUME NEW d, DiskOK(d)
    PROVE  /\ MergedFile(d) \in File
           /\ MergedFile(d).dark = {}
           /\ \A p \in Copies(d) : d[p].dark = {} => Bytes(d[p]) \subseteq Bytes(MergedFile(d))
  <1>1. Copies(d) \subseteq DOMAIN d
    BY DEF Copies, Backups
  <1>2. QED
    BY <1>1 DEF MergedFile, File, DiskOK, Ending, Bytes

-----------------------------------------------------------------------------
(* What a step on the files keeps: the bytes saved, what a merge would     *)
(* yield but for the records lost, and the copies kept apart; and the      *)
(* bytes no reader gets are not more than they were.                       *)
Kept(d, e, lost) ==
    /\ Saved(e) = Saved(d)
    /\ Yielded(d) \ lost \subseteq Yielded(e)
    /\ \A q \in DOMAIN e : e[q].dark = {} \/ \E p \in DOMAIN d : e[q].dark = d[p].dark
    /\ \A p \in DOMAIN d : KeptApart(p) => \E q \in DOMAIN e : KeptApart(q) /\ Bytes(e[q]) = Bytes(d[p])

LEMMA KeptSame == ASSUME NEW d, NEW lost PROVE Kept(d, d, lost)
  BY DEF Kept

LEMMA KeptTwice ==
    ASSUME NEW d, NEW e, NEW f, NEW lost, Kept(d, e, lost), Kept(e, f, lost)
    PROVE  Kept(d, f, lost)
  <1>1. Saved(f) = Saved(d) /\ Yielded(d) \ lost \subseteq Yielded(f)
    BY DEF Kept
  <1>2. ASSUME NEW q \in DOMAIN f PROVE f[q].dark = {} \/ \E p \in DOMAIN d : f[q].dark = d[p].dark
    BY DEF Kept
  <1>3. ASSUME NEW p \in DOMAIN d, KeptApart(p)
        PROVE  \E q \in DOMAIN f : KeptApart(q) /\ Bytes(f[q]) = Bytes(d[p])
    <2>1. PICK m \in DOMAIN e : KeptApart(m) /\ Bytes(e[m]) = Bytes(d[p])
      BY <1>3 DEF Kept
    <2>2. PICK q \in DOMAIN f : KeptApart(q) /\ Bytes(f[q]) = Bytes(e[m])
      BY <2>1 DEF Kept
    <2>3. QED
      BY <2>1, <2>2
  <1>4. QED
    BY <1>1, <1>2, <1>3 DEF Kept

(* Every live copy of d yields no more than some live copy of e *)
LEMMA YieldedGrows ==
    ASSUME NEW d, NEW e, NEW lost,
           \A p \in DOMAIN d : Live(p) => \E q \in DOMAIN e : Live(q) /\ d[p].good \ lost \subseteq e[q].good
    PROVE  Yielded(d) \ lost \subseteq Yielded(e)
  <1>1. ASSUME NEW r \in Yielded(d), r \notin lost PROVE r \in Yielded(e)
    <2>1. PICK p \in DOMAIN d : Live(p) /\ r \in d[p].good
      BY <1>1 DEF Yielded
    <2>2. PICK q \in DOMAIN e : Live(q) /\ d[p].good \ lost \subseteq e[q].good
      BY <2>1
    <2>3. QED
      BY <1>1, <2>1, <2>2 DEF Yielded
  <1>2. QED
    BY <1>1

LEMMA KeptMoved ==
    ASSUME NEW d, DiskOK(d), NEW a \in DOMAIN d, NEW b \in Path, NEW lost, b \notin DOMAIN d,
           a # Merge, b # Merge, KeptApart(a) => KeptApart(b),
           Live(a) => Live(b) \/ \E q \in DOMAIN d \ {a} : Live(q) /\ d[a].good \ lost \subseteq d[q].good
    PROVE  Kept(d, Renamed(d, a, b), lost)
  <1> DEFINE e == Renamed(d, a, b)
  <1>1. /\ DOMAIN e = (DOMAIN d \ {a}) \cup {b} /\ e[b] = d[a]
        /\ \A p \in DOMAIN d \ {a} : e[p] = d[p]
        /\ Saved(e) = Saved(d)
    BY RenamedFree
  <1> HIDE DEF e
  <1>2. \A p \in DOMAIN d : Live(p) => \E q \in DOMAIN e : Live(q) /\ d[p].good \ lost \subseteq e[q].good
    <2>1. ASSUME NEW p \in DOMAIN d, Live(p)
          PROVE  \E q \in DOMAIN e : Live(q) /\ d[p].good \ lost \subseteq e[q].good
      <3>1. CASE p # a
        BY <1>1, <2>1, <3>1
      <3>2. CASE p = a /\ Live(b)
        BY <1>1, <3>2
      <3>3. CASE p = a /\ ~Live(b)
        BY <1>1, <2>1, <3>3
      <3>4. QED
        BY <3>1, <3>2, <3>3
    <2>2. QED
      BY <2>1
  <1>3. Yielded(d) \ lost \subseteq Yielded(e)
    BY <1>2, YieldedGrows
  <1>4. QED
    BY <1>1, <1>3 DEF Kept, e

(* Throwing away the merge output, an empty download, or a backup that the *)
(* day's file holds and yields                                             *)
LEMMA KeptRemoved ==
    ASSUME NEW d, DiskOK(d), NEW p, NEW lost, ~KeptApart(p),
           p \notin DOMAIN d \/ p = Merge \/ Bytes(d[p]) = {}
             \/ \E q \in DOMAIN d \ {p, Merge} :
                   Live(q) /\ Bytes(d[p]) \subseteq Bytes(d[q]) /\ d[p].good \ lost \subseteq d[q].good
    PROVE  Kept(d, Removed(d, p), lost)
  <1> DEFINE e == Removed(d, p)
  <1>1. /\ DOMAIN e = DOMAIN d \ {p} /\ \A q \in DOMAIN d \ {p} : e[q] = d[q]
        /\ Saved(d) \subseteq Saved(e)
    BY RemovedKeeps
  <1> HIDE DEF e
  <1>2. Saved(e) \subseteq Saved(d)
    BY <1>1 DEF Saved
  <1>3. Yielded(d) \ lost \subseteq Yielded(e)
    <2>1. ASSUME NEW r \in Yielded(d), r \notin lost PROVE r \in Yielded(e)
      <3>1. PICK q \in DOMAIN d : Live(q) /\ r \in d[q].good
        BY <2>1 DEF Yielded
      <3>2. CASE q # p
        BY <1>1, <3>1, <3>2 DEF Yielded
      <3>3. CASE q = p
        <4>1. p # Merge /\ r \in Bytes(d[p])
          BY <3>1, <3>3 DEF Live, Merge, Day, Tmp, MergeTags, Bytes
        <4>2. PICK m \in DOMAIN d \ {p, Merge} : Live(m) /\ d[p].good \ lost \subseteq d[m].good
          BY <3>3, <4>1
        <4>3. QED
          BY <1>1, <2>1, <3>1, <3>3, <4>2 DEF Yielded
      <3>4. QED
        BY <3>2, <3>3
    <2>2. QED
      BY <2>1
  <1>4. QED
    BY <1>1, <1>2, <1>3 DEF Kept, e

(* Writing the merge output, opening a download, or closing one *)
LEMMA KeptWritten ==
    ASSUME NEW d, DiskOK(d), NEW p \in {Tmp, Merge}, NEW f \in File, NEW lost, f.dark = {},
           \/ p = Merge
           \/ p \notin DOMAIN d /\ f.good = {}
           \/ p \in DOMAIN d /\ f.good = d[p].good /\ d[p].dark = {}
    PROVE  Kept(d, Written(d, p, f), lost)
  <1> DEFINE e == Written(d, p, f)
  <1>1. /\ DOMAIN e = DOMAIN d \cup {p} /\ e[p] = f /\ \A q \in DOMAIN d \ {p} : e[q] = d[q]
        /\ Saved(d) \subseteq Saved(e)
    <2>1. p \in Path /\ (p = Merge \/ p \notin DOMAIN d \/ Bytes(d[p]) \subseteq Bytes(f))
      BY DEF Path, Bytes
    <2>2. QED
      BY <2>1, WrittenKeeps
  <1> HIDE DEF e
  <1>2. Saved(e) \subseteq Saved(d)
    BY <1>1 DEF Saved, Bytes
  <1>3. \A q \in DOMAIN d : Live(q) => \E m \in DOMAIN e : Live(m) /\ d[q].good \ lost \subseteq e[m].good
    BY <1>1 DEF Live, Merge, Day, Tmp, MergeTags
  <1>4. Yielded(d) \ lost \subseteq Yielded(e)
    BY <1>3, YieldedGrows
  <1>5. ~KeptApart(p)
    BY DEF KeptApart, Tmp, Merge
  <1>6. QED
    BY <1>1, <1>2, <1>4, <1>5 DEF Kept, e

(* The merge output takes the day's name *)
LEMMA KeptPublished ==
    ASSUME NEW d, DiskOK(d), NEW lost, Merge \in DOMAIN d, Bytes(d[Merge]) \subseteq Saved(d),
           Day \in DOMAIN d => /\ Bytes(d[Day]) \subseteq Bytes(d[Merge])
                               /\ d[Day].good \ lost \subseteq d[Merge].good
    PROVE  Kept(d, Renamed(d, Merge, Day), lost)
  <1> DEFINE e == Renamed(d, Merge, Day)
  <1>1. /\ DOMAIN e = (DOMAIN d \ {Merge}) \cup {Day} /\ e[Day] = d[Merge]
        /\ \A p \in DOMAIN d \ {Merge, Day} : e[p] = d[p]
        /\ Saved(d) \subseteq Saved(e)
    <2>1. Day \in Path /\ Merge # Day /\ Day # Merge
      BY DEF Path, Merge, Day
    <2>2. QED
      BY <2>1, RenamedOver
  <1> HIDE DEF e
  <1>2. Saved(e) \subseteq Saved(d)
    BY <1>1 DEF Saved
  <1>3. \A q \in DOMAIN d : Live(q) => \E m \in DOMAIN e : Live(m) /\ d[q].good \ lost \subseteq e[m].good
    BY <1>1 DEF Live, Merge, Day, Tmp, MergeTags
  <1>4. Yielded(d) \ lost \subseteq Yielded(e)
    BY <1>3, YieldedGrows
  <1>5. \A p \in DOMAIN d : KeptApart(p) => p \notin {Merge, Day}
    BY DEF KeptApart, Merge, Day
  <1>6. QED
    BY <1>1, <1>2, <1>4, <1>5 DEF Kept, e

-----------------------------------------------------------------------------
(* The best of the backups *)

LEMMA LeastNumber ==
    ASSUME NEW T \in SUBSET Nat, T # {}
    PROVE  \E m \in T : \A n \in T : m <= n
  <1> DEFINE Upto(n) == 0 .. n
             U == {Upto(n) : n \in T}
  <1>1. U \subseteq FiniteSubsetsOf(Nat) /\ U # {}
    <2>1. ASSUME NEW n \in T PROVE Upto(n) \in FiniteSubsetsOf(Nat)
      <3>1. Upto(n) \in SUBSET Nat /\ IsFiniteSet(Upto(n))
        BY FS_Interval
      <3>2. QED
        BY <3>1 DEF FiniteSubsetsOf
    <2>2. QED
      BY <2>1
  <1>2. PICK u \in U : \A v \in U : ~(<<v, u>> \in StrictSubsetOrdering(Nat))
    <2> HIDE DEF U
    <2>1. QED
      BY <1>1, FS_StrictSubsetOrderingWellFounded, WFMin
  <1>3. PICK m \in T : u = Upto(m)
    BY <1>2
  <1>4. ASSUME NEW n \in T, n < m PROVE FALSE
    <2>1. Upto(n) \subseteq u /\ m \in u /\ m \notin Upto(n) /\ u \subseteq Nat
      BY <1>3, <1>4
    <2>2. Upto(n) \in U
      OBVIOUS
    <2> HIDE DEF Upto, U
    <2>3. <<Upto(n), u>> \in StrictSubsetOrdering(Nat)
      BY <2>1 DEF StrictSubsetOrdering
    <2>4. QED
      BY <1>2, <2>2, <2>3
  <1>5. QED
    BY <1>4

(* best_backup finds one whenever there is one to find *)
LEMMA BestBackupIsOne ==
    ASSUME NEW d, DiskOK(d)
    PROVE  BestBackups(d) = {} <=> Fit(d) = {}
  <1> DEFINE Size(p) == Cardinality(d[p].good)
             Missing(p) == Cardinality(Rec) - Size(p)
             T == {Missing(p) : p \in Fit(d)}
  <1>1. ASSUME NEW p \in Fit(d) PROVE Size(p) \in Nat /\ Missing(p) \in Nat
    <2>1. d[p].good \in SUBSET Rec
      BY DEF Fit, Backups, DiskOK, File
    <2>2. Cardinality(d[p].good) \in Nat /\ Cardinality(Rec) \in Nat
          /\ Cardinality(d[p].good) <= Cardinality(Rec)
      BY <2>1, RecAssumption, FS_Subset, FS_CardinalityType
    <2>3. QED
      BY <2>2
  <1>2. BestBackups(d) = {p \in Fit(d) : \A q \in Fit(d) : Size(q) <= Size(p)}
    BY DEF BestBackups
  <1>3. ASSUME Fit(d) # {} PROVE BestBackups(d) # {}
    <2>1. T \subseteq Nat /\ T # {}
      BY <1>1, <1>3
    <2> HIDE DEF T
    <2>2. PICK m \in T : \A n \in T : m <= n
      BY <2>1, LeastNumber
    <2>3. PICK p \in Fit(d) : m = Missing(p)
      BY <2>2 DEF T
    <2>4. ASSUME NEW q \in Fit(d) PROVE Size(q) <= Size(p)
      <3>1. Missing(p) <= Missing(q)
        BY <2>2, <2>3 DEF T
      <3>2. Size(p) \in Nat /\ Size(q) \in Nat /\ Cardinality(Rec) \in Nat
        BY <1>1, RecAssumption, FS_CardinalityType
      <3> HIDE DEF Size
      <3>3. QED
        BY <3>1, <3>2
    <2>5. QED
      BY <1>2, <2>4
  <1>4. QED
    BY <1>2, <1>3
=============================================================================
