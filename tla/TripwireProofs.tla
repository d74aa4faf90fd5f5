--------------------------- MODULE TripwireProofs ---------------------------
(***************************************************************************)
(* The tripwire's promises for every set of hosts, selectors and dates,    *)
(* any page size and cap, any number of kills, failures, untrue answers    *)
(* and changes.                                                            *)
(***************************************************************************)
EXTENDS Tripwire, FiniteSetTheorems, TLAPS

LEMMA TypeInit == Init => TypeOK
  BY HostAssumption, BoundAssumption DEF Init, TypeOK, Ledger, EmptyLedger, NoAlert, Pcs

LEMMA TypeStep == TypeOK /\ [Next]_vars => TypeOK'
  <1> SUFFICES ASSUME TypeOK, [Next]_vars PROVE TypeOK'
    OBVIOUS
  <1> USE DEF TypeOK, Ledger, NoTrouble, Mishap, At, Pcs, world, saved, search, run, told, Searched
  <1>1. ASSUME NEW s \in Selector, CountZero(s) \/ CountSome(s) \/ CountFails(s) PROVE TypeOK'
    BY <1>1 DEF CountZero, CountSome, CountFails
  <1>2. CASE Start \/ SetupFails
    BY <1>2 DEF Start, SetupFails
  <1>3. CASE PageComes \/ PageEmpty \/ PageUntrue
    <2>1. PICK found \in SUBSET Host, total \in Nat \cup {Total} : PageRead(found, total)
      <3>1. flags[sel] \subseteq Host /\ Reported \subseteq Nat
        BY PageAssumption DEF Reported
      <3>2. QED
        BY <1>3, <3>1 DEF PageComes, PageEmpty, PageUntrue
    <2>2. /\ UNCHANGED <<world, saved, iso, todo, new, rolled, code, announced>>
          /\ misled' = misled \/ misled' = misled \cup {sel}
          /\ left' = left \/ (left > 0 /\ left' = left - 1)
      <3>1. CASE PageComes
        BY <3>1 DEF PageComes
      <3>2. CASE PageEmpty
        BY <3>2 DEF PageEmpty
      <3>3. CASE PageUntrue
        BY <3>3 DEF PageUntrue
      <3>4. QED
        BY <1>3, <3>1, <3>2, <3>3
    <2>3. /\ pc' \in Pcs /\ page' \in Nat /\ banners' \subseteq Host /\ hosts' \subseteq Host
          /\ failed' \subseteq Selector /\ sel' \in Selector
      BY <2>1 DEF PageRead
    <2>4. QED
      BY <2>2, <2>3
  <1>4. CASE PageFails
    BY <1>4 DEF PageFails
  <1>5. CASE Reconcile
    BY <1>5 DEF Reconcile, NewHosts, RolledForward
  <1>6. CASE Archive \/ OpenAlert
    BY <1>6 DEF Archive, OpenAlert, NoAlert
  <1>7. CASE WriteAlert
    BY <1>7 DEF WriteAlert
  <1>8. CASE Save
    BY <1>8 DEF Save
  <1>9. CASE Exit
    BY <1>9 DEF Exit, ExitCode, Forget, EmptyLedger
  <1>10. CASE Kill
    BY <1>10 DEF Kill, Forget, EmptyLedger
  <1>11. CASE Corrupt
    BY <1>11 DEF Corrupt, EmptyLedger
  <1>12. CASE Change
    BY <1>12 DEF Change
  <1>13. CASE UNCHANGED vars
    BY <1>13 DEF vars
  <1>14. QED
    BY <1>1, <1>2, <1>3, <1>4, <1>5, <1>6, <1>7, <1>8, <1>9, <1>10, <1>11, <1>12, <1>13
       DEF Next, Watch, Trouble

(* Every variable keeps its type. *)
THEOREM Typing == Spec => []TypeOK
  BY TypeInit, TypeStep, PTL DEF Spec

-----------------------------------------------------------------------------
(* Nobody is met in silence unannounced *)

LEMMA AnnouncedStep == TypeOK /\ AnnouncedInv /\ [Next]_vars => AnnouncedInv'
  <1> SUFFICES ASSUME TypeOK, AnnouncedInv, [Next]_vars PROVE AnnouncedInv'
    OBVIOUS
  <1> USE DEF AnnouncedInv, ActiveWasAnnounced, At, world, saved, search, run, told
  <1>1. ASSUME NEW s \in Selector, CountZero(s) \/ CountSome(s) \/ CountFails(s)
        PROVE  AnnouncedInv'
    BY <1>1 DEF CountZero, CountSome, CountFails
  <1>2. CASE Start \/ SetupFails \/ PageComes \/ PageFails \/ PageEmpty \/ PageUntrue
    BY <1>2 DEF Start, SetupFails, PageComes, PageFails, PageEmpty, PageUntrue, PageRead
  <1>3. CASE Reconcile
    <2>1. rolled'.active \subseteq announced \cup new'
      BY <1>3 DEF Reconcile, NewHosts, RolledForward
    <2>2. hosts = {} => rolled'.active \subseteq announced
      BY <1>3 DEF Reconcile, NewHosts, RolledForward
    <2>3. UNCHANGED <<ledger, announced>> /\ pc' = IF hosts = {} THEN "save" ELSE "archive"
      BY <1>3 DEF Reconcile
    <2>4. QED
      BY <2>1, <2>2, <2>3
  <1>4. CASE Archive \/ OpenAlert
    BY <1>4 DEF Archive, OpenAlert
  <1>5. CASE WriteAlert
    BY <1>5 DEF WriteAlert
  <1>6. CASE Save
    BY <1>6 DEF Save
  <1>7. CASE Exit \/ Kill
    BY <1>7 DEF Exit, Kill, Forget, EmptyLedger
  <1>8. CASE Corrupt
    BY <1>8 DEF Corrupt, EmptyLedger
  <1>9. CASE Change \/ UNCHANGED vars
    BY <1>9 DEF Change, vars
  <1>10. QED
    BY <1>1, <1>2, <1>3, <1>4, <1>5, <1>6, <1>7, <1>8, <1>9 DEF Next, Watch, Trouble

(* The alert is on disk before the ledger that makes a host known          *)
(* (compromise_watch.py:381-394), so a kill anywhere cannot make a host    *)
(* known that no alert file ever named.                                    *)
THEOREM NobodySkipped == Spec => []ActiveWasAnnounced
  <1>1. Init => AnnouncedInv
    BY DEF Init, AnnouncedInv, ActiveWasAnnounced, EmptyLedger
  <1>2. AnnouncedInv => ActiveWasAnnounced
    BY DEF AnnouncedInv
  <1>3. QED
    BY <1>1, <1>2, TypeInit, TypeStep, AnnouncedStep, PTL DEF Spec

-----------------------------------------------------------------------------
(* Nobody is cleared, or passed over, while flagged *)

(* A page that keeps nothing back leaves the search with all of the first  *)
(* pages' hosts, if it had those of the pages before.                      *)
LEMMA PageCount ==
    ASSUME TypeOK, SearchInv, sel \notin misled, NEW found \in SUBSET flags[sel],
           banners \subseteq found, FullPage(found)
    PROVE  Cardinality(found) = Upto(page)
  <1>1. IsFiniteSet(found) /\ IsFiniteSet(flags[sel])
    BY HostAssumption, FS_Subset DEF TypeOK
  <1>2. Total \in Nat /\ page * PageSize \in Nat /\ (page - 1) * PageSize \in Nat
    <2>1. Total \in Nat
      BY <1>1, FS_CardinalityType DEF Total
    <2>2. page \in Nat /\ page - 1 \in Nat
      BY DEF TypeOK, SearchInv
    <2>3. QED
      BY <2>1, <2>2, PageAssumption
  <1>3. Upto(page) \in Nat /\ Upto(page - 1) \in Nat
    BY <1>2 DEF Upto, Least
  <1>4. IsFiniteSet(banners) /\ IsFiniteSet(found \ banners)
    BY <1>1, FS_Subset
  <1>5. Cardinality(found) = Cardinality(banners) + Cardinality(found \ banners)
    <2>1. found = banners \cup (found \ banners) /\ banners \cap (found \ banners) = {}
      OBVIOUS
    <2>2. Cardinality(banners \cup (found \ banners))
            = Cardinality(banners) + Cardinality(found \ banners)
              - Cardinality(banners \cap (found \ banners))
      BY <1>4, FS_Union
    <2>3. Cardinality(banners) \in Nat /\ Cardinality(found \ banners) \in Nat
      BY <1>4, FS_CardinalityType
    <2>4. Cardinality(banners \cap (found \ banners)) = 0
      BY <2>1, FS_EmptySet
    <2>5. Cardinality(banners \cup (found \ banners))
            = Cardinality(banners) + Cardinality(found \ banners)
      BY <2>2, <2>3, <2>4
    <2>6. QED
      BY <2>1, <2>5, Zenon
  <1>6. QED
    BY <1>3, <1>5 DEF SearchInv, FullPage

(* The code calls a search complete only if it has all there is, or found  *)
(* nothing, unless it was misled.                                          *)
LEMMA CompleteHasAll ==
    ASSUME TypeOK, SearchInv, sel \notin misled, NEW found \in SUBSET flags[sel],
           banners \subseteq found, NEW total \in Nat,
           (FullPage(found) /\ total >= Total) \/ found = {} \/ (found = banners /\ total >= Total),
           Complete(found, total)
    PROVE  found = flags[sel] \/ found = {}
  <1>1. IsFiniteSet(flags[sel]) /\ Total \in Nat /\ Total = Cardinality(flags[sel])
    BY HostAssumption, FS_Subset, FS_CardinalityType DEF TypeOK, Total
  <1>2. page * PageSize \in Nat /\ (page - 1) * PageSize \in Nat
    <2>1. page \in Nat /\ page - 1 \in Nat
      BY DEF TypeOK, SearchInv
    <2>2. QED
      BY <2>1, PageAssumption
  <1>3. CASE found = banners /\ total >= Total
    <2>1. (page - 1) * PageSize >= Total
      BY <1>1, <1>2, <1>3 DEF Complete
    <2>2. Cardinality(found) = Total
      BY <1>1, <1>2, <1>3, <2>1 DEF SearchInv, Upto, Least
    <2>3. QED
      BY <1>1, <2>2, FS_Subset
  <1>4. CASE FullPage(found) /\ total >= Total /\ found # banners
    <2>1. page * PageSize >= Total
      BY <1>1, <1>2, <1>4 DEF Complete
    <2>2. Cardinality(found) = Total
      BY <1>1, <1>2, <1>4, <2>1, PageCount DEF Upto, Least
    <2>3. QED
      BY <1>1, <2>2, FS_Subset
  <1>5. QED
    BY <1>3, <1>4

(* What a page answered by the provider can do to the search *)
LEMMA SearchStep ==
    ASSUME TypeOK, SeenInv, pc = "search", UNCHANGED <<flags, todo>>,
           NEW found \in SUBSET flags[sel], NEW total \in Nat, banners \subseteq found,
           PageRead(found, total), misled' = misled \/ misled' = misled \cup {sel},
           sel \notin misled' =>
               (FullPage(found) /\ total >= Total) \/ found = {} \/ (found = banners /\ total >= Total)
    PROVE  SeenInv'
  <1>1. SearchInv /\ \A s \in Selector \ (todo \cup {sel}) : Asked(s)
    BY DEF SeenInv
  <1>2. CASE GoesOn(found, total)
    <2>1. /\ page' = page + 1 /\ banners' = found /\ found # banners
          /\ UNCHANGED <<pc, sel, hosts, failed>>
      BY <1>2 DEF PageRead, GoesOn
    <2>2. SearchInv'
      <3>1. page' # 0 /\ page' # 1 /\ page' - 1 = page
        BY <1>1, <2>1 DEF TypeOK, SearchInv
      <3>2. ASSUME sel \notin misled' PROVE Cardinality(found) = Upto(page)
        <4>1. sel \notin misled
          BY <3>2
        <4>2. CASE FullPage(found)
          BY <1>1, <4>1, <4>2, PageCount
        <4>3. CASE found = {}
          BY <2>1, <4>3
        <4>4. QED
          BY <2>1, <3>2, <4>2, <4>3
      <3>3. Upto(page)' = Least(page' * PageSize, Total)
        BY <2>1 DEF Upto, Total
      <3>4. Upto(page - 1)' = Upto(page)
        BY <2>1, <3>1 DEF Upto, Total
      <3>5. QED
        BY <2>1, <3>1, <3>2, <3>4 DEF SearchInv
    <2>3. \A s \in Selector \ (todo \cup {sel}) : Asked(s)'
      BY <1>1, <2>1 DEF Asked
    <2>4. QED
      BY <2>1, <2>2, <2>3 DEF SeenInv
  <1>3. CASE ~GoesOn(found, total)
    <2>1. pc' = "count" /\ Searched(found, Complete(found, total))
      BY <1>3 DEF PageRead
    <2>2. Asked(sel)'
      <3>1. CASE sel \in misled'
        BY <2>1, <3>1 DEF Asked, Searched
      <3>2. CASE sel \notin misled' /\ Complete(found, total)
        <4>1. found = flags[sel] \/ found = {}
          BY <1>1, <3>2, CompleteHasAll
        <4>2. QED
          BY <2>1, <4>1 DEF Asked, Searched
      <3>3. CASE ~Complete(found, total)
        BY <2>1, <3>3 DEF Asked, Searched
      <3>4. QED
        BY <3>1, <3>2, <3>3
    <2>3. \A s \in Selector \ (todo \cup {sel}) : Asked(s)'
      BY <1>1, <2>1 DEF Asked, Searched
    <2>4. UNCHANGED <<sel, todo>>
      BY <2>1 DEF Searched
    <2>5. QED
      BY <2>1, <2>2, <2>3, <2>4 DEF SeenInv
  <1>4. QED
    BY <1>2, <1>3

LEMMA SeenStep ==
    ASSUME TypeOK, AnnouncedInv, SeenInv, [Next]_vars
    PROVE  SeenInv'
  <1> USE DEF SeenInv, Asked, At, world, saved, search, run, told
  <1>1. ASSUME NEW s \in Selector, CountZero(s) \/ CountFails(s)
        PROVE  SeenInv'
    BY <1>1 DEF CountZero, CountFails
  <1>2. ASSUME NEW s \in Selector, CountSome(s)
        PROVE  SeenInv'
    <2>1. /\ pc = "count" /\ pc' = "search" /\ sel' = s /\ page' = 1 /\ banners' = {}
          /\ todo' = todo \ {s} /\ UNCHANGED <<flags, hosts, failed, misled>>
      BY <1>2 DEF CountSome
    <2>2. SearchInv'
      <3>1. Total' \in Nat
        BY <2>1, HostAssumption, FS_Subset, FS_CardinalityType DEF TypeOK, Total
      <3>2. Upto(page - 1)' = 0
        BY <2>1, <3>1, PageAssumption DEF Upto, Least
      <3>3. QED
        BY <2>1, <3>2, FS_EmptySet DEF SearchInv
    <2>3. QED
      BY <2>1, <2>2
  <1>3. CASE Start
    BY <1>3 DEF Start
  <1>4. CASE SetupFails
    BY <1>4 DEF SetupFails, Vouched, FlaggedFor
  <1>5. CASE PageComes
    <2>1. PICK found \in SUBSET flags[sel] :
            banners \subseteq found /\ FullPage(found) /\ PageRead(found, Total)
      BY <1>5 DEF PageComes
    <2>2. Total \in Nat
      BY HostAssumption, FS_Subset, FS_CardinalityType DEF TypeOK, Total
    <2>3. pc = "search" /\ UNCHANGED <<flags, todo, misled>>
      BY <1>5 DEF PageComes
    <2> HIDE DEF SeenInv
    <2>4. QED
      BY <2>1, <2>2, <2>3, SearchStep
  <1>6. CASE PageEmpty
    <2>1. PICK total \in Reported :
            /\ PageRead(banners, total)
            /\ \/ (page = 1 \/ total >= Total) /\ UNCHANGED misled
               \/ misled' = misled \cup {sel}
      BY <1>6 DEF PageEmpty
    <2>2. pc = "search" /\ UNCHANGED <<flags, todo>> /\ total \in Nat
      BY <1>6, PageAssumption DEF PageEmpty, Reported
    <2>3. PICK found \in SUBSET flags[sel] : found = banners
      BY <2>2 DEF SearchInv
    <2>4. /\ misled' = misled \/ misled' = misled \cup {sel}
          /\ sel \notin misled' =>
                (FullPage(found) /\ total >= Total) \/ found = {} \/ (found = banners /\ total >= Total)
      BY <2>1, <2>2, <2>3 DEF SearchInv
    <2>5. PageRead(found, total) /\ banners \subseteq found
      BY <2>1, <2>3
    <2> HIDE DEF SeenInv
    <2>6. QED
      BY <2>2, <2>3, <2>4, <2>5, SearchStep
  <1>7. CASE PageUntrue
    <2>1. PICK found \in SUBSET flags[sel], total \in Reported :
            /\ banners \subseteq found /\ PageRead(found, total)
            /\ misled' = IF FullPage(found) /\ total >= Total THEN misled ELSE misled \cup {sel}
      BY <1>7 DEF PageUntrue
    <2>2. pc = "search" /\ UNCHANGED <<flags, todo>> /\ total \in Nat
      BY <1>7, PageAssumption DEF PageUntrue, Reported
    <2> HIDE DEF SeenInv
    <2>3. QED
      BY <2>1, <2>2, SearchStep
  <1>8. CASE PageFails
    BY <1>8 DEF PageFails, Searched
  <1>9. CASE Reconcile
    <2>1. /\ pc = "count" /\ pc' \in {"archive", "save"} /\ todo = {}
          /\ UNCHANGED <<flags, failed, ledger, misled>>
          /\ rolled' = RolledForward(ledger, hosts, failed # {})
      BY <1>9 DEF Reconcile
    <2>2. failed = {} => Vouched \subseteq hosts
      BY <2>1 DEF Vouched, FlaggedFor
    <2>3. Vouched' = Vouched
      BY <2>1 DEF Vouched, FlaggedFor
    <2>4. QED
      BY <2>1, <2>2, <2>3 DEF RolledForward
  <1>10. CASE Archive \/ OpenAlert \/ WriteAlert
    BY <1>10 DEF Archive, OpenAlert, WriteAlert, Vouched, FlaggedFor
  <1>11. CASE Save
    BY <1>11 DEF Save, Vouched, FlaggedFor, AnnouncedInv
  <1>12. CASE Exit \/ Kill
    BY <1>12 DEF Exit, Kill
  <1>13. CASE Corrupt
    <2>1. ledger'.active = {} /\ UNCHANGED <<flags, pc, run, told>>
      BY <1>13 DEF Corrupt, EmptyLedger
    <2>2. Vouched' = Vouched
      BY <2>1 DEF Vouched, FlaggedFor
    <2>3. UNCHANGED SearchInv
      BY <2>1 DEF SearchInv, Upto, Total
    <2>4. QED
      BY <2>1, <2>2, <2>3
  <1>14. CASE Change
    BY <1>14 DEF Change
  <1>15. CASE UNCHANGED vars
    BY <1>15 DEF vars, Vouched, FlaggedFor, SearchInv, Upto, Total
  <1>16. QED
    BY <1>1, <1>2, <1>3, <1>4, <1>5, <1>6, <1>7, <1>8, <1>9, <1>10, <1>11, <1>12, <1>13, <1>14,
       <1>15 DEF Next, Watch, Trouble

LEMMA IInvHolds == Spec => []IInv
  <1>1. Init => IInv
    BY TypeInit DEF Init, IInv, AnnouncedInv, SeenInv, ActiveWasAnnounced, EmptyLedger
  <1>2. IInv /\ [Next]_vars => IInv'
    BY TypeStep, AnnouncedStep, SeenStep DEF IInv
  <1>3. QED
    BY <1>1, <1>2, PTL DEF Spec

(* "No result" is not "resolved" (reconcile, compromise_watch.py:169-206): *)
(* no run takes out of the active set a host that a selector flags, unless *)
(* this run was told too little of that very selector.                     *)
THEOREM NothingClearedBlind == Spec => NeverClearedWhileFlagged
  <1>1. IInv /\ [Next]_vars => [Save => Vouched \cap ledger.active \subseteq ledger'.active]_vars
    BY DEF IInv, SeenInv, Save, At
  <1>2. QED
    BY <1>1, IInvHolds, PTL DEF Spec, NeverClearedWhileFlagged

(* An exit code of 0 (compromise_watch.py:353, 415) is never silence over  *)
(* a flagged host nobody was told of, with the same exception.             *)
THEOREM QuietIsHonest == Spec => QuietMeansAnnounced
  <1>1. IInv /\ [Next]_vars => [Exit /\ code' = "0" => Vouched \subseteq announced]_vars
    BY DEF IInv, SeenInv, Exit, ExitCode, At
  <1>2. QED
    BY <1>1, IInvHolds, PTL DEF Spec, QuietMeansAnnounced
=============================================================================
