-------------------------- MODULE LeadStoreProofs --------------------------
(***************************************************************************)
(* What LeadStore's runs check on two leads and five names holds for any   *)
(* leads, names, number of snapshots kept, and accidents.                  *)
(***************************************************************************)
EXTENDS LeadStore, TLAPS

(* Newer is a preorder on the rows. *)
LEMMA NewerSelf == ASSUME NEW a \in Rows PROVE Newer(a, a)
  BY DEF Newer, Rows

LEMMA NewerTrans ==
  ASSUME NEW a \in Rows, NEW b \in Rows, NEW c \in Rows, Newer(a, b), Newer(b, c)
  PROVE  Newer(a, c)
  BY DEF Newer, Rows

(* The empty database is a database, and its rows are older than any. *)
LEMMA EmptyFacts ==
  /\ EmptyDb \in Database /\ NoRows \in Rows
  /\ \A a \in Rows : Newer(a, NoRows)
  BY DEF EmptyDb, Database, NoRows, Rows, Newer

(* One more change to a database gives a database that is newer. *)
LEMMA ChangedFacts ==
  ASSUME TypeOK, Numbered(db.rows), NEW leads \in SUBSET Lead
  PROVE  /\ Changed(db, leads) \in Database
         /\ Newer(Changed(db, leads).rows, db.rows)
         /\ \A l \in Lead : Changed(db, leads).rows[l] <= changes + 1
  <1> DEFINE rows == [l \in Lead |-> IF l \in leads THEN changes + 1 ELSE db.rows[l]]
             events == db.events \cup {<<l, changes + 1>> : l \in leads}
  <1>1. rows \in Rows /\ events \in SUBSET (Lead \X Nat)
    BY DEF TypeOK, Database, Rows
  <1>2. Changed(db, leads) = [rows |-> rows, events |-> events, migrated |-> db.migrated]
    BY DEF Changed
  <1>3. Changed(db, leads) \in Database
    BY <1>1, <1>2 DEF TypeOK, Database
  <1>4. \A l \in Lead : db.rows[l] \in Nat /\ db.rows[l] <= changes
    BY DEF TypeOK, Database, Rows, Numbered
  <1>5. QED
    BY <1>2, <1>3, <1>4 DEF Newer, TypeOK

-----------------------------------------------------------------------------
(* The type invariant *)

LEMMA TypeInit == Init => TypeOK
  BY EmptyFacts, KeepAssumption, BoundAssumption
     DEF Init, TypeOK, Rows, Generation, Pcs, Commands

(* Each action keeps every variable in its type. *)
LEMMA TypeStep == IInv /\ [Next]_vars => TypeOK'
  <1> SUFFICES ASSUME IInv, [Next]_vars PROVE TypeOK'
    OBVIOUS
  <1> USE EmptyFacts DEF IInv
  <1>1. CASE UNCHANGED vars
    BY <1>1 DEF vars, disk, command, TypeOK
  <1>2. CASE RefreshStart \/ SetStart
    BY <1>2 DEF RefreshStart, SetStart, Start, At, NoTrouble, disk, TypeOK, Pcs, Commands
  <1>3. CASE RestoreLeads
    <2>1. db' \in Database
      BY <1>3 DEF RestoreLeads, Restorable, Usable, TypeOK, Database, Generation
    <2>2. QED
      BY <1>3, <2>1 DEF RestoreLeads, At, NoTrouble, TypeOK, Pcs
  <1>4. CASE EnsureExisting
    BY <1>4 DEF EnsureExisting, AfterEnsure, At, NoTrouble, disk, TypeOK, Pcs
  <1>5. CASE RestoreEvents \/ RestoreMarks
    <2>1. current \in DOMAIN snaps /\ snaps[current] \in Generation
      BY <1>5 DEF RestoreEvents, RestoreMarks, At, TxnInv, CurrentWhole, TypeOK
    <2>2. db' \in Database
      BY <1>5, <2>1 DEF RestoreEvents, RestoreMarks, TypeOK, Database, Generation
    <2>3. QED
      BY <1>5, <2>2 DEF RestoreEvents, RestoreMarks, AfterEnsure, At, NoTrouble, TypeOK, Pcs
  <1>6. CASE MarksClash \/ SetRefused \/ CommandFails \/ Kill
    BY <1>6 DEF MarksClash, SetRefused, CommandFails, Kill, Forget, At, NoTrouble, Mishap,
                disk, TypeOK, Pcs, Commands
  <1>7. CASE MigrateLegacy
    <2>1. db' \in Database
      <3>1. CASE "legacy_import_v1" \in db.migrated
        BY <3>1, <1>7 DEF MigrateLegacy, TypeOK
      <3>2. CASE "legacy_import_v1" \notin db.migrated
        <4>1. [l \in Lead |-> IF Imported(l) THEN copy[l] ELSE db.rows[l]] \in Rows
          BY DEF TypeOK, Database, Rows
        <4>2. db.events \cup {<<l, 0>> : l \in {k \in Lead : Imported(k)}} \in SUBSET (Lead \X Nat)
          BY DEF TypeOK, Database
        <4>3. db.migrated \cup {"legacy_import_v1"} \in SUBSET Migration
          BY DEF TypeOK, Database, Migration
        <4>4. QED
          BY <3>2, <4>1, <4>2, <4>3, <1>7 DEF MigrateLegacy, Database
      <3>3. QED
        BY <3>1, <3>2
    <2>2. QED
      BY <1>7, <2>1 DEF MigrateLegacy, At, NoTrouble, TypeOK, Pcs
  <1>8. CASE MigrateIds
    <2>1. db' \in Database
      BY <1>8 DEF MigrateIds, TypeOK, Database, Migration
    <2>2. QED
      BY <1>8, <2>1 DEF MigrateIds, At, NoTrouble, TypeOK, Pcs
  <1>9. CASE RefreshApply \/ SetApply
    <2>1. view' \in Database
      BY <1>9, ChangedFacts DEF RefreshApply, SetApply, InTransaction, NumberInv, TypeOK
    <2>2. changes' \in Nat /\ left' \in Nat
      BY <1>9 DEF RefreshApply, SetApply, NoTrouble, Mishap, TypeOK
    <2>3. QED
      BY <1>9, <2>1, <2>2 DEF RefreshApply, SetApply, At, disk, TypeOK, Pcs
  <1>10. CASE WriteStart
    BY <1>10 DEF WriteStart, Names, NoTrouble, TypeOK, Generation
  <1>11. CASE WriteFile
    BY <1>11 DEF WriteFile, NoTrouble, TypeOK, Generation, GenInv
  <1>12. CASE WriteEnd
    BY <1>12 DEF WriteEnd, AfterWrite, At, NoTrouble, disk, TypeOK, Pcs
  <1>13. CASE Commit
    BY <1>13 DEF Commit, AfterCommit, At, NoTrouble, TypeOK, Pcs
  <1>14. CASE CommitFails
    BY <1>14 DEF CommitFails, Dropped, Forget, At, Mishap, TypeOK, Pcs, Commands
  <1>15. CASE Point
    BY <1>15 DEF Point, At, NoTrouble, TypeOK, Pcs
  <1>16. CASE Prune
    BY <1>16 DEF Prune, Dropped, At, NoTrouble, TypeOK, Pcs
  <1>17. CASE PublishCopy
    BY <1>17 DEF PublishCopy, Copy, Forget, At, NoTrouble, Mishap, TypeOK, Database, Pcs, Commands
  <1>18. CASE Lose \/ Rebuild
    BY <1>18 DEF Lose, Rebuild, Mishap, command, TypeOK
  <1>19. QED
    BY <1>1, <1>2, <1>3, <1>4, <1>5, <1>6, <1>7, <1>8, <1>9, <1>10, <1>11, <1>12, <1>13, <1>14,
       <1>15, <1>16, <1>17, <1>18 DEF Next, Work, Trouble

-----------------------------------------------------------------------------
(* CURRENT names a complete generation after each action: only Point moves *)
(* it, and nothing is written to or removed from the one it names.         *)
LEMMA CurrentStep == IInv /\ [Next]_vars => CurrentWhole'
  <1> SUFFICES ASSUME IInv, [Next]_vars PROVE CurrentWhole'
    OBVIOUS
  <1> USE DEF IInv, CurrentWhole
  <1>1. CASE UNCHANGED <<current, snaps>>
    BY <1>1
  <1>2. CASE WriteStart
    BY <1>2 DEF WriteStart, Names, TypeOK
  <1>3. CASE WriteFile
    BY <1>3 DEF WriteFile, GenInv, TypeOK
  <1>4. CASE CommitFails
    BY <1>4 DEF CommitFails, Dropped, At, GenInv, TypeOK
  <1>5. CASE Point
    BY <1>5 DEF Point, At, GenInv
  <1>6. CASE Prune
    <2>1. current = gen /\ current \notin Stale
      BY <1>6 DEF Prune, At, GenInv, Stale
    <2>2. QED
      BY <1>6, <2>1 DEF Prune, Dropped
  <1>7. QED
    BY <1>1, <1>2, <1>3, <1>4, <1>5, <1>6
       DEF Next, Work, Trouble, vars, disk, command, RefreshStart, SetStart, Start, RestoreLeads,
           EnsureExisting, RestoreEvents, RestoreMarks, MarksClash, MigrateLegacy, MigrateIds,
           RefreshApply, SetApply, SetRefused, WriteEnd, Commit, PublishCopy, CommandFails, Kill,
           Lose, Rebuild

(* What gen says of the snapshots stays true: each generation holds what   *)
(* the transaction held when it was begun.                                 *)
LEMMA GenStep == IInv /\ [Next]_vars => GenInv'
  <1> SUFFICES ASSUME IInv, [Next]_vars PROVE GenInv'
    OBVIOUS
  <1> USE DEF IInv, GenInv
  <1>1. CASE UNCHANGED vars
    BY <1>1 DEF vars, disk, command
  <1>2. CASE RefreshStart \/ SetStart
    BY <1>2 DEF RefreshStart, SetStart, Start, At, disk
  <1>3. CASE RestoreLeads \/ EnsureExisting \/ RestoreEvents \/ RestoreMarks
    BY <1>3 DEF RestoreLeads, EnsureExisting, RestoreEvents, RestoreMarks, AfterEnsure, At, disk
  <1>4. CASE MarksClash \/ SetRefused \/ CommandFails \/ Kill
    BY <1>4 DEF MarksClash, SetRefused, CommandFails, Kill, Forget, At, disk
  <1>5. CASE MigrateLegacy \/ MigrateIds
    BY <1>5 DEF MigrateLegacy, MigrateIds, At
  <1>6. CASE RefreshApply \/ SetApply
    BY <1>6 DEF RefreshApply, SetApply, At, disk
  <1>7. CASE WriteStart
    BY <1>7 DEF WriteStart, Names, TypeOK
  <1>8. CASE WriteFile
    BY <1>8 DEF WriteFile, TypeOK, Generation
  <1>9. CASE WriteEnd
    BY <1>9 DEF WriteEnd, AfterWrite, At, disk
  <1>10. CASE Commit
    BY <1>10 DEF Commit, AfterCommit, At, TypeOK
  <1>11. CASE CommitFails
    BY <1>11 DEF CommitFails, Forget, At
  <1>12. CASE Point
    BY <1>12 DEF Point, At
  <1>13. CASE Prune
    BY <1>13 DEF Prune, Dropped, Stale, At
  <1>14. CASE PublishCopy
    BY <1>14 DEF PublishCopy, Forget, At
  <1>15. CASE Lose \/ Rebuild
    BY <1>15 DEF Lose, Rebuild, command
  <1>16. QED
    BY <1>1, <1>2, <1>3, <1>4, <1>5, <1>6, <1>7, <1>8, <1>9, <1>10, <1>11, <1>12, <1>13, <1>14,
       <1>15 DEF Next, Work, Trouble

(* The transaction is on the side of its commit that TxnInv says. *)
LEMMA TxnStep == IInv /\ [Next]_vars => TxnInv'
  <1> SUFFICES ASSUME IInv, [Next]_vars PROVE TxnInv'
    OBVIOUS
  <1> USE DEF IInv, TxnInv
  <1>1. CASE UNCHANGED vars
    BY <1>1 DEF vars, disk, command, Newer
  <1>2. CASE RefreshStart \/ SetStart
    BY <1>2 DEF RefreshStart, SetStart, Start, At, disk
  <1>3. CASE RestoreLeads
    BY <1>3, 0 \notin Gen \ {0} DEF RestoreLeads, Restorable, Usable, At, TypeOK
  <1>4. CASE EnsureExisting \/ RestoreEvents \/ RestoreMarks
    BY <1>4 DEF EnsureExisting, RestoreEvents, RestoreMarks, AfterEnsure, At, disk
  <1>5. CASE MarksClash \/ SetRefused \/ CommandFails \/ CommitFails \/ Kill \/ PublishCopy
    BY <1>5 DEF MarksClash, SetRefused, CommandFails, CommitFails, Kill, PublishCopy, At
  <1>6. CASE MigrateLegacy \/ MigrateIds
    BY <1>6 DEF MigrateLegacy, MigrateIds, At
  <1>7. CASE RefreshApply \/ SetApply
    <2>1. Newer(view'.rows, db.rows)
      BY <1>7, ChangedFacts, NewerSelf
         DEF RefreshApply, SetApply, InTransaction, NumberInv, TypeOK, Database
    <2>2. UNCHANGED <<db, cmd>> /\ pc' \in {"write", "commit"} /\ (pc' = "write" => cmd = "set")
      BY <1>7 DEF RefreshApply, SetApply, At, disk
    <2>3. cmd \in {"refresh", "set"}
      BY <1>7 DEF RefreshApply, SetApply
    <2>4. QED
      BY <2>1, <2>2, <2>3 DEF Newer
  <1>8. CASE WriteStart \/ WriteFile \/ WriteEnd
    BY <1>8 DEF WriteStart, WriteFile, WriteEnd, AfterWrite, At, disk, Newer
  <1>9. CASE Commit
    <2>1. Newer(view.rows, view.rows)
      BY NewerSelf DEF TypeOK, Database
    <2>2. QED
      BY <1>9, <2>1 DEF Commit, AfterCommit, At, Newer
  <1>10. CASE Point \/ Prune
    BY <1>10 DEF Point, Prune, At
  <1>11. CASE Lose \/ Rebuild
    BY <1>11 DEF Lose, Rebuild, command
  <1>12. QED
    BY <1>1, <1>2, <1>3, <1>4, <1>5, <1>6, <1>7, <1>8, <1>9, <1>10, <1>11 DEF Next, Work, Trouble

(* No action writes a number that has not been taken. *)
LEMMA NumberStep == IInv /\ [Next]_vars => NumberInv'
  <1> SUFFICES ASSUME IInv, [Next]_vars PROVE NumberInv'
    OBVIOUS
  <1> USE DEF IInv, NumberInv, Numbered
  <1>1. CASE UNCHANGED <<db, copy, view, snaps, changes>>
    BY <1>1
  <1>2. CASE RestoreLeads
    BY <1>2 DEF RestoreLeads, Restorable, Usable, TypeOK, Database
  <1>3. CASE RestoreEvents \/ RestoreMarks
    BY <1>3 DEF RestoreEvents, RestoreMarks, TypeOK, Database
  <1>4. CASE MarksClash \/ SetRefused \/ CommandFails \/ Kill
    BY <1>4 DEF MarksClash, SetRefused, CommandFails, Kill, Forget, disk, EmptyDb, NoRows, TypeOK
  <1>5. CASE MigrateLegacy
    BY <1>5 DEF MigrateLegacy, TypeOK, Database, Rows
  <1>6. CASE MigrateIds
    BY <1>6 DEF MigrateIds, TypeOK, Database
  <1>7. CASE RefreshApply \/ SetApply
    <2>1. changes \in Nat /\ changes' \in {changes, changes + 1} /\ UNCHANGED disk
      BY <1>7 DEF RefreshApply, SetApply, TypeOK
    <2>2. \A l \in Lead : view'.rows[l] <= changes'
      BY <1>7, ChangedFacts DEF RefreshApply, SetApply, InTransaction
    <2>3. \A rows \in Rows : Numbered(rows) => \A l \in Lead : rows[l] <= changes'
      BY <2>1 DEF Rows
    <2>4. QED
      BY <2>1, <2>2, <2>3 DEF disk, TypeOK, Database, Generation
  <1>8. CASE WriteStart
    BY <1>8 DEF WriteStart, TypeOK, Generation
  <1>9. CASE WriteFile
    BY <1>9 DEF WriteFile, TypeOK, Generation
  <1>10. CASE Commit
    BY <1>10 DEF Commit
  <1>11. CASE CommitFails
    BY <1>11 DEF CommitFails, Dropped, Forget, EmptyDb, NoRows, TypeOK
  <1>12. CASE Prune
    BY <1>12 DEF Prune, Dropped
  <1>13. CASE PublishCopy
    BY <1>13 DEF PublishCopy, Copy, Forget, EmptyDb, NoRows, TypeOK
  <1>14. CASE Lose \/ Rebuild
    BY <1>14 DEF Lose, Rebuild, command, EmptyDb, NoRows, TypeOK
  <1>15. QED
    BY <1>1, <1>2, <1>3, <1>4, <1>5, <1>6, <1>7, <1>8, <1>9, <1>10, <1>11, <1>12, <1>13, <1>14
       DEF Next, Work, Trouble, vars, disk, command, RefreshStart, SetStart, Start,
           EnsureExisting, WriteEnd, Point

(* The snapshot CURRENT names is touched by nothing but Point. *)
LEMMA SnapshotKept ==
  ASSUME IInv, [Next]_vars, UNCHANGED current, current # 0
  PROVE  current \in DOMAIN snaps' /\ snaps'[current].base = snaps[current].base
  <1> USE DEF IInv, CurrentWhole
  <1>1. CASE UNCHANGED snaps
    BY <1>1
  <1>2. CASE WriteStart
    BY <1>2 DEF WriteStart, Names, TypeOK
  <1>3. CASE WriteFile
    BY <1>3 DEF WriteFile, GenInv, TypeOK
  <1>4. CASE CommitFails
    BY <1>4 DEF CommitFails, Dropped, At, GenInv, TypeOK
  <1>5. CASE Prune
    <2>1. current = gen /\ current \notin Stale
      BY <1>5 DEF Prune, At, GenInv, Stale
    <2>2. QED
      BY <1>5, <2>1 DEF Prune, Dropped
  <1>6. QED
    BY <1>1, <1>2, <1>3, <1>4, <1>5
       DEF Next, Work, Trouble, vars, disk, command, RefreshStart, SetStart, Start, RestoreLeads,
           EnsureExisting, RestoreEvents, RestoreMarks, MarksClash, MigrateLegacy, MigrateIds,
           RefreshApply, SetApply, SetRefused, WriteEnd, Commit, Point, PublishCopy, CommandFails,
           Kill, Lose, Rebuild

(* A command past the restore works on nothing older than CURRENT. *)
LEMMA AheadStep == IInv /\ [Next]_vars => AheadInv'
  <1> SUFFICES ASSUME IInv, [Next]_vars PROVE AheadInv'
    OBVIOUS
  <1> DEFINE Named == snaps[current].base.rows
  <1>1. CASE current' = current /\ current = 0
    BY <1>1, CurrentStep, TypeStep DEF AheadInv, Usable, TypeOK
  <1>2. CASE current' = current /\ current # 0
    <2> USE <1>2 DEF IInv
    <2>1. Usable /\ Named \in Rows /\ db.rows \in Rows /\ view.rows \in Rows
      BY DEF CurrentWhole, Usable, TypeOK, Generation, Database
    <2>2. snaps'[current'].base.rows = Named
      BY SnapshotKept
    <2>3. SUFFICES ASSUME ~Empty(db'.rows) \/ pc' \notin {"idle", "ensure"}
                   PROVE  Newer(db'.rows, Named)
      BY <2>2 DEF AheadInv, Newer
    <2>4. ~Empty(db.rows) \/ pc \notin {"idle", "ensure"} => Newer(db.rows, Named)
      BY <2>1 DEF AheadInv
    <2>5. CASE UNCHANGED <<db, pc>> \/ RefreshStart \/ SetStart
      BY <2>3, <2>4, <2>5 DEF RefreshStart, SetStart, Start, At, disk
    <2>6. CASE RestoreLeads
      BY <2>1, <2>6, NewerSelf DEF RestoreLeads, TypeOK
    <2>7. CASE EnsureExisting
      BY <2>1, <2>4, <2>7 DEF EnsureExisting, Restorable, disk
    <2>8. CASE RestoreEvents \/ RestoreMarks \/ MigrateIds
      BY <2>4, <2>8 DEF RestoreEvents, RestoreMarks, MigrateIds, At, TypeOK, Database
    <2>9. CASE MigrateLegacy
      <3>1. Newer(db'.rows, db.rows) /\ db'.rows \in Rows
        BY <2>9, TypeStep DEF MigrateLegacy, Imported, Newer, TypeOK, Database, Rows
      <3>2. Newer(db.rows, Named)
        BY <2>4, <2>9 DEF MigrateLegacy, At
      <3>3. QED
        BY <2>1, <3>1, <3>2, NewerTrans
    <2>10. CASE Commit
      <3>1. Newer(view.rows, db.rows) /\ Newer(db.rows, Named)
        BY <2>4, <2>10 DEF Commit, At, TxnInv
      <3>2. QED
        BY <2>1, <2>10, <3>1, NewerTrans DEF Commit
    <2>11. CASE Lose
      BY <2>3, <2>11 DEF Lose, command, EmptyDb, NoRows, Empty
    <2>12. CASE MarksClash \/ RefreshApply \/ SetApply \/ SetRefused \/ WriteStart \/ WriteFile
                \/ WriteEnd \/ CommitFails \/ CommandFails \/ Prune \/ PublishCopy \/ Kill
      <3>1. db' = db /\ (~Empty(db.rows) \/ pc \notin {"idle", "ensure"})
        BY <2>3, <2>12
           DEF MarksClash, RefreshApply, SetApply, SetRefused, WriteStart, WriteFile, WriteEnd,
               CommitFails, CommandFails, Prune, PublishCopy, Kill, At, disk
      <3>2. QED
        BY <2>4, <3>1
    <2>13. CASE Point
      <3>1. db' = db /\ pc \notin {"idle", "ensure"}
        BY <2>13 DEF Point, At
      <3>2. QED
        BY <2>4, <3>1
    <2>14. CASE Rebuild \/ UNCHANGED vars
      BY <2>5, <2>14 DEF Rebuild, command, vars, disk
    <2>15. QED
      BY <2>5, <2>6, <2>7, <2>8, <2>9, <2>10, <2>11, <2>12, <2>13, <2>14 DEF Next, Work, Trouble
  <1>3. CASE current' # current
    <2>1. Point
      BY <1>3 DEF Next, Work, Trouble, vars, disk, command, RefreshStart, SetStart, Start,
                  RestoreLeads, EnsureExisting, RestoreEvents, RestoreMarks, MarksClash,
                  MigrateLegacy, MigrateIds, RefreshApply, SetApply, SetRefused, WriteStart,
                  WriteFile, WriteEnd, Commit, CommitFails, CommandFails, Prune, PublishCopy,
                  Kill, Lose, Rebuild
    <2>2. snaps'[current'].base = db'
      BY <2>1 DEF Point, At, IInv, GenInv, TxnInv
    <2>3. Newer(db'.rows, db'.rows)
      BY NewerSelf, TypeStep DEF TypeOK, Database
    <2>4. QED
      BY <2>2, <2>3 DEF AheadInv
  <1>4. QED
    BY <1>1, <1>2, <1>3

(* What was told is in the snapshot CURRENT names. *)
LEMMA ToldStep == IInv /\ [Next]_vars => ToldInv'
  <1> SUFFICES ASSUME IInv, [Next]_vars PROVE ToldInv'
    OBVIOUS
  <1> USE DEF IInv
  <1>1. CASE Point
    <2>1. current' = gen /\ gen # 0 /\ snaps' = snaps /\ snaps[gen].base = db /\ told' = told
      BY <1>1 DEF Point, At, GenInv, TxnInv
    <2>2. Newer(db.rows, told.rows)
      <3>1. CASE current = 0
        BY <3>1, EmptyFacts DEF ToldInv, TypeOK, Database
      <3>2. CASE current # 0
        <4>1. Usable /\ snaps[current].base.rows \in Rows
          BY <3>2 DEF CurrentWhole, Usable, TypeOK, Generation, Database
        <4>2. Newer(db.rows, snaps[current].base.rows)
          BY <1>1, <4>1 DEF AheadInv, Point, At
        <4>3. Newer(snaps[current].base.rows, told.rows)
          BY <3>2 DEF ToldInv
        <4>4. QED
          BY <4>1, <4>2, <4>3, NewerTrans DEF TypeOK, Database
      <3>3. QED
        BY <3>1, <3>2
    <2>3. QED
      BY <2>1, <2>2 DEF ToldInv
  <1>2. CASE PublishCopy
    <2>1. current # 0 /\ current' = current /\ snaps' = snaps
          /\ snaps[current].base = db /\ told' = db
      BY <1>2 DEF PublishCopy, At, GenInv, TxnInv
    <2>2. Newer(db.rows, db.rows)
      BY NewerSelf DEF TypeOK, Database
    <2>3. QED
      BY <2>1, <2>2 DEF ToldInv
  <1>3. CASE ~Point /\ ~PublishCopy
    <2>1. current' = current /\ told' = told
      BY <1>3 DEF Next, Work, Trouble, vars, disk, command, RefreshStart, SetStart, Start,
                  RestoreLeads, EnsureExisting, RestoreEvents, RestoreMarks, MarksClash,
                  MigrateLegacy, MigrateIds, RefreshApply, SetApply, SetRefused, WriteStart,
                  WriteFile, WriteEnd, Commit, CommitFails, CommandFails, Prune, Kill, Lose, Rebuild
    <2>2. current # 0 => snaps'[current].base = snaps[current].base
      BY <2>1, SnapshotKept
    <2>3. QED
      BY <2>1, <2>2 DEF ToldInv, Newer
  <1>4. QED
    BY <1>1, <1>2, <1>3

-----------------------------------------------------------------------------
(* The inductive invariant *)

LEMMA InvInit == Init => IInv
  <1> SUFFICES ASSUME Init PROVE IInv
    OBVIOUS
  <1>1. TypeOK
    BY TypeInit
  <1>2. NumberInv
    BY DEF Init, NumberInv, Numbered, EmptyDb, NoRows
  <1>3. CurrentWhole /\ GenInv /\ TxnInv /\ ToldInv
    BY DEF Init, CurrentWhole, GenInv, TxnInv, ToldInv, EmptyDb
  <1>4. AheadInv
    BY DEF Init, AheadInv, Usable
  <1>5. QED
    BY <1>1, <1>2, <1>3, <1>4 DEF IInv

LEMMA InvStep == IInv /\ [Next]_vars => IInv'
  <1> SUFFICES ASSUME IInv, [Next]_vars PROVE IInv'
    OBVIOUS
  <1>1. TypeOK' /\ CurrentWhole' /\ GenInv' /\ TxnInv'
    BY TypeStep, CurrentStep, GenStep, TxnStep
  <1>2. NumberInv' /\ AheadInv' /\ ToldInv'
    BY NumberStep, AheadStep, ToldStep
  <1>3. QED
    BY <1>1, <1>2 DEF IInv

LEMMA Invariance == Spec => []IInv
  BY InvInit, InvStep, PTL DEF Spec

-----------------------------------------------------------------------------
(* Every state of the lead store has its type (LEADS_DDL, write_snapshot). *)
THEOREM Typing == Spec => []TypeOK
  <1>1. IInv => TypeOK
    BY DEF IInv
  <1>2. QED
    BY <1>1, Invariance, PTL

(* Whatever publish_pointer prunes and wherever write_snapshot stops,      *)
(* CURRENT names a generation with all its files.                          *)
THEOREM CurrentIsWhole == Spec => []CurrentWhole
  <1>1. IInv => CurrentWhole
    BY DEF IInv
  <1>2. QED
    BY <1>1, Invariance, PTL

(* A snapshot taken before the commit (set_status) is published only if    *)
(* the commit took place.                                                  *)
THEOREM CurrentIsNotAhead == Spec => []CurrentNotAhead
  <1>1. IInv => CurrentNotAhead
    BY DEF IInv, AheadInv, CurrentNotAhead
  <1>2. QED
    BY <1>1, Invariance, PTL

(* What a command that ended well left in the rows survives the loss of    *)
(* the database and any kill or error, the restore's own included.         *)
THEOREM ToldIsKept == Spec => []ToldKept
  <1>1. IInv => ToldKept
    <2> SUFFICES ASSUME IInv PROVE Newer(Recovered, told.rows)
      BY DEF ToldKept
    <2> USE DEF IInv
    <2>1. told.rows \in Rows /\ db.rows \in Rows
      BY DEF TypeOK, Database
    <2>2. CASE current = 0
      <3>1. told.rows = NoRows
        BY <2>2 DEF ToldInv
      <3>2. ~Usable
        BY <2>2 DEF Usable, TypeOK
      <3>3. QED
        BY <2>1, <3>1, <3>2, EmptyFacts DEF Recovered, Restorable
    <2>3. CASE current # 0
      <3>1. Usable /\ snaps[current].base.rows \in Rows
        BY <2>3 DEF CurrentWhole, Usable, TypeOK, Generation, Database
      <3>2. Newer(snaps[current].base.rows, told.rows)
        BY <2>3 DEF ToldInv
      <3>3. CASE Empty(db.rows)
        BY <3>1, <3>2, <3>3 DEF Recovered, Restorable
      <3>4. CASE ~Empty(db.rows)
        <4>1. Newer(db.rows, snaps[current].base.rows)
          BY <3>1, <3>4 DEF AheadInv
        <4>2. QED
          BY <2>1, <3>1, <3>2, <3>4, <4>1, NewerTrans DEF Recovered, Restorable
      <3>5. QED
        BY <3>3, <3>4
    <2>4. QED
      BY <2>2, <2>3
  <1>2. QED
    BY <1>1, Invariance, PTL
=============================================================================
