----------------------------- MODULE LeadStore -----------------------------
(***************************************************************************)
(* How leads.py keeps its leads: the database leads.duckdb, the snapshot   *)
(* generations with the CURRENT pointer, and the copy in the store.  Two   *)
(* commands write them, the nightly `refresh` and an analyst's `set`, one  *)
(* at a time since each holds the database open for writing.               *)
(*                                                                         *)
(* Each command that changes something takes the next number; the row of a *)
(* lead is the number of the change it shows, 0 if there is no row.  What  *)
(* a change does to status, owner and notes is left out, and so is which   *)
(* id a lead goes by: re-keying and the mapping of legacy ids are changes. *)
(* A dry run differs from a kill after the restore only in its log.        *)
(***************************************************************************)
EXTENDS Naturals, FiniteSets

CONSTANTS
    Lead,
    Gen,          \* names of generations, by their order (a bound)
    Keep,         \* KEEP_SNAPSHOTS
    Mishaps,      \* the kinds of trouble that may happen
    MaxMishaps,   \* how often (a bound)
    MaxChange     \* changes made, but for those of an empty table (a bound)

MishapKind == {"kill",      \* the command is killed
               "raise",     \* an OSError, or an error of the database
               "lose",      \* leads.duckdb is lost
               "locked",    \* the store cannot be written
               "rebuild",   \* build_store.py --rebuild removes the store
               "quiet"}     \* a refresh has no lead and finds no candidate

ASSUME KeepAssumption == Gen \subseteq Nat /\ Keep \in Nat \ {0}
ASSUME BoundAssumption == /\ Mishaps \subseteq MishapKind
                          /\ MaxMishaps \in Nat /\ MaxChange \in Nat

VARIABLES
    db,          \* leads.duckdb as committed: leads, lead_events, migrations
    snaps,       \* the generations under snapshots/
    current,     \* the generation CURRENT names, 0 if there is no such file
    copy,        \* table leads of the store
    pc,          \* where the command is
    cmd,         \* which command it is
    view,        \* the database as the command sees it in its transaction
    gen,         \* commit_with_snapshot: gen, 0 for None
    told,        \* the database as the last command that ended well left it (history)
    changes,     \* changes made
    left

disk    == <<db, snaps, current, copy>>
command == <<pc, cmd, view, gen>>
vars    == <<disk, command, told, changes, left>>

Rows == [Lead -> Nat]

NoRows == [l \in Lead |-> 0]

Empty(rows) == \A l \in Lead : rows[l] = 0

Migration == {"legacy_import_v1", "shadowserver_class_id_v1"}

Database == [rows : Rows, events : SUBSET (Lead \X Nat), migrated : SUBSET Migration]

(* A database of the time before there were migrations *)
BareDb == [rows |-> NoRows, events |-> {}]

EmptyDb == [rows |-> NoRows, events |-> {}, migrated |-> {}]

(* A generation: what is to be in it, and how many of the three files are  *)
Generation == [base : Database, files : 0 .. 3]

Commands == {"none", "refresh", "set"}

Pcs == {"idle", "ensure", "events", "marks", "legacy", "rekey", "apply",
        "write", "commit", "point", "prune", "copy"}

TypeOK ==
    /\ db \in Database /\ copy \in Rows /\ told \in Database
    /\ DOMAIN snaps \subseteq Gen \ {0} /\ \A g \in DOMAIN snaps : snaps[g] \in Generation
    /\ current \in Gen \cup {0} /\ gen \in Gen \cup {0}
    /\ pc \in Pcs /\ cmd \in Commands /\ view \in Database
    /\ changes \in Nat /\ left \in Nat

-----------------------------------------------------------------------------
NoTrouble == UNCHANGED left

Mishap(kind) == kind \in Mishaps /\ left > 0 /\ left' = left - 1

At(here, next) == pc = here /\ pc' = next

(* What a command leaves behind in memory when it ends *)
Forget == cmd' = "none" /\ view' = EmptyDb /\ gen' = 0

InTransaction == view' = db

(* current_snapshot, with the leads.parquet ensure_leads_db asks for *)
Usable == current \in DOMAIN snaps /\ snaps[current].files > 0

Newer(a, b) == \A l \in Lead : a[l] >= b[l]

-----------------------------------------------------------------------------
(* open_ctx and ensure_leads_db *)

Start(c) ==
    /\ At("idle", "ensure") /\ cmd' = c
    /\ NoTrouble /\ UNCHANGED <<disk, view, gen, told, changes>>

RefreshStart == Start("refresh")

SetStart == Start("set")

AfterEnsure == IF cmd = "refresh" THEN "legacy" ELSE "apply"

(* The table leads is empty, and CURRENT names a snapshot *)
Restorable == Empty(db.rows) /\ Usable

(* INSERT INTO leads, committed by itself *)
RestoreLeads ==
    /\ Restorable /\ At("ensure", "events")
    /\ db' = [db EXCEPT !.rows = snaps[current].base.rows]
    /\ NoTrouble /\ UNCHANGED <<snaps, current, copy, cmd, view, gen, told, changes>>

EnsureExisting ==
    /\ ~Restorable /\ At("ensure", AfterEnsure)
    /\ NoTrouble /\ UNCHANGED <<disk, cmd, view, gen, told, changes>>

(* INSERT INTO lead_events *)
RestoreEvents ==
    /\ At("events", "marks")
    /\ db' = [db EXCEPT !.events = IF snaps[current].files > 1
                                   THEN @ \cup snaps[current].base.events ELSE @]
    /\ NoTrouble /\ UNCHANGED <<snaps, current, copy, cmd, view, gen, told, changes>>

(* The migrations table's primary key is its name *)
MarksFit == snaps[current].files > 2 => db.migrated \cap snaps[current].base.migrated = {}

(* INSERT INTO migrations *)
RestoreMarks ==
    /\ At("marks", AfterEnsure) /\ MarksFit
    /\ db' = [db EXCEPT !.migrated = IF snaps[current].files > 2
                                     THEN @ \cup snaps[current].base.migrated ELSE @]
    /\ NoTrouble /\ UNCHANGED <<snaps, current, copy, cmd, view, gen, told, changes>>

(* A row is there already: the command ends with a constraint error *)
MarksClash ==
    /\ At("marks", "idle") /\ ~MarksFit /\ Forget
    /\ NoTrouble /\ UNCHANGED <<disk, told, changes>>

-----------------------------------------------------------------------------
(* The migrations, a transaction each, recorded in the database *)

Imported(l) == db.rows[l] = 0 /\ copy[l] > 0

MigrateLegacy ==
    /\ At("legacy", "rekey")
    /\ db' = IF "legacy_import_v1" \in db.migrated THEN db
             ELSE [rows |-> [l \in Lead |-> IF Imported(l) THEN copy[l] ELSE db.rows[l]],
                   events |-> db.events \cup {<<l, 0>> : l \in {k \in Lead : Imported(k)}},
                   migrated |-> db.migrated \cup {"legacy_import_v1"}]
    /\ NoTrouble /\ UNCHANGED <<snaps, current, copy, cmd, view, gen, told, changes>>

MigrateIds ==
    /\ At("rekey", "apply")
    /\ db' = [db EXCEPT !.migrated = @ \cup {"shadowserver_class_id_v1"}]
    /\ NoTrouble /\ UNCHANGED <<snaps, current, copy, cmd, view, gen, told, changes>>

-----------------------------------------------------------------------------
(* commit_with_snapshot *)

(* The database with one more change, to these leads, each logged *)
Changed(base, leads) ==
    [rows     |-> [l \in Lead |-> IF l \in leads THEN changes + 1 ELSE base.rows[l]],
     events   |-> base.events \cup {<<l, changes + 1>> : l \in leads},
     migrated |-> base.migrated]

(* refresh: some leads are new or change, or all stay as they are *)
RefreshApply ==
    /\ cmd = "refresh" /\ At("apply", "commit")
    /\ \/ /\ changes < MaxChange \/ Empty(db.rows)
          /\ changes' = changes + 1
          /\ \E leads \in SUBSET Lead \ {{}} : view' = Changed(db, leads)
          /\ NoTrouble
       \/ ~Empty(db.rows) /\ InTransaction /\ NoTrouble /\ UNCHANGED changes
       \/ Empty(db.rows) /\ InTransaction /\ Mishap("quiet") /\ UNCHANGED changes
    /\ UNCHANGED <<disk, cmd, gen, told>>

SetApply ==
    /\ cmd = "set" /\ At("apply", "write")
    /\ changes < MaxChange /\ changes' = changes + 1
    /\ \E l \in Lead : db.rows[l] > 0 /\ view' = Changed(db, {l})
    /\ NoTrouble /\ UNCHANGED <<disk, cmd, gen, told>>

(* set: no such lead, or nothing to set *)
SetRefused ==
    /\ cmd = "set" /\ At("apply", "idle") /\ Forget
    /\ NoTrouble /\ UNCHANGED <<disk, told, changes>>

(* A set that believes its transaction is over *)
AfterWriteUncommitted == "point"

(* set: the snapshot is taken inside the transaction *)
AfterWrite == IF cmd = "set" THEN "commit" ELSE "point"

(* A refresh that publishes the old snapshot *)
AfterCommitUnwritten == IF cmd = "set" THEN "point" ELSE "copy"

(* refresh: it is taken after it *)
AfterCommit == IF cmd = "set" THEN "point" ELSE "write"

(* The names not in use; of those with no name in use between them, one    *)
Names ==
    LET used == DOMAIN snaps \cup {0, current}
    IN  {g \in Gen \ used : g - 1 \in used}

(* write_snapshot: a new directory, named after the local clock, which may *)
(* stand before the ones there are; then three files, one by one.          *)
WriteStart ==
    /\ pc = "write" /\ gen = 0 /\ UNCHANGED pc
    /\ \E g \in Names :
          /\ gen' = g
          /\ snaps' = [h \in DOMAIN snaps \cup {g} |->
                         IF h = g THEN [base |-> view, files |-> 0] ELSE snaps[h]]
    /\ NoTrouble /\ UNCHANGED <<db, current, copy, cmd, view, told, changes>>

WriteFile ==
    /\ pc = "write" /\ gen # 0 /\ UNCHANGED pc
    /\ snaps[gen].files < 3 /\ snaps' = [snaps EXCEPT ![gen].files = @ + 1]
    /\ NoTrouble /\ UNCHANGED <<db, current, copy, cmd, view, gen, told, changes>>

WriteEnd ==
    /\ At("write", AfterWrite) /\ gen # 0 /\ snaps[gen].files = 3
    /\ NoTrouble /\ UNCHANGED <<disk, cmd, view, gen, told, changes>>

Commit ==
    /\ At("commit", AfterCommit) /\ db' = view
    /\ NoTrouble /\ UNCHANGED <<snaps, current, copy, cmd, view, gen, told, changes>>

Dropped(gone) == [g \in DOMAIN snaps \ gone |-> snaps[g]]

(* The commit fails: roll back, discard the snapshot, "NOT saved" *)
CommitFails ==
    /\ At("commit", "idle") /\ snaps' = Dropped({gen}) /\ Forget /\ Mishap("raise")
    /\ UNCHANGED <<db, current, copy, told, changes>>

(* Anything else fails; what the database has committed stays *)
CommandFails ==
    /\ pc \notin {"idle", "commit"} /\ pc' = "idle" /\ Forget /\ Mishap("raise")
    /\ UNCHANGED <<disk, told, changes>>

(* publish_pointer: os.replace(tmp, CURRENT) *)
Point ==
    /\ At("point", "prune") /\ current' = gen
    /\ NoTrouble /\ UNCHANGED <<db, snaps, copy, cmd, view, gen, told, changes>>

Older(g, among) == {h \in among : h < g}

(* Whatever sorts last is the one to keep *)
StaleByName ==
    {g \in DOMAIN snaps :
        Cardinality(Older(g, DOMAIN snaps)) < Cardinality(DOMAIN snaps) - Keep}

(* The oldest beyond Keep, by name, never the one just published *)
Stale ==
    LET others == DOMAIN snaps \ {gen}
    IN  {g \in others :
            Cardinality(Older(g, others)) < Cardinality(DOMAIN snaps) - Keep}

Prune ==
    /\ At("prune", "copy") /\ snaps' = Dropped(Stale)
    /\ NoTrouble /\ UNCHANGED <<db, current, copy, cmd, view, gen, told, changes>>

(* CREATE TABLE IF NOT EXISTS *)
CopyOnce == IF Empty(copy) THEN db.rows ELSE copy

(* CREATE OR REPLACE TABLE store.leads AS SELECT * FROM leads *)
Copy == db.rows

(* publish_copy; the command ends well, also when the store is read-only *)
PublishCopy ==
    /\ At("copy", "idle")
    /\ \/ copy' = Copy /\ NoTrouble
       \/ copy' = copy /\ Mishap("locked")
    /\ told' = db /\ Forget
    /\ UNCHANGED <<db, snaps, current, changes>>

-----------------------------------------------------------------------------
(* What happens to it *)

Kill ==
    /\ pc # "idle" /\ pc' = "idle" /\ Forget /\ Mishap("kill")
    /\ UNCHANGED <<disk, told, changes>>

Lose ==
    /\ pc = "idle" /\ db' = EmptyDb /\ Mishap("lose")
    /\ UNCHANGED <<snaps, current, copy, command, told, changes>>

Rebuild ==
    /\ pc = "idle" /\ copy' = NoRows /\ Mishap("rebuild")
    /\ UNCHANGED <<db, snaps, current, command, told, changes>>

(* The store may hold leads of the time before there was a database *)
Init ==
    /\ db = EmptyDb /\ snaps = [g \in {} |-> EmptyDb] /\ current = 0
    /\ copy \in [Lead -> {0, 1}] /\ changes = 1
    /\ pc = "idle" /\ cmd = "none" /\ view = EmptyDb /\ gen = 0
    /\ told = EmptyDb /\ left = MaxMishaps

Work ==
    \/ RestoreLeads \/ EnsureExisting \/ RestoreEvents \/ RestoreMarks \/ MarksClash
    \/ MigrateLegacy \/ MigrateIds \/ RefreshApply \/ SetApply \/ SetRefused
    \/ WriteStart \/ WriteFile \/ WriteEnd \/ Commit \/ Point \/ Prune \/ PublishCopy

Trouble == CommitFails \/ CommandFails \/ Kill \/ Lose \/ Rebuild

Next == RefreshStart \/ SetStart \/ Work \/ Trouble

Spec == Init /\ [][Next]_vars

(* A command runs on unless killed, and cron starts a refresh every night, *)
(* however often an analyst gets in between.                               *)
FairSpec == Spec /\ SF_vars(RefreshStart) /\ WF_vars(Work)

-----------------------------------------------------------------------------
(* CURRENT never names a generation that is not there or not complete,     *)
(* whatever is killed, fails, or sorts before it by name.                  *)
CurrentWhole == current # 0 => current \in DOMAIN snaps /\ snaps[current].files = 3

(* A snapshot CURRENT names holds nothing the database has not committed:  *)
(* a change reported as not saved cannot come back by a restore.           *)
CurrentNotAhead ==
    Usable /\ ~Empty(db.rows) => Newer(db.rows, snaps[current].base.rows)

(* The rows the next command will start from *)
Recovered == IF Restorable THEN snaps[current].base.rows ELSE db.rows

(* What a command that ended well has left in the rows is there for the    *)
(* next one, also when the database is lost and wherever a command dies.   *)
ToldKept == Newer(Recovered, told.rows)

(* A restore never meets a migration that is recorded already, so refresh  *)
(* can be run again and again (docs/LEADS.md: "idempotent").               *)
RestoreFits == pc = "marks" => MarksFit

(* When nothing more happens, the database, the snapshot CURRENT names and *)
(* the store's copy agree and stay so.                                     *)
Published == Usable /\ snaps[current].base = db /\ copy = db.rows

EventuallyPublished == <>[]Published

-----------------------------------------------------------------------------
(* Why CurrentWhole, CurrentNotAhead and ToldKept hold: the inductive      *)
(* invariant                                                               *)

(* The generation being written is the transaction's, is not the one       *)
(* CURRENT names before it is complete, and is the one it names after.     *)
GenInv ==
    /\ gen # 0 => gen \in DOMAIN snaps /\ snaps[gen].base = view
    /\ pc \in {"point", "prune", "copy"} \/ (pc = "commit" /\ cmd = "set") =>
          gen # 0 /\ snaps[gen].files = 3
    /\ pc \in {"write", "commit"} /\ gen # 0 => gen # current
    /\ pc \in {"prune", "copy"} => current = gen
    /\ pc \notin {"write", "commit", "point", "prune", "copy"} => gen = 0

(* The transaction: a refresh has committed before it writes, a set has    *)
(* not, and both have before CURRENT moves; a restore has a snapshot.      *)
TxnInv ==
    /\ pc # "idle" => cmd \in {"refresh", "set"}
    /\ pc \in {"events", "marks"} => current # 0
    /\ pc \in {"write", "commit"} => Newer(view.rows, db.rows)
    /\ (pc = "write" /\ cmd = "refresh") \/ pc \in {"point", "prune", "copy"} => db = view

(* No row has a number not yet taken *)
Numbered(rows) == \A l \in Lead : rows[l] <= changes

NumberInv ==
    /\ Numbered(db.rows) /\ Numbered(copy) /\ Numbered(view.rows)
    /\ \A g \in DOMAIN snaps : Numbered(snaps[g].base.rows)

(* A command past the restore works on nothing older than CURRENT *)
AheadInv ==
    Usable /\ (~Empty(db.rows) \/ pc \notin {"idle", "ensure"}) =>
        Newer(db.rows, snaps[current].base.rows)

ToldInv ==
    IF current = 0 THEN told.rows = NoRows ELSE Newer(snaps[current].base.rows, told.rows)

IInv == TypeOK /\ CurrentWhole /\ GenInv /\ TxnInv /\ NumberInv /\ AheadInv /\ ToldInv
=============================================================================
