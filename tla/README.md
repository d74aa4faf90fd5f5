# Verification project for shodan_query

TLA+ models of the jobs in this repository that keep its data, the TLC runs
that check them, and the theorems TLAPS proves about them. File and line
references are to the repository root.

1. [Inventory](#1-inventory)
2. [Modules](#2-modules)
3. [The download](#3-the-download)
4. [The day pipeline](#4-the-day-pipeline)
5. [The store and the Shadowserver reports](#5-the-store-and-the-shadowserver-reports)
6. [The tripwire](#6-the-tripwire)
7. [The lead store](#7-the-lead-store)
8. [The leads as cases](#8-the-leads-as-cases)
9. [The weekly job](#9-the-weekly-job)
10. [Where the code and its documentation disagree](#10-where-the-code-and-its-documentation-disagree)
11. [What is proved](#11-what-is-proved)
12. [What is not modelled, and what is left to do](#12-what-is-not-modelled-and-what-is-left-to-do)

To check a run: `tlc -config MCDay.cfg MCDayPipeline`. To check the proofs:
`tlapm DayPipelineProofs.tla`.

## 1. Inventory

The program is a set of single-shot Python and shell jobs started by cron. They
share one machine, one file tree and one DuckDB file, and are coordinated only
by two advisory locks (`.pipeline.lock`, `store/shadowserver/.ingest.lock`), by
atomic renames, and by what one job leaves on disk for the next to read.

| Component | State it keeps | Operations | Talks to |
|---|---|---|---|
| Nightly wrapper `run_nightly.sh` | `.pipeline.lock`, `status/<date>.rc`, health-check ping | lock, mark running, disk guard, collect, record rc, project, tripwire, Shadowserver, leads, ping | starts every nightly job as a child that inherits the lock |
| Collector `shodan_collect.py` | `<day>.json.gz`, `<day>.json.gz.tmp`, `.backup.*` | move the old day aside, quarantine a cut-off `.tmp`, page or shard the query, publish by rename, exit code | the Shodan API; the backfill reads what it leaves |
| Morning repair `backfill_missed.py` | the same files plus `.merge.tmp`, `.salvaged.*`, `.rejected.*`, `status/<date>.rc` | judge a day, re-pull, merge, publish, retire copies, fall back, sweep | runs the collector and `build_store.py` as children |
| Store projection `build_store.py`, `rebuild_store.sh` | one parquet partition per day and table, views in `exposure.duckdb` | project a day, rebuild all, define views | reads the archive, the registry, the IOC file |
| Compromise tripwire `compromise_watch.py` | `seen_ledger.json`, hit archive and alert text per date | size and search each selector, reconcile with the ledger, archive, alert, save | the Shodan API; `leads.py` reads ledger and archives |
| Leads `leads.py` | `leads.duckdb` (leads, events, migrations), snapshot generations and `CURRENT`, the store copy | restore, migrate, refresh, set, publish | store views, registry, ledger, Shadowserver parquet |
| Shadowserver ingest `ingest_shadowserver.py` | `events.parquet`, `manifest.json`, `incoming/`, `processed/`, `quarantine/`, store table | fetch, ingest a file, restore the table | `leads.py` reads the parquet |
| Owner registry `build_registry.py`, `registry.py` | `store/registry/gen-*` and `CURRENT` | load CSVs, fill caches, attribute, publish a generation, look up | `build_store.py`, `leads.py`, `make_packet.py` read the live generation |
| Packets `make_packet.py` | none (writes a document) | select leads, gate, render | leads, store, registry |
| Rosters, discovery, reference feeds `refresh_rosters.py`, `discover_domains.py`, `refresh_reference.py` | CSV and JSON caches and manifests | fetch with deadline and caps, carry over, publish | the registry build, the store views |
| Classifier `triage_report.py`, geo gate `geo.py` | none | classify a host, keep or drop a banner | `build_store.py`, `shodan_collect.py` |
| Reports and enrichment (`top_hosts_report.py`, `report_theme_tsec.py`, `scripts/`, `verify_hosts.py`, `enrich_licensed.py`, `tier_audit.py`, `shodan_query.sh`) | caches, documents | render, look up, audit | read only |

**How they interact.** There are no messages and no threads. A job calls
another as a child process and reads its exit code (`run_nightly.sh` and
`backfill_missed.py` call the collector and `build_store.py`); the child
inherits the descriptor of the pipeline lock, so a child that outlives its
parent keeps the lock. Otherwise one job reads what another left: file names
carry the protocol (`.tmp`, `.backup.*`, `.partialpull`, `.salvaged.*`,
`.rejected.*`, `.merge.tmp`), `status/<date>.rc` carries the verdict of the last
run, `CURRENT` files carry which generation is published.

**Hard behaviours.** A job may be killed, or the machine restarted, between any
two of its durable steps; the next one must tell from the disk alone what
happened. Downloads are cut off and leave half a gzip stream. Copies rot. Disk
guards and full status directories make single steps fail. A second run is
started by hand beside the nightly one. The provider refuses, returns empty
pages, or reports totals that are wrong. The local clock steps back under names
that are time stamps. `PROJECT.json` lists each of these at its line, with the
properties that would catch it.

**What makes each component correct.**

| Component | Correct if |
|---|---|
| Nightly wrapper | one writer of the day at a time; a green ping only for a day that is whole or that the morning will look at again |
| Collector | never writes over a file of the day; asks every address; its exit code says whether the day is whole |
| Morning repair | loses no record, deletes only what has been merged in full, leaves a readable day where there is a readable copy, calls no day clean that is not, and in the end calls one clean |
| Store projection | after a projection that ran to its end both partitions of a day are of one archive; the events come back after a rebuild |
| Tripwire | no host falls silent before it was announced; none is cleared while a selector flags it, and exit 0 overlooks none, as far as the provider's answers about that selector can be believed |
| Leads | nothing a command reported as done is lost; nothing it reported as not saved comes back; `CURRENT` names a complete generation; the copies agree in the end; a lead that says "notified" means its owner of now |
| Shadowserver ingest | each event is in the parquet exactly once, whatever is interrupted and sent again |
| Owner registry | readers see one complete generation; they are told of an owner the curated rows name, of the conflict if those that count disagree, and never of high confidence then; an outage takes nothing away that only the network could tell |
| Packets | list only leads that are eligible, of one owner, and sure or cleared by an analyst |
| Rosters, discovery, feeds | a source that fails keeps its last good rows, one that answers replaces its own and nobody else's; capped runs reach every seed crt.sh answers for |
| Weekly job | a step killed at its deadline, or skipped, harms no other and is made up for later |

## 2. Modules

| Module | What it holds |
|---|---|
| `Pull` | a download of `shodan_collect.py`, from the provider's answers to the exit code |
| `DayFiles` | the files of one collection day and what may be done to them, as operators; no state |
| `DayState` | the state the day's jobs share, the lock, `day_status`, `prior_rc` |
| `Collector` | the steps of `shodan_collect.py` on the day's files, and of `build_store.py --date` |
| `Nightly` | the steps of `run_nightly.sh` |
| `Backfill` | the steps of `backfill_missed.py` |
| `DayPipeline` | these together with cron, kills, reboots, rot and an operator; the properties |
| `DayArchive` | the abstract specification the pipeline implements, with no file in it |
| `FeedState`, `StoreBuild`, `ShadowserverIngest`, `Feeds` | the partitions, the database and the Shadowserver reports; `build_store.py`; `ingest_shadowserver.py`; the two together |
| `Tripwire` | `compromise_watch.py`, a run at a time |
| `LeadStore` | how `leads.py` keeps its leads: `refresh` and `set` |
| `CaseState`, `CaseRefresh`, `CasePacket`, `Cases` | the leads as cases: the world a refresh reads; `leads.py refresh`; `leads.py set` and `make_packet.py`; all of them, with the properties |
| `WeeklyState` | `run_weekly.sh`: which script runs, its kill, its budget |
| `ReferenceFeeds`, `Rosters`, `Discovery`, `OwnerRegistry` | one script of the weekly job each; the last also `registry.py`, the reader |
| `Weekly` | the four over the world they ask; the properties |
| `MC*` | the sets and symmetries TLC uses; the `.cfg` files give the constants |
| `*Proofs` | the theorems |

All are written alike. A step is the code between two durable effects, so a
kill can fall between any two. Trouble is an action (or a disjunct) of its own
with the conjunct `Mishap(kind)` (`Trouble(kinds)` in the weekly job, `Slip` in
`Pull`), which is enabled only if the kind is in the constant `Mishaps` and fewer
than `MaxMishaps` have happened: a run names the accidents it allows. What the
outside world does between two runs is bounded by `MaxChanges`. Nothing else is
bounded unless it is said below. History variables (`ever`, `dim`, `full`;
`announced`, `misled`; `told`; `cleared`, `shown`, `migrated`; `cut`; `stood`; `carried`, `outage` and `claims` of a generation) record what
properties speak of and are read by no action. A few definitions next to one they
resemble (`HoldsAlone` beside `Holds`, `StaleByName` beside `Stale`) are not used:
they are that definition with a plausible bug, and `PROJECT.json` says which
property finds it.

## 3. The download

`Pull` is `collect_query`, `collect_sharded`, `reference_total` and the part of
`main` that turns numbers into an exit code.

**State and steps.** `hits` says how many results the provider has for each
address; a result is a number, and which page has which is left out.
`walk` says what became of each range of the bisection: stacked, split, pruned
as empty, not sized, being pulled, pulled. `SizeWhole` and `SizeRange` are the calls of
`count_query`; a count is true, or untrue (any number), or missing. `PageComes`,
`PageUntrue` and `PageLost` are the calls of `search_page`, a loop of retries
being one outcome. `Judge` is the end of a query: the reference, the
percentage, the share that the geo gate dropped. The stack is a set, so the
walk takes the ranges in any order. De-duplication is left out: the ratio counts
what was fetched, on purpose (docstring of `collect_query`).

| Run | Asks | Instance | States |
|---|---|---|---|
| `pull` | `EveryAddressAsked`, `OneReadingIsEnough` | 3 addresses with 0 to 2 results each, a range that can be split and one that cannot, leaves of 1 result, a cap of 2 leaves, 2 failed or untrue answers | 1.6 M |

`MaxShards` 2 is below the three leaves there can be, so the cap is hit;
`Threshold` 1 and two results make a leaf that cannot be split exceed it; one
result a page makes a query have several pages. Two slips are what it takes to
spoil both readings of the total, which is where the promise ends:
`OneReadingIsEnough` says that one bad answer of any kind never makes a short
sharded download pass for complete, and that no number of them does while the
larger reading is true. Without sharding there is no second reading (section
10). The run is one download and then stops, so deadlock is not checked.

## 4. The day pipeline

One collection day, from 23:30 until it is out of the repair's sight.

**State.** `disk` maps the paths that exist to files. A path is a pair: the part
of the name the code globs for, and a number for the time stamp that makes it
unique. A file has the records a reader gets (`good`), the records whose bytes
are in it but which no reader gets (`dark`), and how reading ends: `whole`,
`cut` (the one error of a cut-off stream), `rotten` (any other), `ragged` (lines
that are no JSON objects). That is what `GzSource` tells apart. `status` is
`status/<date>.rc`, `part` the day's store partition. Each of the two jobs has a
program counter and may have a child with one of its own; the rest are locals of
the programs, named as in the code. `Ended` clears them when a process goes.

**Steps.** `Collector`: refuse, move the old file aside, quarantine an old
`.tmp`, open, one record at a time, publish or leave, each exit code.
`Nightly`: lock and marker, disk guard, collect, record, project, ping.
`Backfill`: judge, mark, quarantine, guard, re-pull, merge, park, publish,
retire, dispose of one copy after the other, record, project, sweep, and the
rename-only fallback. An `OSError` (`raise`) can occur wherever the code touches
a file. `flock` is `Holds`: the lock is free when the last process that has the
descriptor is gone.

**Left out.** Which of several days a morning takes first (days share no file).
An `OSError` in a repair while it waits for its child (one at the start of
the child is there). The Shadowserver and leads children of the nightly run: they touch no file of
the day, and the ping takes from them only whether one failed; sections 5 and 8
are about them. Log wording.

**Runs.**

| Run | Asks | Instance | States |
|---|---|---|---|
| `day` | `NothingLost`, `OneWriter`, `CleanMeansWhole`, `RawBytesKept`, `GreenNight`, `NoStrandedDay`, and that the pipeline implements `DayArchive` | 2 records, 1 morning, any 3 accidents of 10 kinds | 2.1 M |
| `day_live` | `EventuallyClean` | 1 record, 3 mornings, 3 accidents of 7 kinds | 0.16 M |
| `day_death` | see section 10 | 1 record, 1 morning | |

Two records tell apart a file that has all, some and none of them and let two
copies each have what the other lacks. The mornings of `day_live` let a repair be
repaired; in `day` the operator's run is the second one. `NoStrandedDay` needs
the third accident: its mutant is not found with two.
`Names` has five numbers per tag, and in the passing runs no reachable state uses
up all of them (`HasRoom`, the guard of `MoveTo`, holds for every tag throughout),
so the bound removes no behaviour. `age` stops one day after `Lookback`, when nobody looks at
the day any more.

**The abstract specification.** `DayArchive` knows only the records that are
held, lost to rot, shown by the official file, and whether the day is settled.
Records held stay held; only an unsettled day changes; a day is settled only
while it shows all that can be read. `ImplementsArchive` maps `held` to the
union over all files but the merge output, `shown` to the day's file.

**Fairness.** `PromptSpec` has weak fairness on the disjunction of all ordinary
steps: a process runs on unless it is killed, cron fires, days pass. It also
assumes (`Prompt`) that no job still runs when the next day's cron entry fires.
The nightly run starts at 23:30 and the repair at 06:00, so this is an
assumption about how long a job takes; without it a job may simply hold the
lock on every morning of the window, and the day is never inspected.
`EventuallyClean` allows as many accidents as there are mornings, and that bound
is tight: one accident spent on each inspection, the night's included, leaves the
day partial for ever. It excludes `operator` and `garble` (a run by hand, or a
record that becomes unparseable, spoils a settled day after its last
inspection) and `status`: if the marker cannot be written and the run is then
killed, there is no record, and `day_status` takes the day for one of the time
before records. It also lets go
of a day with a copy that cannot be read to its end, since the code records 3 for
it every morning, on purpose.

**Worth knowing.** `day_status` looks at names and at the record, never into the
files: a day that rots after it was settled stays settled (`CleanMeansWhole`
subtracts `dim` for this reason).

## 5. The store and the Shadowserver reports

`Feeds` puts `build_store.py` beside `ingest_shadowserver.py`: both write
`exposure.duckdb`, the first its views, the second a table.

**State.** A day has an archive and two partitions, `obs` and `vulns`, each the
version of the archive it was made of, nothing, or a torn file. `db` is the
database, `holder` the process that has it open (DuckDB lets in one). `place`,
`parquet`, `manifest` and `lock` are `incoming/` and `processed/`,
`events.parquet`, `manifest.json` and `.ingest.lock`. An event in the parquet has
a number of copies, so that one taken twice shows. A process of the ingest
remembers whether it has the database, a database a rebuild has unlinked under
it, or none.

**Steps.** `StoreBuild`: the wipe of `--rebuild` in its three parts, connect, the
observations and then the CVEs of one day after the other, the views; a run over
an archive that cannot be read to its end stops there. `ShadowserverIngest`: lock,
read a report, append to the parquet, save the manifest, restore the table, move
the report, and the same table once more at the end. A kill can fall between any
two, in the middle of a partition, and in the middle of the removal of a tree.
`restore_table` may fail in an open database (`Unpublished`): the report then stays
in `incoming/`. Reports are ingested by the nightly run after its projection, and by
hand at any time; the pipeline lock keeps projections apart, but not an ingest by hand.

| Run | Asks | Instance | States |
|---|---|---|---|
| `feeds` | `EventsOnce`, `ReportsKept`, `SameVersion`, `EventuallyPublished` | 2 days, 2 versions, one with CVEs; 2 reports that share an event; the nightly process and one by hand; 2 accidents (kills, unreadable reports, a table that cannot be written), 4 changes | 1.9 M |

Two reports that share an event are what a manifest keyed by file and a parquet
keyed by event need to disagree; two days are needed for a rebuild that stops
between them. Four changes allow a report, an archive, a run by hand and a
rebuild. The nightly projection takes any archived day, where the script takes the
one it collected: the model has more nights than the code. `SameVersion` exempts
days whose last projection was cut short (`cut`), and no property says that such a
day, or a day a cut-off rebuild wiped, is projected again: nothing in the code sees
to that. **Fairness** is weak on each process that runs and on the start of the
nightly projection and ingest: cron starts them and a process goes on unless it
is killed. `EventuallyPublished` then says that with accidents over, `incoming/`
empties and the table of the store is what the parquet holds, a rebuild that took
the table away included.

## 6. The tripwire

`compromise_watch.py` for any number of nights. `flags` is what Shodan flags, by
selector, and changes only between runs. A run takes a date, asks the selectors
in any order (`CountZero`, `CountFails`, `CountSome`), pages through a search,
reconciles with the ledger, replaces the archive of its date, opens and writes the
alert file, saves the ledger by rename, exits. A banner stands for its host; a dry
run writes nothing and is left out; runs do not overlap (the program takes no lock
and promises nothing for two).

**What the provider may say.** `PageRead` is what `search_all` makes of a page, given
the banners found so far with it and the total *it* reports, 0 if it reports none:
the code compares with the total of the last page only. `PageComes` is a truthful page (any set of
banners of the right size, so that hosts move between pages), `PageFails` one that
fails for good. `PageEmpty` comes back empty: the first, or one whose own total shows
that something is missing (accident `blank`, which the code notices), or a later one
with a total that is too low or missing (`hollow`, which it does not). `PageUntrue` has fewer banners
than there are, or a total too high, too low or missing (`untrue`). A count without
a total is 0 to `count`, so `CountZero` may say 0 of a selector that flags hosts, and
`CountSome` may say more of one that flags none (`untrue`, too). The history variable
`misled` has the selectors about which an answer told *this* run too little: a count of
0 that is none, a page that keeps hosts back, a total below the truth. It is not in the
code, and the properties that use it say what the code can promise: of a selector
not in `misled` (`Vouched`) no flagged host is cleared and none is overlooked by exit
0, whatever failed, and whatever was said of the others. Of the misled one nothing is promised.

| Run | Asks | Instance |
|---|---|---|
| `trip` | `ActiveWasAnnounced`, `NeverClearedWhileFlagged`, `QuietMeansAnnounced`, `EventuallyExact` | 3 hosts, one outside the state, 2 selectors, 1 banner a page, cap of 2 pages, 1 accident of any of the 6 kinds, 2 changes |
| `trip_hollow` | `NothingMissedCleared`, see section 10 | 2 hosts, 1 selector, 3 pages |

With one banner a page and three hosts a search runs into the page cap, which
makes a selector fail; two selectors are needed for one to fail, or to be misled, while
the other finds the host. Two changes let a host be flagged, cleared and flagged again.
`EventuallyExact` is about selectors that fit under the cap: one with more pages
than `max_pages` fails every night, and nothing is ever cleared again. Fairness is
weak, on the disjunction of a run's steps and its start: cron starts a run every
night. What is not promised: exit code 10 (a run killed after it saved its ledger
never gives it), and a record per day (a later run of the same date replaces the
archive).

## 7. The lead store

`leads.py` keeps its leads in `leads.duckdb`, publishes a generation of three
parquet files with `CURRENT` pointing to it, and copies the table into the
store. Two commands write, the nightly `refresh` and an analyst's `set`, one at a
time because DuckDB opens the file exclusively.

**State.** Each change takes the next number; `db.rows[l]` is the number of the
change the row of `l` shows, 0 if there is no row. That is all the properties
need of a row: which of two rows is older. `db.events` has one entry per change
and lead, `db.migrated` the migrations. `snaps` maps names of generations to
what is to be in them and how many of the three files are there. `view` is the
database inside the transaction, `told` the database when a command last ended
well.

**Steps.** `ensure_leads_db` restores by three INSERTs, each committed by itself
(`RestoreLeads`, `RestoreEvents`, `RestoreMarks`). The two migrations are a
transaction each. Then one transaction (`RefreshApply`, `SetApply`); `set` writes
its snapshot inside it and commits after, `refresh` the other way round
(`AfterWrite`, `AfterCommit`). Then `Point`, `Prune` (by name, oldest first),
`PublishCopy`. `Names` lets a new generation sort anywhere among those there are,
before the one CURRENT names too, since the name is the local time.

| Run | Asks | Instance |
|---|---|---|
| `lead` | `CurrentWhole`, `CurrentNotAhead`, `ToldKept`, `EventuallyPublished` | 1 lead, 5 names, 2 generations kept, 4 changes, any 2 accidents of 6 kinds |
| `lead_quiet` | see section 10 | |

The number of a change tells old rows from new, so one lead is enough for a
snapshot ahead of the database, or behind it; the theorems are for any number.
Keeping two generations is the smallest number for which pruning can choose the
wrong one. Five names are a bound on where a generation may sort: a new
one takes the first free name of a gap, so with two or three in use there is room
before, between or after them, though not in every gap at once. The proofs use
nothing of a new name but that it is not in use.
`MaxChange` bounds changes except those of an empty table, so that a refresh
after the loss of the database can always fill it. `ToldKept` speaks of rows
only: of the event log it does not hold (section 10). Fairness: a command runs on
unless it is killed (weak, on `Work`), and cron starts a refresh every night,
strong because an analyst's command may come first any number of times.
After `quiet` (section 10) every later command fails; the three copies then agree on
an empty table, which is all `EventuallyPublished` says of that case.

## 8. The leads as cases

`LeadStore` is about how rows are kept, `Cases` about what is in them: whose a
lead is, whether its owner was told, whether an analyst must look at it, and what
may go into a packet.

**State.** The world a refresh reads: `evidence` (the newest scan that shows a
lead's evidence), `gone` and `tier` (the store's views), `label` (the network
operator), `names` (what a service shows of itself) and `reg` (the registry's row
of an address, or none, or the whole registry unavailable). A row of `leads` has
its attribution, the review flag, status, whether `notified_on` is set,
eligibility and the last scan. The table starts with the rows of the old id scheme,
each of the organisation `FirstOwner` gives its address, told or not.

**Steps.** `Refresh` is the whole transaction: candidates from the store, the
ledger, Shadowserver and the IOC lists; `resolve_attribution`,
`ownership_change`, `attr_changed`; a row with evidence, a row without, a new
row, a row of the old id scheme. `AnalystSets` is `leads.py set` with status,
review, or both. `Packets` is what `make_packet.py` could write now: it changes
nothing, so it is an operator and a property quantifies over it.

| Run | Asks | Instance | States |
|---|---|---|---|
| `cases` | `NotifiedPresentOwner`, `ReviewedPacket`, `ReopenedByNewerScan`, `LegacyCarriedOn`, `EventuallySettled` | one address with a service: a KEV lead, a host-level lead, and the legacy lead of the KEV; 2 organisations, 1 operator; 2 changes of the world, 2 acts of analysts | 0.66 M |

Every property is about one lead, a lead and its packet, or the leads of one
host, so one address is enough; a host-level lead and a service lead are resolved
differently. Two changes let an owner change and change back, or evidence go and
come; with the start in any of several states that is a history of three. Two
acts are a notification and a clearance. `Settable` has `notified` only: a refresh
tells apart the notified, the remediated (which it sets itself) and the rest.
**Fairness** is weak on `Refresh`, which cron starts every night: nobody else has
to act. When world and analysts have come to rest nothing but a refresh that
changes nothing is enabled, hence no deadlock check.

`EventuallySettled` has two halves. The table comes to rest (from some time on no
refresh changes a row, so no two rules undo each other); and in the table at rest
every lead *with an id of today* has the owner and the eligibility of now. It does not
say that of **legacy leads**. `refresh` takes them out of the rows it reconciles
(leads.py:929), so one that is not deleted keeps the owner it had, for ever (section
10); of these the property says only that they are the ones not all of whose findings
are named, and that they are marked for review.

`NotifiedPresentOwner` leaves out leads that took over a legacy lead's status:
the code passes it on with no look at whose the legacy lead was (leads.py
944-950).

## 9. The weekly job

`run_weekly.sh` runs four scripts, each under a timeout that kills it, none under
a lock. `Weekly` has them in their order over the world they ask, week after week.

| Module | State | Steps |
|---|---|---|
| `WeeklyState` | `script`, `step`, `rc` | cron, a step done, failed or killed, the budget spent |
| `ReferenceFeeds` | `published`; `iocs` (entry and feed), `epss` | the feeds that answered replace their entries, the others keep them; an answer that is garbled or empty is an answer; EPSS is written in place and may be torn |
| `Rosters` | `listed`, `before`; `roster`, `manual`, `manifest` | a sector: what each kind of fetcher can answer and report (a source that lists nothing is not called complete, but for healthcare; the urban areas and the gazetteer then fall back to the edition before), carry-over, manual rows, verdict; a crash, a deadline, a kill |
| `Discovery` | `certs`, `dns`; `state.json`, `hosts`, `domains` | take the seeds due, ask the soonest of those left (`Sooner`: priority, then the older attempt, then the place in the file), resolve with a deadline and a cap, merge |
| `OwnerRegistry` | curated files and ARIN (`owned`), the names and network numbers of hosts, cache; `gens`, `current` | build (prefix, then names, then Cymru's number or else Shodan's, rosters, keep the stronger row), fill, point, prune; a row that is refused, a raise, a kill at any step |

| Run | Asks | Instance | States |
|---|---|---|---|
| `weekly` | `CurrentIsWhole`, `AttributionSound`, `SourcesKept`, `HostRowKept`, `KnownOwnerKept`, `EventuallyCurrent` | 2 feeds, a sector with 2 sources (urban areas, gazetteer), 3 seeds, one of which is never answered for, 3 host names, a cap of 2 seeds and 1 name, 1 address, 2 domains, 2 network numbers, 2 organisations, 1 generation kept; 2 accidents of 8 kinds, 1 change | 1.1 M |
| `week_resolver` | see section 10 | the same, one resolver error | |

Two feeds that list the same entry are needed for one to drop what the other
keeps; two sources of a sector for one to fail. Under a cap of two seeds with one dead
seed, which is always first, the other two share one place: without the order by age
one of them starves. Two organisations make a conflict; two domains make a name
match by the longer one while a shorter is disputed. The job starts in one of two
worlds (`MCWorlds`): a host without names on a network of organisation 1, where Shodan
has another number than Cymru, and a host with names under two domains. One
change then makes the curated rows of a key, the names, or the network disagree. One
generation kept is the tightest there is: every pruning removes something, and the one
CURRENT names must stay. Two accidents give an
outage after a lost cache, which is how a stronger row gets lost. The run leaves
out the accidents `garbled`, `gazetteer` and `resolver`: with the first two `SourcesKept`
fails and with the third `HostRowKept` (section 10). **Fairness** is weak on the steps of
the job: cron starts it every Sunday, and a script runs to its end or is killed at
its timeout, which is an accident and so stops happening.

**What the properties leave to the code.** Each is as strong as the code is, and
section 10 says where the documents promise more.

- `AttributionSound` compares what a reader is told (`Lookup`) with `claims`, the owners
  whom the curated rows *that count* speak for: all rows of the prefix, the first row of
  every domain matched, all rows of the domain that decided. A duplicate of another
  matched domain is not among them. It exempts a generation that carries its rows over because the
  store could not be read: nothing was built then.
- `CurrentIsWhole` calls a generation whole if every table that was to be written is
  there, and says that `ip_attribution.parquet` is there once there has been one. A first
  build that cannot read the store has none to write and none to carry over.
- `KnownOwnerKept` is about addresses for which this build has no more than a number
  (`cymru_asn`, `shodan_asn`, none) and the last one had a row of the curated files for
  their network, or a registrant the registry knows.
- `EventuallyCurrent` takes a source that lists nothing for one that keeps its old rows,
  and a sector for which nothing at all is fetched for one that keeps its roster;
  and it speaks of the seeds crt.sh answers for, as long as those it never answers for
  (`DeadSeed`) are fewer than the cap.

## 10. Where the code and its documentation disagree

Each of these is a run that TLC must find violated; `PROJECT.json` quotes the lines.

| Run | What it shows |
|---|---|
| `day_death` | A repair writes its final 0 and dies before the store is re-projected: the next morning takes the day for clean and its partition stays old, although the marker's comment says a death from there on means "repair me again". |
| `trip_hollow` | A page after the first comes back empty, with too low a total or none: the search counts as complete, and a host still flagged is cleared. |
| `lead_quiet` | A `refresh` that finds no lead at all publishes an empty table with its migrations; every later command restores it onto itself and fails on the primary key. |
| `week_resolver` | A resolver error counts as "no address": the rows of a name DNS still has are dropped, although no DNS failure is said to drop a row. |

These came up while modelling and have no run of their own:

- The download without sharding trusts the total of its first page, and a total
  of 0 counts as 100 % (shodan_collect.py:390, 396): if the provider says 0, or
  too little, and the query for organisations finds anything, the exit code is 0.
  README.md:226-228 has 3 for a fetch below the minimum.
- A total failure of the primary query is exit 2 or 3; the docstring of the
  collector and the README have 1 for it, which the code gives only when
  `api.info()` fails.
- A day recorded 0 and re-pulled by hand, with a collector that returns 2 and
  leaves no file, is recorded 0 again, although the docstring of
  `backfill_missed.py` says 0 only when the collector returned 0.
- A nightly run killed in `build_store.py`, after its final record, leaves a
  clean day without a partition, like `day_death`.
- A count without a total is a count of 0 (compromise_watch.py:93, 283): the selector is
  passed over without being called failed. A page that is not empty and has a total that
  is too low or missing ends the search as complete (128, 132-133). Like the empty page
  of `trip_hollow` both can clear a host that is still flagged, or let a run exit 0 over
  one, against the docstring of `search_all` (105-107).
- A restore of `leads.duckdb` killed between its INSERTs loses the event log: the
  table `leads` is no longer empty, so it is not tried again.
- A lead without an owner that is given an operator's label later takes the name
  and is not flagged: `attr_changed` (leads.py:998-999) compares no name, although
  docs/LEADS.md:54 says "operator label, low, review".
- The status of a legacy lead passes to its successors whoever owns them now
  (leads.py:944-950), and the digest counts a lead as remediated since a date by
  `updated_at`, which later changes of the row touch (leads.py:1243).
- The government budget that passes between two years of the gazetteer leaves the
  `for` loop by `break`, its `else` does not report the source, and the
  municipalities leave a roster called complete (refresh_rosters.py:777-778,
  against docs/ROSTERS.md:39-42).
- In an outage a roster's name may replace what the last build had from the
  network: `keep_stronger_previous` restores a row only where the new one names
  nobody (build_registry.py:956, 966). A partial outage of RDAP is not counted as
  one, so with a lost cache nothing is restored.
  Conversely the rule takes away rows that were answered: when one batch of Cymru
  failed, an address of another batch, answered afresh, is of method `cymru_asn` too
  and gets back the row of the last build. And where Cymru is out and Shodan's number
  for an address has a registrant the registry does not know, the row is `arin_rdap`
  without an owner, which is not replaced, although "A network outage must not
  downgrade what the last build already knew" (build_registry.py:966). A session with
  Cymru that ends early, with answers missing, is no outage at all.
- A first build that cannot read the store publishes a generation without
  `ip_attribution.parquet` (build_registry.py:804-809); docs/REGISTRY.md:176 says "Every
  build writes all four files".
- Of several domains of the best organisation only the longest is looked up among the
  duplicates (build_registry.py:550-551, 566-568). A shorter one that another row lists
  for somebody else leaves a row of high confidence without a conflict, although the
  docstring (558-559) has "every matched domain that was a discarded duplicate" and
  docs/REGISTRY.md:144-147 says such a duplicate "surfaces in that row's `conflict`".
- An answer of a feed with status 200 that is empty, cut short or not a list is taken as
  ok with the entries that could be read (refresh_reference.py:239-240), and the feed's
  others are dropped.
- A seed crt.sh never answers for is never completed, so it comes first in every run
  (discover_domains.py:359-382). With as many such seeds as `--max-seeds` the rest is
  never asked, although "successive capped runs sweep the whole list"
  (discover_domains.py:31-33, docs/ROSTERS.md:189-192).
- A source of a roster that answers with an empty list is not called complete, so its
  old rows stay; if no source of a sector gives a row the whole roster stays, manual
  rows removed since included (refresh_rosters.py:912-916). The urban areas and the
  gazetteer fall back to an earlier edition when the newest gives no row.
- A legacy lead that is kept is not reconciled with its owner (leads.py:929 takes it out
  of the rows `refresh` looks at), although leads.py:45-46 and docs/LEADS.md:55 speak of
  every lead at each refresh.
- Pruning of registry generations counts half-built directories.
- An archive that is cut off ends a rebuild after the wipe (build_store.py:597);
  the docstring (14-15) calls deleting and rebuilding always safe. An ingest by
  hand between the wipe and the connect takes the database and ends it too.
- docs/LEADS.md:185-186 tells the operator to `cp` a report into `incoming/`; a run
  that reads it half copied records it in the manifest under what it read.
- An event of the evening is quarantined as future-dated west of Greenwich
  (ingest_shadowserver.py:211: a UTC time against a local date), and `fetch`
  skips a report whose name it has seen, whatever is in it (476).

`day_status` looks at names and at the record, never into the files: see "Worth
knowing" in section 4.

## 11. What is proved

TLAPS checks these for every value of the constants that satisfies the `ASSUME`s
(any sets of records, names, hosts, leads, reports, ranges; any lookback, page
size, cap, number of generations; any accidents). Every invariant and every action
property that a passing run checks is here; what stays with TLC is liveness.

| Module | Theorem | States |
|---|---|---|
| `PullProofs` | `Typing`, `NoAddressForgotten`, `OneTotalIsEnough` | `TypeOK`, `EveryAddressAsked`, `OneReadingIsEnough` |
| `DayPipelineProofs` | `Typing`, `MutualExclusion`, `Durability` | `TypeOK`, `OneWriter`, `NothingLost` |
| `DayPipelineProofs` | `CleanDays`, `RawBytes`, `HonestPing`, `NobodyStranded` | `CleanMeansWhole`, `RawBytesKept`, `GreenNight`, `NoStrandedDay` |
| `DayPipelineProofs` | `Implementation` | `ImplementsArchive`: the pipeline implements `DayArchive` |
| `FeedsProofs` | `Typing`, `EachEventOnce`, `NoReportLost`, `OneVersionADay` | `TypeOK`, `EventsOnce`, `ReportsKept`, `SameVersion` |
| `TripwireProofs` | `Typing`, `NobodySkipped` | `TypeOK`, `ActiveWasAnnounced` |
| `TripwireProofs` | `NothingClearedBlind`, `QuietIsHonest` | `NeverClearedWhileFlagged`, `QuietMeansAnnounced`: of every selector about which this run was not told too little, whatever the accidents |
| `LeadStoreProofs` | `Typing`, `CurrentIsWhole`, `CurrentIsNotAhead`, `ToldIsKept` | `TypeOK`, `CurrentWhole`, `CurrentNotAhead`, `ToldKept` |
| `CasesProofs` | `Typing`, `ToldTheOwner`, `NothingDoubtfulSent`, `OnlyNewScansReopen`, `LegacyHandedOn` | `TypeOK`, `NotifiedPresentOwner`, `ReviewedPacket`, `ReopenedByNewerScan`, `LegacyCarriedOn` |
| `WeeklyProofs` | `Typing`, `ReadersSeeAWholeGeneration`, `OwnersAreSound`, `OutageKeepsOwners` | `TypeOK`, `CurrentIsWhole`, `AttributionSound`, `KnownOwnerKept` |
| `WeeklyProofs` | `GoodDataKept` | `SourcesKept`, if neither `"garbled"` nor `"gazetteer"` is in `Mishaps` |
| `WeeklyProofs` | `HostRowsKept` | `HostRowKept`, if `"resolver" \notin Mishaps` |

The conditions on `Mishaps` are not for convenience: with the accident named the
code breaks the property (section 10), for `resolver` as a run shows.

**Assumptions.** Beside ranges of numbers: the records of a day, the addresses
pulled and the organisations of the registry are finite sets (`best_backup` takes a
maximum, a download sums up counts, an organisation is picked by rank), the
registry has an organisation, the initial ranges of a walk tile the address space
and the halves of a range tile the range (`PullAssumption`), an id of the old scheme
belongs to a service, and the leads its evidence names are among those of its
service and type (`CaseAssumption`).

**Pull.** `WalkInv` is the tiling itself: the ranges not split are disjoint, not
empty and cover the address space, which a split keeps because the halves of a
range tile it (`SplitTiles`). That tiling says nothing of the exit code:
`AtHandInv` adds that at most one range is at hand and only while it is paged, and
`FlagInv` follows what was given up or left on the stack through `lost` and
`incomplete` to the exit code.

`OneReadingIsEnough` is about sums. The library's fold is a recursive definition
over the subsets of a set, whose meaning needs an induction; the induction
theorems cannot be instantiated here, but a family of finite sets has a smallest
member (`SmallestSet`), and that is induction enough: there is one way to add up
(`AddsExists`, `AddsAgree`), so a sum unfolds (`SumUnfolds`), is a number
(`SumNat`), and the sums of disjoint sets add up (`SumOfTwo`). `CountInv` is then
the argument of `reference_total`. If the count of the whole query came out too
low, that was the untrue answer; so the counts of the ranges are true, those
pulled sum up to `leafTotal` and those pruned to nothing (`LeafInv`), and since
the ranges tile the address space `leafTotal` is the truth (`LeavesAreAll`).
`EnoughInv` carries the judgement through the second query. The property says
"one answer" for good reason: with two, both totals may be low.

**DayPipeline.** `NothingLost` is not inductive: that a record is on the disk now
says nothing about the deletion two steps later. `IInv` adds what the code
relies on at each of its places. `LockInv`: one job at a time, its collector
alone or waited for, so nobody else moves a file between two steps of a repair.
`PullInv`: when the download is opened its name is free, and the day's file is
aside. `Sound`: a copy that reads to a clean end has no bytes a reader does not
get, which is why a copy *read to its end* may go. `MergeInv`: from the merge to
the disposal of its sources, the merged file holds all bytes of every source
that may be deleted or written over. One lemma per conjunct and module of steps
shows each is kept; `NothingLost` itself follows step by step, since every
action that removes or overwrites a path is covered by `PullInv` or `MergeInv`.

`CleanMeansWhole` compares the day's file with all that ever arrived, and that
needs a second invariant on top, `CleanInv`. `HistoryInv`: what arrived can be read
from the copies a merge looks at (not from retired ones), but for what some copy
could not yield. That a merge retires and deletes copies without breaking it is
`YieldInv`: the merged file yields what each of its sources yields, whether it was
read to its end or not. `ZeroInv`: the code 0 is found, on record or as a result,
only where a collector run returned it. When the day is settled there is one copy
and so it has everything. `PingInv` follows the night's own record and partition from
the collector's exit to the ping, for `GreenNight`. For
`RawBytesKept` each step is looked at once (`EffectStep`, `Kept`): the names of
`FreshName` are free when they are taken, and whatever a step removes or writes
over either is none of `KeptApart` or has taken its bytes along under another such
name.
`NoStrandedDay` is not about the code's own steps but about what happens between
its look for a backup and its record of failure: a backup that decays then cannot
make another the best one where there was none (`FallbackInv`, `BestBackupIsOne`:
among finitely many readable backups one has most records).

The refinement maps `held`, `lost`, `shown` and `settled` as in section 4. A step
that leaves the four alone stutters. Of the others the collector's write is
`Receive`, a rot or a garbled line `Decay`, every renaming onto or away from the
day's name `Show`, the judgement of the day `Reopen` or `Settle`. `Settle` demands
that the day shows all that can be read: that is `CleanMeansWhole`, which is why
the refinement comes last. The lemmas `Kept...` of `DayFilesProofs` say what each operation
on files does to the union of all bytes.

**Feeds.** `IInv` is the type invariant with five facts. `LockInv`: only who holds
`.ingest.lock` is past it, so between the reading of the parquet and its
rewriting nobody else touches it. `AtReport`: the events a process is about to
append are new and with them the parquet has all of the report; after the append
it has all of it. From these two follow that an event is never there twice and that
a report leaves `incoming/`, or enters the manifest, only with all its rows saved,
wherever the process is killed. `DayInv`: between its two partitions a day has the
observations of its archive and is in `cut`; between the removal of the two trees
there are no observations. `BuilderInv`: a projection at work has the database open
and a day to do. That the days are worked off in the order of their names needs a
least element of a set of numbers (`Least`).

**Tripwire.** `AnnouncedInv` follows the ledger about to be saved (`rolled`)
through the alert: its active hosts have been announced or are in `new`, and once
the alert is written all have been. `SeenInv` says that a selector already asked
has failed or given all its hosts in the state, so a complete run's `hosts` holds
everything flagged. A selector this run was misled about is the one exception, and
`SearchInv` is why there is no other: as long as no page has misled it, a search has all
the banners of its earlier pages, so that a page that reaches the total, or comes back
empty without falling short of it, really is the last. The theorems need no assumption
on the accidents.

**LeadStore.** `GenInv`: the generation being written holds what the transaction
holds, is not the one CURRENT names, and is complete before CURRENT moves.
`TxnInv`: which side of its commit a command is on. `AheadInv`: a command past
the restore works on nothing older than CURRENT, from which it follows that
CURRENT moves only to something newer. `ToldInv`: what was told is in the
generation CURRENT names. That alone gives `ToldKept`, because a database that
is not empty is no older than that generation and an empty one is restored
from it.

**Cases.** A refresh rewrites the whole table in one step, so the proofs are about
one row: what `resolve_attribution`, `ownership_change` and `attr_changed` make of
it, by the cases of the code. `ToldInv` is the owner's half of
`NotifiedPresentOwner` with the fact it needs: a row with `notified_on` has a
record of who was told, and that is its owner. It holds since a change of owner
closes the episode. `ReviewInv`: a row without the review flag has no owner, a sure
one, or exactly the attribution an analyst cleared; the packet's own re-check of the
registry (`make_packet`) then leaves nothing doubtful. `ScanInv` ties the row's scan
to the newest one any refresh saw, which is what makes "newer" mean newer than all.

**Weekly.** `GenerationInv` follows a build from its first table to the pointer: the
generation under way is not the one readers see, has the tables that were to be written
and is sound before CURRENT moves (`Sound`), and after an outage is no weaker than the
old one for the addresses `KnownOwnerKept` is about (`Keeps`, which also has that a
table of rows, once there, stays). That the pruning spares the one CURRENT names
follows from `current = Len(gens)` at that step. That a built row is sound goes through
`attribute_ip` case by case: the owner told is one of `Claims`, more than one of them is
a conflict, and a conflict caps the confidence; `keep_stronger_previous` gives back rows
of the network methods only, which are never of high confidence, and only where no
curated row of the address speaks; the reader's prefix (`Lookup`) takes the conflict
of the row along.
`RosterInv`: a sector's roster has rows of its own sources and manual ones only.
`StoodInv`: what the discovery has resolved is what DNS had when it was asked.

**Only model-checked.** Liveness: `EventuallyClean`, `EventuallyExact`,
`EventuallySettled`, `EventuallyCurrent`, and `EventuallyPublished` of the lead
store and of the feeds; fairness and ENABLED are out of the prover's reach. The
disagreements of section 10 are counterexamples, which only TLC can give. No module
declares a RECURSIVE operator.

## 12. What is not modelled, and what is left to do

Not modelled for good: fetching and parsing web pages, Markdown and PDF, the
read-only reports and lookups, the pattern tables of the classifier and the geo
lookup (the models see the gate as a number dropped, or as a set of hosts). They
keep no state that another part relies on. The commands that only print (`list`,
`show`, `csv`, `digest`), `--dry-run`, `--wait` and `--seed`. The contents of rows:
evidence text, sectors, contacts, the SQL of the views. The time of day, and with it
the quarantine of events dated in the future. The night as one module: its parts
share no file but the store, and the order of projection, ingest and refresh is in
`Feeds` and `Cases`. KEV and the exploit list, which are replaced as EPSS and the
IOC lists are.

Left to do, the most useful first: an abstract specification of the lead store and
one of the feeds (what a reader of CURRENT, of events.parquet and of a day's
partitions is promised) with their refinements, as for the day; more of
`leads.py` (`suppress`, the digest's marks) and of the packets; the parts of the
rosters that are a verdict only.
