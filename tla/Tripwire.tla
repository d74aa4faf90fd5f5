------------------------------ MODULE Tripwire ------------------------------
(***************************************************************************)
(* compromise_watch.py, run once a night and at any other time by hand:    *)
(* size and search each selector, reconcile the hits with the ledger of    *)
(* hosts seen, archive them, write the alert file, save the ledger.  A run *)
(* may be killed between any two of these, the provider may fail in any    *)
(* call, and the next run knows only what is on disk.                      *)
(*                                                                         *)
(* A banner stands for its host: what the run keeps of the banners of one  *)
(* host, and how the alert words them, is left out.  A dry run writes      *)
(* nothing and is left out.                                                *)
(***************************************************************************)
EXTENDS Naturals, FiniteSets

CONSTANTS
    Host,         \* ip_str of a banner
    InState,      \* hosts the geo gate keeps
    Selector,     \* tags, categories and extra queries
    Date,         \* the dates a run may be labelled with
    PageSize,     \* banners on a page of results (100)
    MaxPages,     \* search_all: max_pages
    Mishaps,      \* the kinds of trouble that may happen
    MaxMishaps,   \* how often (a bound)
    MaxChanges    \* how often Shodan's view of the state changes (a bound)

MishapKind == {"kill",      \* the run is killed
               "api",       \* a call fails
               "blank",     \* a page comes back empty: the first, or against its own total
               "hollow",    \* a later one does, and reports too low a total or none
               "untrue",    \* a count, or a page that is not empty, is untrue
               "corrupt"}   \* the ledger is missing or unparseable

ASSUME HostAssumption == IsFiniteSet(Host) /\ InState \subseteq Host
ASSUME PageAssumption == PageSize \in Nat \ {0} /\ MaxPages \in Nat \ {0}
ASSUME BoundAssumption == /\ Mishaps \subseteq MishapKind
                          /\ MaxMishaps \in Nat /\ MaxChanges \in Nat

VARIABLES
    flags,       \* the hosts Shodan flags, by selector
    ledger,      \* seen_ledger.json
    archive,     \* the hosts in the hit archive of each date
    alert,       \* what the alert file of each date says
    pc,          \* where the run is
    iso,         \* main: iso
    todo,        \* main: the selectors still to be asked
    sel,         \* the selector being searched
    page,        \* search_all: page
    banners,     \* search_all: banners
    hosts,       \* main: hosts
    failed,      \* main: failed
    new,         \* main: new_ips, recurred ones included
    rolled,      \* main: the ledger as reconcile leaves it
    code,        \* the exit code of the last run that ended by itself
    announced,   \* hosts an alert file named, since the ledger last cleared them (history)
    misled,      \* the selectors this run was told too little about (history)
    left, changes

world   == <<flags, changes>>
saved   == <<ledger, archive, alert>>
search  == <<sel, page, banners>>
run     == <<iso, todo, search, hosts, failed, new, rolled>>
told    == <<announced, misled>>
vars    == <<world, saved, pc, run, code, told, left>>

Ledger == [hosts : SUBSET Host, active : SUBSET Host, incomplete : BOOLEAN]

(* load_ledger without its setdefaults *)
BareLedger == [hosts |-> {}, active |-> {}]

EmptyLedger == [hosts |-> {}, active |-> {}, incomplete |-> FALSE]

NoAlert == [new |-> {}, ongoing |-> {}]

Pcs == {"idle", "count", "search", "archive", "open", "write", "save", "exit"}

TypeOK ==
    /\ flags \in [Selector -> SUBSET Host] /\ ledger \in Ledger
    /\ archive \in [Date -> SUBSET Host]
    /\ alert \in [Date -> [new : SUBSET Host, ongoing : SUBSET Host]]
    /\ pc \in Pcs /\ iso \in Date /\ todo \subseteq Selector /\ sel \in Selector
    /\ page \in Nat /\ banners \subseteq Host /\ hosts \subseteq Host
    /\ failed \subseteq Selector /\ new \subseteq Host /\ rolled \in Ledger
    /\ code \in {"none", "0", "1", "5", "10"} /\ announced \subseteq Host
    /\ misled \subseteq Selector
    /\ left \in Nat /\ changes \in Nat

(* The hosts in the state that Shodan flags, for some of the selectors *)
FlaggedFor(some) == InState \cap UNION {flags[s] : s \in some}

Flagged == FlaggedFor(Selector)

(* Those of the selectors whose counts and pages kept nothing back *)
Vouched == FlaggedFor(Selector \ misled)

-----------------------------------------------------------------------------
(* reconcile *)

(* The hosts a run without the recurred ones would call new *)
NeverSeen(old, hits) == hits \ old.hosts

(* new_ips and recurred_ips: never seen, or seen and not active *)
NewHosts(old, hits) == (hits \ old.hosts) \cup (hits \ old.active)

(* A run that carries every host forward, complete or not *)
RolledForwardAlways(old, hits, incomplete) ==
    [hosts |-> old.hosts \cup hits, active |-> old.active \cup hits, incomplete |-> incomplete]

(* The ledger after the run; after a failed one nobody is cleared *)
RolledForward(old, hits, incomplete) ==
    [hosts |-> old.hosts \cup hits,
     active |-> IF incomplete THEN old.active \cup hits ELSE hits,
     incomplete |-> incomplete]

-----------------------------------------------------------------------------
(* The run *)

NoTrouble == UNCHANGED left

Mishap(kind) == kind \in Mishaps /\ left > 0 /\ left' = left - 1

At(here, next) == pc = here /\ pc' = next

(* The next run knows nothing of this one but what it saved *)
Forget ==
    /\ todo' = {} /\ page' = 0 /\ banners' = {} /\ hosts' = {} /\ failed' = {}
    /\ new' = {} /\ rolled' = EmptyLedger /\ misled' = {} /\ UNCHANGED <<iso, sel>>

Start ==
    /\ At("idle", "count") /\ iso' \in Date /\ todo' = Selector
    /\ NoTrouble /\ UNCHANGED <<world, saved, search, hosts, failed, new, rolled, code, told>>

(* No key, or api.info() fails: return 1 *)
SetupFails ==
    /\ pc = "idle" /\ code' = "1" /\ Mishap("api")
    /\ UNCHANGED <<world, saved, pc, run, told>>

(* count fails for good *)
CountFails(s) ==
    /\ At("count", "count") /\ s \in todo
    /\ todo' = todo \ {s} /\ failed' = failed \cup {s} /\ Mishap("api")
    /\ UNCHANGED <<world, saved, iso, search, hosts, new, rolled, code, told>>

(* count says 0, or gives no total: the selector has no hits *)
CountZero(s) ==
    /\ At("count", "count") /\ s \in todo /\ todo' = todo \ {s}
    /\ \/ flags[s] = {} /\ NoTrouble /\ UNCHANGED misled
       \/ flags[s] # {} /\ Mishap("untrue") /\ misled' = misled \cup {s}
    /\ UNCHANGED <<world, saved, iso, search, hosts, failed, new, rolled, code, announced>>

(* count says more: search *)
CountSome(s) ==
    /\ At("count", "search") /\ s \in todo
    /\ todo' = todo \ {s} /\ sel' = s /\ page' = 1 /\ banners' = {}
    /\ IF flags[s] # {} THEN NoTrouble ELSE Mishap("untrue")
    /\ UNCHANGED <<world, saved, iso, hosts, failed, new, rolled, code, told>>

(* A search that takes no result for an empty one *)
SearchedEmptyIsZero(found, complete) ==
    /\ hosts' = hosts \cup (found \cap InState)
    /\ failed' = IF ~complete THEN failed \cup {sel} ELSE failed
    /\ page' = 0 /\ banners' = {} /\ UNCHANGED sel

(* search_all returns: keep what it found, and call the selector failed if *)
(* it is incomplete or, against its count, found nothing                   *)
Searched(found, complete) ==
    /\ hosts' = hosts \cup (found \cap InState)
    /\ failed' = IF ~complete \/ found = {} THEN failed \cup {sel} ELSE failed
    /\ page' = 0 /\ banners' = {} /\ UNCHANGED sel

Total == Cardinality(flags[sel])

Least(m, n) == IF m < n THEN m ELSE n

(* How many hosts the first pages have *)
Upto(pages) == Least(pages * PageSize, Total)

(* Enough to pass any page for the last one or for one of many *)
Reported == 0..(PageSize * MaxPages + 1)

(* An empty page compared with the total as if it had been full *)
CompleteByPage(found, total) == page * PageSize >= total

(* search_all's verdict on its last page, with what the page itself says   *)
(* of the total, 0 if it says nothing                                      *)
Complete(found, total) ==
    IF found = banners THEN (page - 1) * PageSize >= total ELSE page * PageSize >= total

(* A page of results: the search goes on, or ends with a page that is      *)
(* empty, or reaches the total, or is the last one under the cap.          *)
GoesOn(found, total) == found # banners /\ page * PageSize < total /\ page < MaxPages

PageRead(found, total) ==
    \/ /\ GoesOn(found, total)
       /\ page' = page + 1 /\ banners' = found /\ UNCHANGED <<pc, sel, hosts, failed>>
    \/ ~GoesOn(found, total) /\ pc' = "count" /\ Searched(found, Complete(found, total))

(* What is to be found after a page that keeps nothing back *)
FullPage(found) == Cardinality(found \ banners) = Upto(page) - Upto(page - 1)

PageComes ==
    /\ pc = "search"
    /\ \E found \in SUBSET flags[sel] :
          banners \subseteq found /\ FullPage(found) /\ PageRead(found, Total)
    /\ NoTrouble /\ UNCHANGED <<world, saved, iso, todo, new, rolled, code, told>>

(* A page comes back empty.  The code can tell that from the end of the    *)
(* results on the first page, since count said there were hits, and on a   *)
(* later one from the total that page reports.                             *)
PageEmpty ==
    /\ pc = "search"
    /\ \E total \in Reported :
          /\ PageRead(banners, total)
          /\ \/ (page = 1 \/ total >= Total) /\ Mishap("blank") /\ UNCHANGED misled
             \/ page > 1 /\ total < Total /\ Mishap("hollow") /\ misled' = misled \cup {sel}
    /\ UNCHANGED <<world, saved, iso, todo, new, rolled, code, announced>>

(* A page with fewer banners than there are, or a total too high, too low  *)
(* or missing.  The run is misled if the page keeps hosts back or makes    *)
(* them seem fewer.                                                        *)
PageUntrue ==
    /\ pc = "search"
    /\ \E found \in SUBSET flags[sel], total \in Reported :
          /\ banners \subseteq found /\ banners # found
          /\ Cardinality(found \ banners) <= Upto(page) - Upto(page - 1)
          /\ PageRead(found, total)
          /\ misled' = IF FullPage(found) /\ total >= Total THEN misled ELSE misled \cup {sel}
    /\ Mishap("untrue") /\ UNCHANGED <<world, saved, iso, todo, new, rolled, code, announced>>

(* A page fails for good *)
PageFails ==
    /\ At("search", "count") /\ Searched(banners, FALSE) /\ Mishap("api")
    /\ UNCHANGED <<world, saved, iso, todo, new, rolled, code, told>>

(* Every selector asked: load the ledger and reconcile; no hits, no files *)
Reconcile ==
    /\ At("count", IF hosts = {} THEN "save" ELSE "archive") /\ todo = {}
    /\ new' = NewHosts(ledger, hosts)
    /\ rolled' = RolledForward(ledger, hosts, failed # {})
    /\ NoTrouble
    /\ UNCHANGED <<world, saved, iso, todo, search, hosts, failed, code, told>>

(* The banners, by rename: a second run of a date replaces the first *)
Archive ==
    /\ At("archive", "open") /\ archive' = [archive EXCEPT ![iso] = hosts]
    /\ NoTrouble /\ UNCHANGED <<world, ledger, alert, run, code, told>>

(* open(txt_path, "w") *)
OpenAlert ==
    /\ At("open", "write") /\ alert' = [alert EXCEPT ![iso] = NoAlert]
    /\ NoTrouble /\ UNCHANGED <<world, ledger, archive, run, code, told>>

WriteAlert ==
    /\ At("write", "save")
    /\ alert' = [alert EXCEPT ![iso] = [new |-> new, ongoing |-> hosts \ new]]
    /\ announced' = announced \cup new
    /\ NoTrouble /\ UNCHANGED <<world, ledger, archive, run, code, misled>>

(* os.replace(tmp, LEDGER_PATH) *)
Save ==
    /\ At("save", "exit") /\ ledger' = rolled
    /\ announced' = announced \cap rolled.active
    /\ NoTrouble /\ UNCHANGED <<world, archive, alert, run, code, misled>>

(* new hits outrank an incomplete run *)
ExitCode == IF new # {} THEN "10" ELSE IF failed # {} THEN "5" ELSE "0"

Exit ==
    /\ At("exit", "idle") /\ code' = ExitCode /\ Forget
    /\ NoTrouble /\ UNCHANGED <<world, saved, announced>>

-----------------------------------------------------------------------------
(* What happens to it *)

Kill ==
    /\ pc # "idle" /\ pc' = "idle" /\ Forget /\ Mishap("kill")
    /\ UNCHANGED <<world, saved, code, told>>

(* load_ledger takes a missing or unparseable ledger for an empty one *)
Corrupt ==
    /\ ledger' = EmptyLedger /\ Mishap("corrupt")
    /\ UNCHANGED <<world, archive, alert, pc, run, code, told>>

(* Shodan flags other hosts; a run sees one view of it *)
Change ==
    /\ pc = "idle" /\ changes > 0 /\ changes' = changes - 1
    /\ flags' \in [Selector -> SUBSET Host]
    /\ UNCHANGED <<saved, pc, run, code, told, left>>

Init ==
    /\ flags \in [Selector -> SUBSET Host] /\ ledger = EmptyLedger
    /\ archive = [d \in Date |-> {}] /\ alert = [d \in Date |-> NoAlert]
    /\ pc = "idle" /\ iso \in Date /\ todo = {} /\ sel \in Selector /\ page = 0
    /\ banners = {} /\ hosts = {} /\ failed = {} /\ new = {} /\ rolled = EmptyLedger
    /\ code = "none" /\ announced = {} /\ misled = {} /\ left = MaxMishaps /\ changes = MaxChanges

Watch ==
    \/ Start \/ PageComes \/ Reconcile \/ Archive \/ OpenAlert \/ WriteAlert \/ Save \/ Exit
    \/ \E s \in Selector : CountZero(s) \/ CountSome(s)

Trouble ==
    \/ SetupFails \/ PageFails \/ PageEmpty \/ PageUntrue \/ Kill \/ Corrupt
    \/ \E s \in Selector : CountFails(s)

Next == Watch \/ Trouble \/ Change

Spec == Init /\ [][Next]_vars

(* cron starts a run every night, and a run goes on unless killed *)
FairSpec == Spec /\ WF_vars(Watch)

-----------------------------------------------------------------------------
(* A host the ledger calls active, which will be met in silence, has been  *)
(* named as new or recurred in an alert file since it was last cleared:    *)
(* no kill between the alert, the ledger and the exit can skip it.         *)
ActiveWasAnnounced == ledger.active \subseteq announced

(* A host is cleared only if it could really not be found: one that Shodan *)
(* flags for a selector about which no answer told too little is never     *)
(* dropped, whatever calls failed and whatever was said of the others.     *)
NeverClearedWhileFlagged == [][Save => Vouched \cap ledger.active \subseteq ledger'.active]_vars

(* A run that exits 0 has overlooked nothing of such selectors: the alert  *)
(* files of this or earlier runs named every host Shodan flags for them.   *)
QuietMeansAnnounced == [][Exit /\ code' = "0" => Vouched \subseteq announced]_vars

(* The same as the docstring of search_all has it, whatever the provider   *)
(* says: a search that came back with too little is not complete, so that  *)
(* nothing it missed is cleared.                                           *)
NothingMissedCleared == [][Save => Flagged \cap ledger.active \subseteq ledger'.active]_vars

(* Once Shodan's view and the provider settle, the ledger's active set is  *)
(* and stays what Shodan flags, and all of it has been announced.          *)
EventuallyExact ==
    <>[]((\A s \in Selector : Cardinality(flags[s]) <= PageSize * MaxPages)
            => ledger.active = Flagged /\ Flagged \subseteq announced)

-----------------------------------------------------------------------------
(* Why the first three hold: the inductive invariants *)

(* The ledger about to be saved names only hosts already announced, or     *)
(* about to be.                                                            *)
AnnouncedInv ==
    /\ ActiveWasAnnounced
    /\ pc \in {"archive", "open", "write"} => rolled.active \subseteq announced \cup new
    /\ pc = "save" => rolled.active \subseteq announced

(* A selector already asked has failed, was misreported or has given all   *)
(* its hosts, so the ledger about to be saved drops none of those a        *)
(* selector vouches for.  A search not misled has all of its earlier pages. *)
Asked(s) == s \in failed \cup misled \/ InState \cap flags[s] \subseteq hosts

SearchInv ==
    /\ page # 0 /\ banners \subseteq flags[sel] /\ (page = 1 => banners = {})
    /\ sel \notin misled => Cardinality(banners) = Upto(page - 1)

SeenInv ==
    /\ pc = "count" => \A s \in Selector \ todo : Asked(s)
    /\ pc = "search" => SearchInv /\ \A s \in Selector \ (todo \cup {sel}) : Asked(s)
    /\ pc \in {"archive", "open", "write", "save"} =>
          /\ Vouched \cap ledger.active \subseteq rolled.active
          /\ failed = {} => Vouched \subseteq rolled.active
    /\ pc = "exit" /\ failed = {} => Vouched \subseteq announced

IInv == TypeOK /\ AnnouncedInv /\ SeenInv
=============================================================================
