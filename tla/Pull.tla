-------------------------------- MODULE Pull --------------------------------
(***************************************************************************)
(* The download of shodan_collect.py: from what the provider answers to    *)
(* the exit code that the wrapper and the morning repair take on trust.    *)
(* The primary query is paged as a whole or, sharded, range of addresses   *)
(* by range; the query for organisations is paged after it.  A result is   *)
(* a number; which page has which is left out.                             *)
(***************************************************************************)
EXTENDS Integers, FiniteSets, Functions, FiniteSetsExt

CONSTANTS
    Address,     \* all of the address space
    Seed,        \* the ranges the walk starts with
    Halves,      \* of a range that has more than one address
    Threshold,   \* results a leaf may have
    MaxShards,
    PageSize,
    MinPct,      \* MIN_COMPLETENESS_PCT
    Elsewhere,   \* what the query for organisations finds
    MaxHits,     \* results of an address (a bound)
    MaxSlips     \* failed and untrue answers (a bound)

Tiles(S, R) == UNION S = R /\ {} \notin S /\ \A r, s \in S : r # s => r \cap s = {}

ASSUME PullAssumption ==
    /\ Tiles(Seed, Address) /\ IsFiniteSet(Address)
    /\ \A r \in DOMAIN Halves : Tiles(Halves[r], r) /\ r \notin Halves[r]
    /\ \A n \in {Threshold, MaxShards, PageSize, MinPct, Elsewhere, MaxHits, MaxSlips} : n \in Nat
    /\ PageSize > 0

VARIABLES
    hits,        \* the results of an address that the provider has
    leaky,       \* its state: filter lets others through
    sharded,
    pc,
    query,       \* primary or rescue
    walk,        \* what became of a range
    shards, leafTotal, global,
    cnt,         \* the count of the range at hand
    page,        \* the page asked for
    expect,      \* the total the first page gave
    raw,         \* results fetched, by query
    dropped,     \* those of the primary that are off target
    kept,        \* something was written
    lost,        \* a page, a count or a range of the query at hand
    incomplete, suspect,
    code,
    slips

world   == <<hits, leaky, sharded>>
sizing  == <<walk, shards, leafTotal, global, cnt>>
paging  == <<page, expect, raw, dropped, kept>>
verdict == <<incomplete, suspect, code>>
vars    == <<world, pc, query, sizing, paging, lost, verdict, slips>>

Query == {"primary", "rescue"}
Fate  == {"stacked", "split", "pruned", "unsized", "pulling", "pulled"}
None  == -1

Most     == MaxHits * Cardinality(Address)
Hits(r)  == SumFunctionOnSet(hits, r)
Truth    == Hits(Address)
Walked   == sharded /\ query = "primary"
Fated(f) == {r \in DOMAIN walk : walk[r] \in f}
At       == CHOOSE r \in Fated({"pulling"}) : TRUE

(* How many results the query at hand has where it asks *)
Matching == IF query = "rescue" THEN Elsewhere ELSE IF sharded THEN Hits(At) ELSE Truth

TypeOK ==
    /\ hits \in [Address -> 0 .. MaxHits] /\ leaky \in BOOLEAN /\ sharded \in BOOLEAN
    /\ pc \in {"size", "walk", "page", "judge", "end"} /\ query \in Query
    /\ DOMAIN walk \subseteq SUBSET Address /\ walk \in [DOMAIN walk -> Fate]
    /\ shards \in 0 .. MaxShards /\ leafTotal \in Nat /\ global \in Nat \cup {None} /\ cnt \in Nat
    /\ page \in Nat \ {0} /\ expect \in Nat /\ raw \in [Query -> Nat] /\ dropped \in Nat /\ kept \in BOOLEAN
    /\ lost \in BOOLEAN /\ incomplete \in BOOLEAN /\ suspect \in BOOLEAN
    /\ code \in {None, 0, 2, 3, 4} /\ slips \in 0 .. MaxSlips

Init ==
    /\ hits \in [Address -> 0 .. MaxHits] /\ leaky \in BOOLEAN /\ sharded \in BOOLEAN
    /\ pc = (IF sharded THEN "size" ELSE "page") /\ query = "primary"
    /\ walk = [r \in Seed |-> "stacked"] /\ shards = 0 /\ leafTotal = 0 /\ global = None /\ cnt = 0
    /\ page = 1 /\ expect = 0 /\ raw = [q \in Query |-> 0] /\ dropped = 0 /\ kept = FALSE
    /\ lost = FALSE /\ incomplete = FALSE /\ suspect = FALSE /\ code = None /\ slips = 0

Slip == slips < MaxSlips /\ slips' = slips + 1

-----------------------------------------------------------------------------
(* The count of the whole query or of a range: what the provider has, or   *)
(* any number, or no answer at all.                                        *)
Counted(r, n) == \/ n = Hits(r) /\ UNCHANGED slips
                 \/ n \in (None .. Most) \ {Hits(r)} /\ Slip

SizeWhole ==
    /\ pc = "size" /\ pc' = "walk"
    /\ \E n \in None .. Most : Counted(Address, n) /\ global' = n
    /\ UNCHANGED <<world, query, walk, shards, leafTotal, cnt, paging, lost, verdict>>

(* One leaf more than the cap *)
BelowCapToo == shards <= MaxShards

(* The runaway backstop *)
BelowCap == shards < MaxShards

(* ... without the flag *)
ShardCapQuiet ==
    /\ pc = "walk" /\ ~BelowCap /\ Fated({"stacked"}) # {} /\ pc' = "judge" /\ UNCHANGED lost
    /\ UNCHANGED <<world, query, sizing, paging, verdict, slips>>

ShardCap ==
    /\ pc = "walk" /\ ~BelowCap /\ Fated({"stacked"}) # {} /\ pc' = "judge" /\ lost' = TRUE
    /\ UNCHANGED <<world, query, sizing, paging, verdict, slips>>

WalkEnds ==
    /\ pc = "walk" /\ Fated({"stacked"}) = {} /\ pc' = "judge"
    /\ UNCHANGED <<world, query, sizing, paging, lost, verdict, slips>>

Becomes(r, f) == walk' = [walk EXCEPT ![r] = f]

Split(r) ==
    /\ walk' = [s \in DOMAIN walk \cup Halves[r] |->
                    IF s \in Halves[r] THEN "stacked" ELSE IF s = r THEN "split" ELSE walk[s]]
    /\ UNCHANGED <<lost, pc, cnt, page>>

(* A range: prune it, note that it could not be sized, split it or pull it *)
SizeRange ==
    /\ pc = "walk" /\ BelowCap
    /\ \E r \in Fated({"stacked"}), n \in None .. Most :
          /\ Counted(r, n)
          /\ \/ n = 0 /\ Becomes(r, "pruned") /\ UNCHANGED <<lost, pc, cnt, page>>
             \/ n < 0 /\ Becomes(r, "unsized") /\ lost' = TRUE /\ UNCHANGED <<pc, cnt, page>>
             \/ n > Threshold /\ r \in DOMAIN Halves /\ Split(r)
             \/ /\ n > 0 /\ (n <= Threshold \/ r \notin DOMAIN Halves)
                /\ Becomes(r, "pulling") /\ cnt' = n /\ pc' = "page" /\ page' = 1 /\ UNCHANGED lost
    /\ UNCHANGED <<world, query, shards, leafTotal, global, expect, raw, dropped, kept, verdict>>

(* The query at hand has no more pages: back to the walk, or to the end *)
PagesEnd ==
    IF Walked
    THEN /\ Becomes(At, "pulled") /\ shards' = shards + 1 /\ leafTotal' = leafTotal + cnt /\ pc' = "walk"
         /\ UNCHANGED <<global, cnt>>
    ELSE pc' = "judge" /\ UNCHANGED sizing

(* search_page and _write_matches: m results and, on the first page, the   *)
(* total; d of them off target, which only the primary query looks at      *)
PageGives(t, m, d) ==
    /\ d = 0 \/ (query = "primary" /\ leaky)
    /\ raw' = [raw EXCEPT ![query] = @ + m]
    /\ dropped' = dropped + d /\ kept' = (kept \/ d < m)
    /\ expect' = (IF page = 1 THEN t ELSE expect)
    /\ IF page * PageSize < expect' /\ (page = 1 \/ m > 0)
       THEN page' = page + 1 /\ UNCHANGED <<pc, sizing>>
       ELSE PagesEnd /\ UNCHANGED page

Remaining(n) == IF n < 0 THEN 0 ELSE IF n < PageSize THEN n ELSE PageSize

PageComes ==
    /\ pc = "page"
    /\ LET m == Remaining(Matching - (page - 1) * PageSize) IN
       \E d \in 0 .. m : PageGives(Matching, m, d)
    /\ UNCHANGED <<world, query, lost, verdict, slips>>

(* An untrue total on the first page, or a page that is too short *)
PageUntrue ==
    /\ pc = "page" /\ Slip
    /\ \E t \in 0 .. Most, m \in 0 .. Remaining(Matching - (page - 1) * PageSize) :
          \E d \in 0 .. m : PageGives(t, m, d)
    /\ UNCHANGED <<world, query, lost, verdict>>

(* Every attempt failed *)
PageLost ==
    /\ pc = "page" /\ Slip /\ lost' = TRUE /\ PagesEnd
    /\ expect' = (IF page = 1 THEN 0 ELSE expect)
    /\ UNCHANGED <<world, query, page, raw, dropped, kept, verdict>>

-----------------------------------------------------------------------------
Larger(m, n) == IF m > n THEN m ELSE n

(* The count of the whole query, if there is one *)
WholeCountTotal == IF global > 0 THEN global ELSE leafTotal

(* reference_total: 0 if there is no usable one *)
ReferenceTotal == Larger(0, Larger(global, leafTotal))

Total == IF Walked THEN ReferenceTotal ELSE expect
Pct   == (raw[query] * 100) \div Total

(* main: what the query's numbers say; a total of 0 that the provider gave *)
(* says nothing.  Then the next query                                      *)
Judge ==
    /\ pc = "judge"
    /\ incomplete' = (incomplete \/ lost \/ (Walked /\ Total = 0) \/ (Total > 0 /\ Pct < MinPct))
    /\ suspect' = (suspect \/ (query = "primary" /\ dropped * 100 >= 31 * raw["primary"] /\ raw["primary"] > 0))
    /\ \/ query = "primary" /\ query' = "rescue" /\ pc' = "page" /\ page' = 1 /\ lost' = FALSE /\ UNCHANGED code
       \/ /\ query = "rescue" /\ pc' = "end" /\ UNCHANGED <<query, page, lost>>
          /\ code' = IF ~kept THEN 2 ELSE IF suspect THEN 4 ELSE IF incomplete' THEN 3 ELSE 0
    /\ UNCHANGED <<world, sizing, expect, raw, dropped, kept, slips>>

Next ==
    \/ SizeWhole \/ ShardCap \/ WalkEnds \/ SizeRange
    \/ PageComes \/ PageUntrue \/ PageLost \/ Judge

Spec == Init /\ [][Next]_vars

-----------------------------------------------------------------------------
(* collect_sharded, "provably complete": the ranges that are not split     *)
(* tile the address space throughout, so that no address is asked twice or *)
(* forgotten; and when the exit code is 0 each of them was pulled or has   *)
(* been counted as empty, none given up or left when the cap was hit.      *)
EveryAddressAsked ==
    /\ Tiles(Fated(Fate \ {"split"}), Address)
    /\ sharded /\ code = 0 => Fated(Fate) = Fated({"split", "pruned", "pulled"})

(* A sharded run of which less was fetched than MIN_COMPLETENESS_PCT never *)
(* passes for complete after one failed or untrue answer, whichever it is, *)
(* nor after any number of them that leave one of the two readings, whole  *)
(* query and sum of the leaves, not too low (reference_total).             *)
OneReadingIsEnough ==
    sharded /\ code = 0 /\ (slips <= 1 \/ Larger(global, leafTotal) >= Truth)
        => raw["primary"] * 100 >= MinPct * Truth
=============================================================================
