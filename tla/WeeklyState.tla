---------------------------- MODULE WeeklyState ----------------------------
(***************************************************************************)
(* run_weekly.sh: four scripts one after the other, each under a timeout   *)
(* that kills it, none under the pipeline lock.  This module holds the     *)
(* script that runs and what the scripts share; ReferenceFeeds, Rosters,   *)
(* Discovery and OwnerRegistry hold the steps of one script each, Weekly   *)
(* puts them together.                                                     *)
(***************************************************************************)
EXTENDS Naturals, Sequences, FiniteSets

CONSTANTS
    Mishaps,      \* the kinds of trouble that may happen
    MaxMishaps,   \* how often (a bound)
    MaxChanges    \* how often the outside world changes (a bound)

MishapKind == {"timeout",   \* timeout(1) kills the script
               "skip",      \* the budget is spent before the script starts
               "api",       \* sources do not answer, or not with everything
               "edition",   \* a source answers for an earlier year only
               "garbled",   \* a feed answers, but not with all of its list
               "raise",     \* an exception, in a parser or over a CSV
               "slow",      \* a deadline of the script's own passes
               "gazetteer", \* ... just before the gazetteer is asked
               "resolver",  \* the resolver returns an error
               "store",     \* exposure.duckdb and the partitions cannot be read
               "cache"}     \* the files with the network caches are lost

ASSUME WeeklyAssumption == /\ Mishaps \subseteq MishapKind
                           /\ MaxMishaps \in Nat /\ MaxChanges \in Nat

VARIABLES
    script,     \* the script run_weekly.sh is at
    step,       \* where in it
    rc,         \* run_weekly.sh: rc_all is 0
    left,       \* mishaps that may still happen
    changes     \* changes of the outside world that may still happen

job == <<script, step, rc, left, changes>>

(* The steps of run_weekly.sh in their order *)
Scripts == <<"feeds", "rosters", "discover", "registry">>

Steps == {"start", "seeds", "domains", "write", "point", "prune"}

JobTypeOK ==
    /\ script \in {"idle"} \cup {Scripts[i] : i \in DOMAIN Scripts}
    /\ step \in Steps /\ rc \in BOOLEAN /\ left \in Nat /\ changes \in Nat

JobInit == script = "idle" /\ step = "start" /\ rc = TRUE
           /\ left = MaxMishaps /\ changes = MaxChanges

NextScript(s) == IF s = "registry" THEN "idle"
                 ELSE Scripts[1 + CHOOSE i \in DOMAIN Scripts : Scripts[i] = s]

When(condition, kind) == IF condition THEN {kind} ELSE {}

(* One mishap of each of these kinds *)
Trouble(kinds) == kinds \subseteq Mishaps /\ left >= Cardinality(kinds)
                  /\ left' = left - Cardinality(kinds)

NoTrouble == UNCHANGED left

(* The world outside changes, whatever the job does *)
WorldChanges == changes > 0 /\ changes' = changes - 1 /\ UNCHANGED <<script, step, rc, left>>

At(s, p) == script = s /\ step = p

(* Script s goes from step p to step q *)
Goto(s, p, q) == At(s, p) /\ step' = q /\ UNCHANGED <<script, rc, changes>>

(* The last step of script s: run_step sees exit code 0 *)
Done(s, p) == At(s, p) /\ script' = NextScript(s) /\ step' = "start" /\ UNCHANGED <<rc, changes>>

(* run_step: the script ends with another exit code; the next one runs *)
Failed(s) == /\ script = s /\ script' = NextScript(s) /\ step' = "start" /\ rc' = FALSE
             /\ UNCHANGED changes

(* Cron *)
StartWeek == /\ script = "idle" /\ script' = Scripts[1] /\ rc' = TRUE
             /\ NoTrouble /\ UNCHANGED <<step, changes>>

(* run_step: the budget of the week is spent *)
BudgetSpent(s) == step = "start" /\ Failed(s) /\ Trouble({"skip"})
=============================================================================
