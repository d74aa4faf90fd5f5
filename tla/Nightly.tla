------------------------------ MODULE Nightly ------------------------------
(***************************************************************************)
(* run_nightly.sh for the collection day: bookkeeping, disk guard,         *)
(* collector, store, ping.  The steps between the store and the ping       *)
(* (tripwire, Shadowserver, leads) touch none of the day's files; what     *)
(* the ping takes from them is whether one of them failed.                 *)
(***************************************************************************)
EXTENDS DayState

At(here, next) == pc["nightly"] = here /\ Goto("nightly", next)

(* record_rc: returns 1, and the record stays as it was, if it cannot write *)
Record(rc) ==
    \/ status' = rc /\ UNCHANGED broken /\ NoTrouble
    \/ UNCHANGED status /\ broken' = TRUE /\ Mishap("status")

(* flock -n 9, then the in-progress marker *)
NightStart ==
    /\ Idle /\ age = 0 /\ ~asked /\ asked' = TRUE
    /\ At("idle", "guard")
    /\ Record("-1") /\ ping' = "none"
    /\ UNCHANGED <<disk, part, child, result, stored, locals, age, history>>

(* An operator starts it again the same night *)
NightAgain ==
    /\ Idle /\ age = 0 /\ asked /\ Mishap("operator")
    /\ At("idle", "guard")
    /\ \/ status' = "-1" /\ UNCHANGED broken
       \/ "status" \in Mishaps /\ UNCHANGED status /\ broken' = TRUE
    /\ ping' = "none"
    /\ UNCHANGED <<disk, part, child, result, stored, locals, clock, history>>

(* Enough room: start the collector for the recorded date *)
NightCollect ==
    /\ At("guard", "wait")
    /\ child' = [child EXCEPT !["nightly"] = "api"]
    /\ NoTrouble /\ UNCHANGED <<files, result, night, locals, clock, history>>

(* Less than 3GB free: record 1 (or fail to), ping /fail, exit 1 *)
NightNoSpace ==
    /\ At("guard", "idle") /\ Mishap("space")
    /\ status' \in {"bad"} \cup (IF "status" \in Mishaps THEN {status} ELSE {})
    /\ ping' = "fail" /\ broken' = FALSE
    /\ UNCHANGED <<disk, part, child, result, stored, locals, clock, history>>

(* The collector has ended: record its exit code *)
NightRecord ==
    /\ child["nightly"] = "none" /\ At("wait", "project")
    /\ Record(result["nightly"])
    /\ UNCHANGED <<disk, part, child, result, stored, ping, locals, clock, history>>

(* Project the day if a file for it exists; store_rc is 0 otherwise *)
NightProject ==
    /\ pc["nightly"] = "project"
    /\ IF On(disk, Day)
       THEN Goto("nightly", "storing") /\ child' = [child EXCEPT !["nightly"] = "project"]
       ELSE Goto("nightly", "ping") /\ UNCHANGED child
    /\ stored' = TRUE
    /\ NoTrouble /\ UNCHANGED <<files, result, broken, ping, locals, clock, history>>

NightStored ==
    /\ child["nightly"] = "none" /\ At("storing", "ping")
    /\ NoTrouble /\ UNCHANGED <<files, child, result, night, locals, clock, history>>

(* A ping that forgets what is downstream of the collector *)
OutcomeByExitCode(degraded) ==
    IF broken \/ result["nightly"] \notin {"0", "3"} THEN "fail" ELSE "success"

(* The ping that decides whether anyone looks: broken bookkeeping, then    *)
(* anything degraded downstream, then the collector's exit code.           *)
Outcome(degraded) ==
    IF broken \/ degraded \/ result["nightly"] \notin {"0", "3"} THEN "fail" ELSE "success"

NightPing ==
    /\ At("ping", "idle")
    /\ \E downstream \in BOOLEAN : ping' = Outcome(~stored \/ downstream)
    /\ result' = [result EXCEPT !["nightly"] = "absent"]
    /\ broken' = FALSE /\ stored' = TRUE
    /\ NoTrouble /\ UNCHANGED <<files, child, locals, clock, history>>

Night == NightStart \/ NightCollect \/ NightRecord \/ NightProject \/ NightStored \/ NightPing

NightTrouble == NightAgain \/ NightNoSpace
=============================================================================
