----------------------------- MODULE DayArchive -----------------------------
(***************************************************************************)
(* What the pipeline promises about one day of the archive, with no file   *)
(* in it: records that have arrived are held for good, the day's official  *)
(* file shows some of them, and the day is called settled only while it    *)
(* shows all of them but those no reader can get.                          *)
(***************************************************************************)
CONSTANT Rec

VARIABLES
    held,      \* records held under some name
    lost,      \* records some copy could not yield
    shown,     \* records the day's file holds
    settled    \* nobody will look at the day again

vars == <<held, lost, shown, settled>>

TypeOK ==
    /\ held \subseteq Rec /\ lost \subseteq Rec /\ shown \subseteq held
    /\ settled \in BOOLEAN

Whole == held \ lost \subseteq shown

Init == held = {} /\ lost = {} /\ shown = {} /\ settled = FALSE

(* A record arrives while the day is being worked on *)
Receive(r) ==
    /\ ~settled
    /\ held' = held \cup {r}
    /\ UNCHANGED <<lost, shown, settled>>

(* A copy decays; what it held stays held *)
Decay(S) ==
    /\ lost' = lost \cup S
    /\ UNCHANGED <<held, shown, settled>>

(* The day's file is replaced by another, or set aside *)
Show(S) ==
    /\ ~settled /\ shown' = S
    /\ UNCHANGED <<held, lost, settled>>

(* Work on the day starts, or it is found to be in need of it *)
Reopen == settled /\ settled' = FALSE /\ UNCHANGED <<held, lost, shown>>

Settle == Whole /\ ~settled /\ settled' = TRUE /\ UNCHANGED <<held, lost, shown>>

Next ==
    \/ \E r \in Rec : Receive(r)
    \/ \E S \in SUBSET held : Decay(S) \/ Show(S)
    \/ Reopen \/ Settle

Spec == Init /\ [][Next]_vars
=============================================================================
