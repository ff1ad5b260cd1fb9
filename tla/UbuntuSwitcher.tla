--------------------------- MODULE UbuntuSwitcher ---------------------------
(***************************************************************************)
(* The Ubuntu side of the dual boot: tab-companion-boot-switch, run by the *)
(* Dualboot page and by the quick settings toggle.  It holds the boot lock *)
(* it shares with the updater while it writes, and restarts after it has   *)
(* let it go.  Of the updater only what the switch looks at is here: an    *)
(* update is pending from prepare to --cancel or to the run that applies   *)
(* it (see UpdateTransaction).                                             *)
(***************************************************************************)
EXTENDS BootChain

VARIABLES pending   \* status.json says ready or applying

(* The lock is tried without waiting; a busy lock, a pending update or an  *)
(* incomplete set end the helper before it has touched anything.           *)
Switch(a, set, then) ==
    /\ pc[a] = "idle"
    /\ holder = None
    /\ ~pending
    /\ Complete(Stored(set))
    /\ holder' = a
    /\ step' = "write"
    /\ idx' = 1
    /\ pc' = [pc EXCEPT ![a] = "write"]
    /\ goal' = [goal EXCEPT ![a] = set]
    /\ reboot' = [reboot EXCEPT ![a] = then]
    /\ UNCHANGED <<part, stored, tears, ordering, restart, pending>>

(* The with statement releases the lock; the restart is ordered after it   *)
(* (Order), by when the next switch may be half way, and takes effect some *)
(* time later (Shutdown).                                                  *)
SwitchDone(a) ==
    /\ holder = a
    /\ step = "done"
    /\ Release
    /\ End(a)
    /\ SetsOut(a)
    /\ UNCHANGED <<part, stored, tears, restart, pending>>

SwitchFailed(a) ==
    /\ holder = a
    /\ step = "failed"
    /\ Release
    /\ End(a)
    /\ UNCHANGED <<part, stored, tears, ordering, restart, pending>>

(* The updater's prepare and --cancel, each under the same lock. *)
Prepare ==
    /\ holder = None
    /\ ~pending
    /\ pending' = TRUE
    /\ UNCHANGED <<part, stored, tears, lock, actors, restart>>

Cancel ==
    /\ holder = None
    /\ pending
    /\ pending' = FALSE
    /\ UNCHANGED <<part, stored, tears, lock, actors, restart>>

UbuntuStep ==
    \/ \E a \in UbuntuActors :
        \/ \E set \in Sets, then \in BOOLEAN : Switch(a, set, then)
        \/ WriteStep(a) /\ UNCHANGED pending
        \/ SwitchDone(a)
        \/ SwitchFailed(a)
    \/ Prepare
    \/ Cancel
    \/ Order /\ UNCHANGED pending
=============================================================================
