-------------------------- MODULE AndroidSwitcher ---------------------------
(***************************************************************************)
(* The Android side of the dual boot: the app (SwitcherViewModel), its     *)
(* quick settings tile (BootSwitchTile) and the job that runs after every  *)
(* boot (BootRefreshJob).  All three reach the partitions through BootSets *)
(* and BootState under one monitor.  Before every switch, and on every     *)
(* read, BootMaintenance.refresh brings the stored Android set up to date  *)
(* with the live partitions, so that an Android that updated itself can be *)
(* switched back to: the rest of this module is that transaction.          *)
(*                                                                         *)
(* One set in the directories is Android's and one is Linux's, neither of  *)
(* them overridden under /sdcard, and the Linux set is complete.           *)
(***************************************************************************)
EXTENDS BootChain

VARIABLES
    previous,   \* gts9u-boot-backups/<id>.previous
    stage,      \* gts9u-boot-backups/<id>.pending
    kernel,     \* the release of the kernel that is running
    journal,    \* linuxroot's: "clean", "dirty", or mounted "noload"
    next,       \* the app's UiState.nextBoot: a set, "none", or "unread"
    seen,       \* the Android set in the app's UiState.sets
    staged      \* the tile's staged

backups == <<previous, stage>>
screens == <<next, seen, staged>>

(* refresh-android.sh refuses a filesystem it must not write. *)
Writable == journal # "noload"

-----------------------------------------------------------------------------
(* BootSets.backupDecision. *)

AndroidImage(p) == IF Complete(androidSet) THEN androidSet[p] ELSE None

Ambiguous == androidSet = None \/ (~Complete(androidSet) /\ Identify = "linux")

LinuxStaged == Complete(androidSet) /\ Identify = "linux"

\* Mistake, for the mutants: only a chain that is all Linux is refused.
MixedIfWhole == ~LinuxStaged /\ \A p \in Parts : part[p] = linuxSet[p]

Mixed ==
    /\ ~LinuxStaged
    /\ \E p \in Parts : part[p] = linuxSet[p] /\ part[p] # AndroidImage(p)

\* Mistake, for the mutants: a chain that no set knows is no update of Android.
UnchangedIfUnknown == Identify # "linux"

Unchanged == Identify = "android"

(* grep "Linux version $(uname -r)": the boot partition holds the running  *)
(* kernel.  A torn one may hold enough of it to say so.                    *)
KernelRuns == part[1] = kernel \/ (TornKernel /\ part[1] \in Torns)

-----------------------------------------------------------------------------
(* The callers. *)

Idle(a) == a \in AndroidActors /\ pc[a] = "idle"

Begin(a, what) == pc' = [pc EXCEPT ![a] = what]

(* ON_RESUME and the refresh button. *)
AppRefresh ==
    /\ Idle("app")
    /\ Begin("app", "read")
    /\ UNCHANGED <<part, stored, tears, lock, goal, reboot, ordering, restart,
                   backups, kernel, journal, screens>>

(* The buttons the screen offers: undo on the running system's row, and on *)
(* Linux's row to stage it or to restart into it.                          *)
Offered(set) ==
    /\ next # "unread"
    /\ next # set
    /\ set = "android" => seen # None

AppWrite(set, then) ==
    /\ Idle("app")
    /\ Offered(set)
    /\ set = "android" => ~then
    /\ Begin("app", "write")
    /\ goal' = [goal EXCEPT !["app"] = set]
    /\ reboot' = [reboot EXCEPT !["app"] = then]
    /\ UNCHANGED <<part, stored, tears, lock, ordering, restart, backups, kernel, journal,
                   screens>>

(* Restarting into what the app believes is written already.  This path of *)
(* apply does not set busy: the app's other buttons stay alive under it,   *)
(* so it is an actor of its own.                                           *)
AppRestart ==
    /\ Idle("restart")
    /\ pc["app"] = "idle"
    /\ next = "linux"
    /\ Begin("restart", "next")
    /\ goal' = [goal EXCEPT !["restart"] = "linux"]
    /\ UNCHANGED <<part, stored, tears, lock, reboot, ordering, restart, backups,
                   kernel, journal, screens>>

(* The shade comes down and the tile's cache does not answer; or a tap,    *)
(* which reads the tablet whatever the cache says.                         *)
TileRead(what) ==
    /\ Idle("tile")
    /\ what \in {"read", "tap"}
    /\ Begin("tile", what)
    /\ UNCHANGED <<part, stored, tears, lock, goal, reboot, ordering, restart,
                   backups, kernel, journal, screens>>

(* The dialog is answered, or skipConfirmation answers it. *)
TileSwitch ==
    /\ "tile" \in AndroidActors
    /\ pc["tile"] = "confirm"
    /\ Begin("tile", IF staged THEN "next" ELSE "write")
    /\ goal' = [goal EXCEPT !["tile"] = "linux"]
    /\ reboot' = [reboot EXCEPT !["tile"] = TRUE]
    /\ UNCHANGED <<part, stored, tears, lock, ordering, restart, backups, kernel, journal,
                   screens>>

TileDismiss ==
    /\ "tile" \in AndroidActors
    /\ pc["tile"] = "confirm"
    /\ Begin("tile", "idle")
    /\ UNCHANGED <<part, stored, tears, lock, goal, reboot, ordering, restart,
                   backups, kernel, journal, screens>>

(* The app's coroutine goes on after its write: the screen is told, and    *)
(* its buttons are alive again while the restart is still to be ordered.   *)
AppWrote ==
    /\ "app" \in AndroidActors
    /\ pc["app"] = "wrote"
    /\ next' = goal["app"]
    /\ End("app")
    /\ SetsOut("app")
    /\ UNCHANGED <<part, stored, tears, lock, restart, backups, kernel, journal,
                   seen, staged>>

(* Scheduled when the boot completes, within a minute. *)
JobStart ==
    /\ "job" \in AndroidActors
    /\ pc["job"] = "due"
    /\ Begin("job", "read")
    /\ UNCHANGED <<part, stored, tears, lock, goal, reboot, ordering, restart,
                   backups, kernel, journal, screens>>

-----------------------------------------------------------------------------
(* Under the monitor. *)

Reading(a) == pc[a] \in {"read", "tap"}

\* Mistake, for the mutants: a write does not refresh the backup first.
EnterUnrefreshed(a) ==
    /\ holder = None
    /\ Reading(a) \/ pc[a] \in {"write", "next"}
    /\ holder' = a
    /\ step' = IF Reading(a) THEN "recover"
               ELSE IF pc[a] = "next" THEN "refresh" ELSE "ready"
    /\ UNCHANGED <<part, stored, tears, idx, actors, restart, backups, kernel,
                   journal, screens>>

Enter(a) ==
    /\ holder = None
    /\ Reading(a) \/ pc[a] \in {"write", "next"}
    /\ holder' = a
    /\ step' = IF Reading(a) THEN "recover" ELSE "refresh"
    /\ UNCHANGED <<part, stored, tears, idx, actors, restart, backups, kernel,
                   journal, screens>>

CanRecover == androidSet = None /\ previous # None

\* Mistake, for the mutants: a read does not look for what was interrupted.
RecoverNothing(a) ==
    /\ holder = a
    /\ step = "recover"
    /\ step' = "refresh"
    /\ UNCHANGED <<part, stored, tears, holder, idx, actors, restart, backups,
                   kernel, journal, screens>>

(* recoverInterrupted: a power loss fell between the two renames. *)
Recover(a) ==
    /\ holder = a
    /\ step = "recover"
    /\ \/ /\ CanRecover /\ Writable
          /\ androidSet' = previous
          /\ previous' = None
       \/ /\ ~(CanRecover /\ Writable) \/ StepsFail
          /\ UNCHANGED <<androidSet, previous>>
    /\ step' = "refresh"
    /\ UNCHANGED <<part, linuxSet, tears, holder, idx, actors, restart, stage,
                   kernel, journal, screens>>

(* refresh returns true without a copy, or corrects the label only. *)
RefreshKept(a) ==
    /\ holder = a
    /\ step = "refresh"
    /\ ~Ambiguous
    /\ LinuxStaged \/ (~Mixed /\ Unchanged)
    /\ step' = "ready"
    /\ UNCHANGED <<part, stored, tears, holder, idx, actors, restart, backups,
                   kernel, journal, screens>>

(* It returns false: nothing to compare, a mixed chain, a label or a copy  *)
(* that cannot be written, a kernel that is not the one running.           *)
RefreshRefused(a) ==
    /\ holder = a
    /\ step = "refresh"
    /\ \/ Ambiguous
       \/ Mixed
       \/ ~LinuxStaged /\ ~Writable
       \/ ~Unchanged /\ ~LinuxStaged /\ part[1] # kernel
       \/ StepsFail
    /\ step' = "refused"
    /\ UNCHANGED <<part, stored, tears, holder, idx, actors, restart, backups,
                   kernel, journal, screens>>

RefreshCopies(a) ==
    /\ holder = a
    /\ step = "refresh"
    /\ ~Ambiguous /\ ~LinuxStaged /\ ~Mixed /\ ~Unchanged
    /\ Writable
    /\ KernelRuns
    /\ step' = "copy"
    /\ UNCHANGED <<part, stored, tears, holder, idx, actors, restart, backups,
                   kernel, journal, screens>>

(* The four partitions are copied, and the copies compared with the hashes *)
(* taken before and with the partitions again.                             *)
CopyPartitions(a) ==
    /\ holder = a
    /\ step = "copy"
    /\ stage' = part
    /\ step' = "discard"
    /\ UNCHANGED <<part, stored, tears, holder, idx, actors, restart, previous,
                   kernel, journal, screens>>

(* rm -rf of the copy before last, which is not one step. *)
DiscardPrevious(a) ==
    /\ holder = a
    /\ step = "discard"
    /\ \/ previous # None /\ previous' = Partial /\ UNCHANGED step
       \/ previous' = None /\ step' = "aside"
    /\ UNCHANGED <<part, stored, tears, holder, idx, actors, restart, stage,
                   kernel, journal, screens>>

\* Mistake, for the mutants: the old set is removed and not put aside.
RemoveOld(a) ==
    /\ holder = a
    /\ step = "aside"
    /\ androidSet' = None
    /\ step' = "install"
    /\ UNCHANGED <<part, linuxSet, tears, holder, idx, actors, restart, backups,
                   kernel, journal, screens>>

SetAside(a) ==
    /\ holder = a
    /\ step = "aside"
    /\ previous' = androidSet
    /\ androidSet' = None
    /\ step' = "install"
    /\ UNCHANGED <<part, linuxSet, tears, holder, idx, actors, restart, stage,
                   kernel, journal, screens>>

Install(a) ==
    /\ holder = a
    /\ step = "install"
    /\ androidSet' = stage
    /\ stage' = None
    /\ step' = "ready"
    /\ UNCHANGED <<part, linuxSet, tears, holder, idx, actors, restart, previous,
                   kernel, journal, screens>>

(* A command of the script fails; its trap puts the old set back. *)
ScriptFails(a) ==
    /\ StepsFail
    /\ holder = a
    /\ step \in {"copy", "discard", "aside", "install"}
    /\ IF CanRecover
         THEN androidSet' = previous /\ previous' = None
         ELSE UNCHANGED <<androidSet, previous>>
    /\ step' = "refused"
    /\ UNCHANGED <<part, linuxSet, tears, holder, idx, actors, restart, stage,
                   kernel, journal, screens>>

-----------------------------------------------------------------------------
(* Leaving the monitor. *)

(* BootState.read: whatever the refresh answered, the screen is told what  *)
(* the partitions are; they may have been unreadable.                      *)
ReadEnd(a) ==
    /\ holder = a
    /\ Reading(a)
    /\ step \in {"ready", "refused"}
    /\ Release
    /\ \E found \in {Identify} \cup (IF StepsFail THEN {"none"} ELSE {}) :
         \/ /\ a = "app"
            /\ next' = found
            /\ seen' = androidSet
            /\ UNCHANGED staged
         \/ /\ a = "tile"
            /\ staged' = (found = "linux" /\ androidSet # None)
            /\ UNCHANGED <<next, seen>>
         \/ /\ a = "job"
            /\ UNCHANGED screens
    /\ \/ pc[a] = "read" /\ End(a)
       \/ pc[a] = "tap" /\ Begin(a, "confirm") /\ UNCHANGED <<goal, reboot>>
    /\ UNCHANGED <<part, stored, tears, ordering, restart, backups, kernel,
                   journal>>

(* write looks the set up again: it must be complete and have the hashes   *)
(* the caller was shown.                                                   *)
Fresh(a) ==
    goal[a] = "android" => Complete(androidSet) /\ seen = androidSet

WriteBegin(a) ==
    /\ holder = a
    /\ pc[a] = "write"
    /\ step = "ready"
    /\ Fresh(a)
    /\ step' = "write"
    /\ UNCHANGED <<part, stored, tears, holder, idx, actors, restart, backups,
                   kernel, journal, screens>>

(* write returned false: the app keeps what it showed, the tile reads again. *)
WriteStops(a) ==
    /\ holder = a
    /\ pc[a] = "write"
    /\ \/ step \in {"refused", "failed"}
       \/ step = "ready" /\ ~Fresh(a)
    /\ Release
    /\ \/ a # "tile" /\ End(a)
       \/ a = "tile" /\ Begin(a, "read") /\ UNCHANGED <<goal, reboot>>
    /\ UNCHANGED <<part, stored, tears, ordering, restart, backups, kernel,
                   journal, screens>>

(* write returned true, and with it the monitor is free: the tile restarts, *)
(* the app goes on with what it shows (AppWrote).                          *)
WriteDone(a) ==
    /\ holder = a
    /\ pc[a] = "write"
    /\ step = "done"
    /\ Release
    /\ \/ a # "app" /\ End(a) /\ SetsOut(a)
       \/ a = "app" /\ Begin(a, "wrote") /\ UNCHANGED <<goal, reboot, ordering>>
    /\ UNCHANGED <<part, stored, tears, restart, backups, kernel, journal,
                   screens>>

\* Mistake, for the mutants: the restart does not wait for beforeSwitch's verdict.
NextEndAnyway(a) ==
    /\ holder = a
    /\ pc[a] = "next"
    /\ step \in {"ready", "refused"}
    /\ restart' = goal[a]
    /\ Release
    /\ End(a)
    /\ UNCHANGED <<part, stored, tears, ordering, backups, kernel, journal,
                   screens>>

(* A restart without a write, once beforeSwitch allows it, is ordered      *)
(* before the monitor is left.                                             *)
NextEnd(a) ==
    /\ holder = a
    /\ pc[a] = "next"
    /\ \/ step = "ready" /\ restart' = goal[a]
       \/ step = "refused" /\ UNCHANGED restart
    /\ Release
    /\ End(a)
    /\ UNCHANGED <<part, stored, tears, ordering, backups, kernel, journal,
                   screens>>

Locked(a) ==
    \/ Enter(a)
    \/ Recover(a)
    \/ RefreshKept(a)
    \/ RefreshRefused(a)
    \/ RefreshCopies(a)
    \/ CopyPartitions(a)
    \/ DiscardPrevious(a)
    \/ SetAside(a)
    \/ Install(a)
    \/ ScriptFails(a)
    \/ ReadEnd(a)
    \/ WriteBegin(a)
    \/ WriteStep(a) /\ UNCHANGED <<backups, kernel, journal, screens>>
    \/ WriteStops(a)
    \/ WriteDone(a)
    \/ NextEnd(a)

AndroidStep ==
    \/ AppRefresh
    \/ \E set \in Sets, then \in BOOLEAN : AppWrite(set, then)
    \/ AppRestart
    \/ \E what \in {"read", "tap"} : TileRead(what)
    \/ TileSwitch
    \/ TileDismiss
    \/ AppWrote
    \/ Order /\ UNCHANGED <<backups, kernel, journal, screens>>
    \/ JobStart
    \/ \E a \in AndroidActors : Locked(a)
=============================================================================
