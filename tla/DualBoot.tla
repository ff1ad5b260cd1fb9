------------------------------ MODULE DualBoot ------------------------------
(***************************************************************************)
(* The tablet with its two systems: AndroidSwitcher runs while Android is  *)
(* up, UbuntuSwitcher while Ubuntu is, and between them the machine goes   *)
(* down, is switched off in the middle of anything, is updated, and starts *)
(* whatever the boot partition holds.                                      *)
(*                                                                         *)
(* A chain whose first partition is whole starts that kernel, whatever the *)
(* other partitions hold: whether it really gets far enough is not the     *)
(* program's to say.  One whose first partition is torn starts only TWRP,  *)
(* where the installation ZIP writes Ubuntu's boot images.                 *)
(***************************************************************************)
EXTENDS AndroidSwitcher, UbuntuSwitcher

CONSTANTS
    ReplayFails,  \* whether Android may fail to replay linuxroot's journal
    MaxCrashes,   \* bound on the power losses
    MaxBoots,     \* bound on the starts of a system
    MaxOtas,      \* bound on the updates Android gets
    MaxUpdates    \* bound on the updates Ubuntu gets

ASSUME DualBootAssumption ==
    /\ ReplayFails \in BOOLEAN
    /\ MaxCrashes \in Nat
    /\ MaxBoots \in Nat \ {0}
    /\ MaxOtas \in Nat
    /\ MaxUpdates \in Nat

VARIABLES
    installed,  \* the release of the Android in super
    up,         \* "android", "ubuntu" or "off"
    cause,      \* while off: the set the restart was asked for, or None
    crashes, boots, otas, updates

storage == <<part, androidSet, linuxSet, previous, stage>>
counters == <<crashes, boots, otas, updates>>
vars == <<storage, tears, holder, step, idx, actors, restart, kernel, journal,
          screens, pending, installed, up, cause, counters>>

Init ==
    /\ installed \in Androids
    /\ androidSet = Whole(installed)
    /\ \E l \in Linuxes : linuxSet = Whole(l)
    /\ part \in {androidSet, linuxSet}
    /\ previous = None
    /\ stage = None
    /\ tears = 0
    /\ holder = None
    /\ step = "idle"
    /\ idx = 1
    /\ pc = [a \in Actors |-> "idle"]
    /\ goal = [a \in Actors |-> "linux"]
    /\ reboot = [a \in Actors |-> FALSE]
    /\ ordering = {}
    /\ restart = None
    /\ kernel = installed
    /\ journal = "clean"
    /\ next = "unread"
    /\ seen = None
    /\ staged = FALSE
    /\ pending = FALSE
    /\ up = "off"
    /\ cause = None
    /\ crashes = 0
    /\ boots = 0
    /\ otas = 0
    /\ updates = 0

-----------------------------------------------------------------------------
(* Everything that is in memory goes.  The bound on the starts bounds the  *)
(* stops: the machine never stays down.                                    *)
Halt ==
    /\ up # "off"
    /\ boots < MaxBoots
    /\ up' = "off"
    /\ Release
    /\ pc' = [a \in Actors |-> "idle"]
    /\ goal' = [a \in Actors |-> "linux"]
    /\ reboot' = [a \in Actors |-> FALSE]
    /\ ordering' = {}
    /\ restart' = None
    /\ next' = "unread"
    /\ seen' = None
    /\ staged' = FALSE
    /\ TornNow => tears < MaxTears
    /\ tears' = tears + (IF TornNow THEN 1 ELSE 0)

(* A commanded restart takes effect.  What runs goes on until it does. *)
Shutdown ==
    /\ restart # None
    /\ Halt
    /\ cause' = restart
    /\ UNCHANGED <<storage, kernel, journal, pending, installed, counters>>

(* The power menu. *)
UserRestart ==
    /\ holder = None
    /\ Halt
    /\ cause' = None
    /\ UNCHANGED <<storage, kernel, journal, pending, installed, counters>>

PowerLoss ==
    /\ crashes < MaxCrashes
    /\ Halt
    /\ cause' = None
    /\ journal' = "dirty"
    /\ crashes' = crashes + 1
    /\ UNCHANGED <<storage, kernel, pending, installed, boots, otas, updates>>

BootAndroid ==
    /\ up = "off"
    /\ boots < MaxBoots
    /\ part[1] \in Androids
    /\ up' = "android"
    /\ kernel' = part[1]
    /\ \/ journal' = "clean"
       \/ ReplayFails /\ journal # "clean" /\ journal' = "noload"
    /\ pc' = [a \in Actors |-> IF a = "job" THEN "due" ELSE "idle"]
    /\ cause' = None
    /\ boots' = boots + 1
    /\ UNCHANGED <<storage, tears, lock, goal, reboot, ordering, restart, screens,
                   pending, installed, crashes, otas, updates>>

BootUbuntu ==
    /\ up = "off"
    /\ boots < MaxBoots
    /\ part[1] \in Linuxes
    /\ ~pending
    /\ up' = "ubuntu"
    /\ journal' = "clean"
    /\ cause' = None
    /\ boots' = boots + 1
    /\ UNCHANGED <<storage, tears, lock, actors, restart, kernel, screens, pending,
                   installed, crashes, otas, updates>>

(* The updater's offline run, in one step: it succeeds, or it leaves what  *)
(* there was.  UpdateTransaction has its steps.                            *)
RunUpdate ==
    /\ up = "off"
    /\ part[1] \in Linuxes
    /\ pending
    /\ pending' = FALSE
    /\ journal' = "clean"
    /\ cause' = None
    /\ \/ /\ updates < MaxUpdates
          /\ \E l \in Linuxes \ {linuxSet[1]} : part' = Whole(l) /\ linuxSet' = Whole(l)
          /\ updates' = updates + 1
       \/ UNCHANGED <<part, linuxSet, updates>>
    /\ UNCHANGED <<androidSet, backups, tears, lock, actors, restart, kernel,
                   screens, installed, up, crashes, boots, otas>>

(* Android updates itself: it restarts into recovery, which writes super   *)
(* and the whole boot chain.                                               *)
Ota ==
    /\ up = "android"
    /\ holder = None
    /\ otas < MaxOtas
    /\ Halt
    /\ installed' \in Androids \ {installed}
    /\ part' = Whole(installed')
    /\ cause' = None
    /\ otas' = otas + 1
    /\ UNCHANGED <<stored, backups, kernel, journal, pending, crashes, boots,
                   updates>>

(* The installation ZIP, from TWRP. *)
Rescue ==
    /\ up = "off"
    /\ part[1] \in Torns
    /\ part' = linuxSet
    /\ cause' = None
    /\ UNCHANGED <<stored, backups, tears, lock, actors, restart, kernel, journal,
                   screens, pending, installed, up, counters>>

machine == <<installed, up, cause, counters>>

Android == up = "android" /\ AndroidStep /\ UNCHANGED <<pending, machine>>

Ubuntu ==
    up = "ubuntu" /\ UbuntuStep
        /\ UNCHANGED <<backups, kernel, journal, screens, machine>>

Next ==
    \/ Android
    \/ Ubuntu
    \/ Shutdown
    \/ UserRestart
    \/ PowerLoss
    \/ BootAndroid
    \/ BootUbuntu
    \/ RunUpdate
    \/ Ota
    \/ Rescue

Spec == Init /\ [][Next]_vars

(* The machine is started when it is down, a job that is due runs, and     *)
(* what holds or wants the lock goes on.  Nobody has to tap or to restart. *)
Fairness ==
    /\ WF_vars(BootAndroid)
    /\ WF_vars(BootUbuntu)
    /\ WF_vars(RunUpdate)
    /\ WF_vars(Rescue)
    /\ WF_vars(up = "android" /\ JobStart /\ UNCHANGED <<pending, machine>>)
    /\ \A a \in {"app", "restart", "tile", "job"} :
        WF_vars(/\ up = "android"
                /\ a \in AndroidActors
                /\ Locked(a)
                /\ UNCHANGED <<pending, machine>>)

LiveSpec == Spec /\ Fairness

-----------------------------------------------------------------------------
(* The types of the state. *)
ImagesOK ==
    /\ part \in Full
    /\ linuxSet \in Full
    /\ stage \in Full \cup {None}
    /\ {androidSet, previous, seen} \subseteq Directory

NumbersOK ==
    /\ idx \in Parts
    /\ tears \in 0 .. MaxTears
    /\ crashes \in 0 .. MaxCrashes
    /\ boots \in 0 .. MaxBoots
    /\ otas \in 0 .. MaxOtas
    /\ updates \in 0 .. MaxUpdates

NamesOK ==
    /\ holder \in Actors \cup {None}
    /\ step \in {"idle", "recover", "refresh", "copy", "discard", "aside", "install",
                 "ready", "refused", "write", "writing", "verify", "done", "failed"}
    /\ {restart, cause} \subseteq Sets \cup {None}
    /\ ordering \subseteq Sets
    /\ {kernel, installed} \subseteq Androids
    /\ journal \in {"clean", "dirty", "noload"}
    /\ next \in Sets \cup {"none", "unread"}
    /\ up \in {"android", "ubuntu", "off"}

ActorsOK ==
    /\ pc \in [Actors -> {"idle", "due", "read", "tap", "confirm", "write", "wrote", "next"}]
    /\ goal \in [Actors -> Sets]

FlagsOK ==
    /\ reboot \in [Actors -> BOOLEAN]
    /\ staged \in BOOLEAN
    /\ pending \in BOOLEAN

TypeOK == ImagesOK /\ NumbersOK /\ NamesOK /\ ActorsOK /\ FlagsOK

(* At every instant, so whenever the power may go, one complete Android    *)
(* set is in the directories, in its place or where recovery looks for it. *)
BackupReachable == Complete(androidSet) \/ (androidSet = None /\ Complete(previous))

(* No Linux image ever gets into the Android set, the copy kept of it or   *)
(* the copy being made, however switches, crashes, failures and updates of *)
(* both systems interleave.                                                *)
NoLinuxIn(directory) ==
    Complete(directory) => \A p \in Parts : directory[p] \notin Linuxes

LinuxNeverBackup ==
    NoLinuxIn(androidSet) /\ NoLinuxIn(previous) /\ NoLinuxIn(stage)

(* The boot chain of the Android that is installed is somewhere whole: on  *)
(* the partitions, in its set or in the copy before.  An update that       *)
(* replaced it is the only copy until a refresh: nothing may write over it.*)
AndroidKept == Whole(installed) \in {part, androidSet, previous}

(* A torn image is in the set a switch would write, or recovery bring back. *)
Current == IF androidSet = None THEN previous ELSE androidSet
TornBackup == \E p \in Parts : Current[p] \in Torns

(* A write that reports success has all four partitions of its set on the  *)
(* tablet at that moment, not only as each of them was read back.          *)
WrittenWhole == step = "done" => part = Stored(goal[holder])

(* While an update is prepared on the running Ubuntu, nothing of Ubuntu's  *)
(* touches the chain it was prepared against.                              *)
PendingHeld == [][up = "ubuntu" /\ pending /\ pending' => part' = part]_vars

(* Whoever restarts the tablet has, when it leaves the lock, a chain that  *)
(* one stored set accounts for, and if it wrote that chain itself, of the  *)
(* set it was asked for: a write that failed, here or in the switch before *)
(* it, is not restarted into, however old what the caller was told is      *)
(* (BootSwitchTile.kt:146, SwitcherViewModel.kt:127).                      *)
GoesOn(a) == pc'[a] = "wrote" \/ ordering' \ ordering # {}

RestartKnown ==
    [][\A a \in Actors : holder = a /\ holder' = None =>
          /\ GoesOn(a) => part = Stored(goal[a]) /\ Complete(Stored(goal[a]))
          /\ restart' \notin {None, restart} => Identify # "none"]_vars

(* What the code does not keep: a restart is commanded only while the whole *)
(* chain is that of the set it was asked for.                              *)
RestartChecked ==
    [][restart' \notin {None, restart} => Identify' = restart']_vars

(* A restart is never commanded on a chain with images of two releases or  *)
(* a torn one: a failure never reboots.                                    *)
RestartWhole ==
    [][restart' \notin {None, restart} =>
        \E r \in Androids \cup Linuxes : part' = Whole(r)]_vars

(* That chain is still there when the machine goes down: a restart never   *)
(* cuts into the next switch.                                              *)
RestartLands == cause \in Sets => Identify = cause

(* A set a power loss took out of its place comes back. *)
BackupReturns == androidSet = None ~> androidSet # None

(* The set follows the Android that updated itself: whatever restarts,     *)
(* power losses, switches and updates of Ubuntu come between, the job of   *)
(* the boot, the tile or the switch itself puts the chain that is on the   *)
(* partitions into it (BootRefreshJob.kt:14, BootSets.kt:295).             *)
BackupFollows ==
    \A r \in Androids :
        installed = r /\ part = Whole(r) ~> androidSet = Whole(r) \/ installed # r
=============================================================================
