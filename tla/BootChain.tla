------------------------------ MODULE BootChain ------------------------------
(***************************************************************************)
(* What the two sides of the dual boot share: the four boot partitions,    *)
(* the directories of stored images on linuxroot, and the loop that writes *)
(* one stored set and reads every partition back.  That loop is the same   *)
(* in both programs, BootSets.write in the Android app and write_set in    *)
(* boot_core.py, and each side runs it under its own lock; only one of the *)
(* two systems is ever up, so one lock and one program counter serve both. *)
(*                                                                         *)
(* Abstractions.  An image is the release it came from, or one of Torns    *)
(* while it is half written: two tears need not leave the same bytes, so   *)
(* there may be several.  Comparing hashes is comparing images.  Writes    *)
(* that returned are durable: both loops sync before they read back, and   *)
(* directory renames reach the journal in order.                           *)
(***************************************************************************)
EXTENDS Integers, FiniteSets

CONSTANTS
    NumParts,   \* boot, init_boot, vendor_boot, dtbo: written in order
    Androids,   \* releases of the Android that owns super
    Linuxes,    \* releases of the Ubuntu boot images
    Torns,      \* contents of a partition whose write did not end
    None,       \* no directory, no set, nothing asked
    Partial,    \* a directory that lost some of its images
    Actors,     \* who can switch: see AndroidActors and UbuntuActors
    StepsFail,  \* whether a shell command or a write may fail
    TornKernel, \* whether a torn boot image may still show its kernel's version
    MaxTears    \* bound on the writes that end half way

Parts == 1 .. NumParts
Image == Androids \cup Linuxes \cup Torns
Full == [Parts -> Image]
Directory == Full \cup {None, Partial}
Sets == {"android", "linux"}
AndroidActors == Actors \cap {"app", "restart", "tile", "job"}
UbuntuActors == Actors \cap {"page", "toggle"}

ASSUME ChainAssumption ==
    /\ NumParts \in Nat \ {0}
    /\ MaxTears \in Nat
    /\ StepsFail \in BOOLEAN
    /\ TornKernel \in BOOLEAN
    /\ Androids \cap Linuxes = {}
    /\ Androids \cap Torns = {}
    /\ Linuxes \cap Torns = {}
    /\ None \notin Image \cup Full \cup Sets \cup Actors \cup {Partial}
    /\ Partial \notin Image \cup Full
    /\ Actors \subseteq {"app", "restart", "tile", "job", "page", "toggle"}

VARIABLES
    \* On storage.
    part,        \* what each boot partition holds
    androidSet,  \* gts9u-boot-sets/<Android's id>
    linuxSet,    \* gts9u-boot-sets/ubuntu
    tears,       \* how many writes ended half way
    \* The lock of the system that is up, and the work done under it.
    holder,      \* who holds it
    step,        \* where the holder is
    idx,         \* the partition it is at
    \* Each actor.
    pc,          \* what it is doing
    goal,        \* the set it was asked for
    reboot,      \* whether it restarts afterwards
    ordering,    \* what those who let the lock go are about to restart into
    restart      \* the set a commanded restart was asked for

stored == <<androidSet, linuxSet>>
lock == <<holder, step, idx>>
actors == <<pc, goal, reboot, ordering>>

Whole(release) == [p \in Parts |-> release]
Stored(set) == IF set = "android" THEN androidSet ELSE linuxSet
Complete(directory) == directory \in Full

(* Which stored set the live partitions are, if any. *)
Identify ==
    IF Complete(androidSet) /\ part = androidSet THEN "android"
    ELSE IF part = linuxSet THEN "linux" ELSE "none"

(* Leaving the lock. *)
Release == holder' = None /\ step' = "idle" /\ idx' = 1

(* What an actor was asked is gone when it is done. *)
End(a) ==
    /\ pc' = [pc EXCEPT ![a] = "idle"]
    /\ goal' = [goal EXCEPT ![a] = "linux"]
    /\ reboot' = [reboot EXCEPT ![a] = FALSE]

(* Its restart is still to be ordered: the lock is free by then, and what  *)
(* is left of the caller reads nothing any more.                           *)
SetsOut(a) ==
    ordering' = IF reboot[a] THEN ordering \cup {goal[a]} ELSE ordering

Order ==
    \E set \in ordering :
        /\ restart' = set
        /\ ordering' = ordering \ {set}
        /\ UNCHANGED <<part, stored, tears, lock, pc, goal, reboot>>

-----------------------------------------------------------------------------
Source(a) == Stored(goal[a])

(* Overwriting a partition: half way, it holds neither image.  Writing the *)
(* bytes that are already there changes nothing at any point.              *)
OpenPartition(a) ==
    /\ holder = a
    /\ step = "write"
    /\ \/ /\ Source(a)[idx] = part[idx]
          /\ UNCHANGED part
       \/ /\ Source(a)[idx] # part[idx]
          /\ \E torn \in Torns \ {part[idx]} : part' = [part EXCEPT ![idx] = torn]
    /\ step' = "writing"
    /\ UNCHANGED <<stored, tears, holder, idx, actors, restart>>

ClosePartition(a) ==
    /\ holder = a
    /\ step = "writing"
    /\ part' = [part EXCEPT ![idx] = Source(a)[idx]]
    /\ step' = "verify"
    /\ UNCHANGED <<stored, tears, holder, idx, actors, restart>>

(* The partition is read back and compared with the hash of its image. *)
VerifyPartition(a) ==
    /\ holder = a
    /\ step = "verify"
    /\ part[idx] = Source(a)[idx]
    /\ IF idx < NumParts
         THEN step' = "write" /\ idx' = idx + 1
         ELSE step' = "done" /\ UNCHANGED idx
    /\ UNCHANGED <<part, stored, tears, holder, actors, restart>>

(* The write fails before, during or after it, or reads back differently. *)
TornNow == step = "writing" /\ part[idx] \in Torns

PartitionFails(a) ==
    /\ StepsFail
    /\ holder = a
    /\ step \in {"write", "writing", "verify"}
    /\ TornNow => tears < MaxTears
    /\ tears' = tears + (IF TornNow THEN 1 ELSE 0)
    /\ step' = "failed"
    /\ UNCHANGED <<part, stored, holder, idx, actors, restart>>

WriteStep(a) ==
    \/ OpenPartition(a)
    \/ ClosePartition(a)
    \/ VerifyPartition(a)
    \/ PartitionFails(a)
=============================================================================
