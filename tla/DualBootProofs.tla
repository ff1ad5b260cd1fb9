--------------------------- MODULE DualBootProofs ---------------------------
(***************************************************************************)
(* What DualBoot guarantees for every number of partitions, releases and   *)
(* actors, and every bound on crashes, tears, starts and updates.          *)
(*                                                                         *)
(* The invariants of the runs are not inductive.  Lock says who may be at  *)
(* work and ties each program counter to the lock; Chain says how far the  *)
(* write has come; Backup follows the two renames; Linux says which images *)
(* can be where, and that a chain being copied has none of Linux's; Held   *)
(* says that a prepared update keeps the lock free; Known what a refresh   *)
(* that succeeded knows of the chain.  Kept says where the chain of the    *)
(* installed Android is while no second write has been torn, Traced what   *)
(* has become of it when it is lost.                                       *)
(***************************************************************************)
EXTENDS DualBoot, TLAPS

others == <<backups, kernel, journal, screens, pending, machine>>

(* Who holds the lock is at work, and only the write loop moves idx. *)
Lock ==
    /\ holder = None <=> step = "idle"
    /\ holder # None => pc[holder] \in {"read", "tap", "write", "next"}
    /\ up = "off" => holder = None
    /\ step \notin {"write", "writing", "verify", "done", "failed"} => idx = 1

(* The partitions before idx hold their images of a set that stays put. *)
Chain ==
    /\ step \in {"write", "writing", "verify", "done"} => Complete(Source(holder))
    /\ step \in {"write", "writing", "verify"} =>
         \A p \in Parts : p < idx => part[p] = Source(holder)[p]
    /\ step = "verify" => part[idx] = Source(holder)[idx]
    /\ step = "done" => \A p \in Parts : part[p] = Source(holder)[p]

(* The two renames of the backup transaction. *)
Backup ==
    /\ BackupReachable
    /\ step \in {"copy", "discard", "aside"} => Complete(androidSet)
    /\ step = "install" => androidSet = None /\ Complete(previous)
    /\ step \in {"discard", "aside", "install"} => Complete(stage)

(* A Linux image on a partition is the one of the stored Linux set.  It is *)
(* by this that a refresh recognises it, and a copy is without any.        *)
Linux ==
    /\ LinuxNeverBackup
    /\ \A p \in Parts : linuxSet[p] \in Linuxes
    /\ \A p \in Parts : part[p] \in Linuxes => part[p] = linuxSet[p]
    /\ step = "copy" => \A p \in Parts : part[p] \notin Linuxes

(* Nobody holds the lock of an Ubuntu that has an update prepared. *)
Held == up = "ubuntu" /\ pending => holder = None

(* A refresh copies the partitions as they are, and allows a switch only   *)
(* when the chain is that of a stored set.                                 *)
Known ==
    /\ step \in {"discard", "aside", "install"} => stage = part
    /\ step = "ready" => Identify # "none"

(* The chain of the Android that is installed.                             *)
Installed == Whole(installed)

(* Every partition holds an image of one of the stored sets, but for the   *)
(* one that is being written.                                              *)
Remnants ==
    \A p \in Parts :
        \/ part[p] \in {androidSet[p], linuxSet[p]}
        \/ step = "writing" /\ p = idx /\ part[p] \in Torns

(* An update has put it on the partitions, and no refresh has copied it yet. *)
Live ==
    /\ part = Installed /\ up # "ubuntu"
    /\ step \notin {"ready", "write", "writing", "verify", "done", "failed"}

(* Where it is kept while at most one write has been torn: in its set, on   *)
(* the partitions only, in the copy before while the set is away, or in the *)
(* copy before for good, once a torn chain was taken for it.  Until a write *)
(* has been torn the partitions hold only what a refresh recognises, so     *)
(* that nothing is copied; afterwards they do so again.                     *)
Kept ==
    /\ \/ androidSet = Installed /\ (tears > 0 \/ Remnants)
       \/ Live
       \/ androidSet = None /\ previous = Installed /\ tears > 0
       \/ /\ Complete(androidSet) /\ previous = Installed /\ tears > 0 /\ Remnants
          /\ step \notin {"copy", "discard", "aside"}
    /\ step \in {"copy", "discard", "aside", "install"} => tears > 0 \/ part = Installed

(* After any number of torn writes: it is on the partitions only, or the    *)
(* current set is it or has a torn image, and what no stored set accounts   *)
(* for on the partitions is torn.                                           *)
Accounted ==
    \A p \in Parts :
        \/ part[p] \in {Current[p], linuxSet[p]}
        \/ part[p] \in Torns /\ (tears > 0 \/ (step = "writing" /\ p = idx))

Traced ==
    \/ Live
    \/ (Current = Installed \/ (tears > 0 /\ TornBackup)) /\ Accounted

(* Every step keeps the types. *)
LEMMA TypeStep ==
    ASSUME TypeOK, Chain, [Next]_vars
    PROVE  TypeOK'
<1> USE ChainAssumption, DualBootAssumption DEF TypeOK, ImagesOK, NumbersOK, NamesOK, ActorsOK, FlagsOK, Parts, Sets, Image, Full, Directory, AndroidActors, UbuntuActors, Stored, Source, Whole, Complete
<1>1. ASSUME up = "android", AppRefresh, UNCHANGED <<pending, machine>>
      PROVE  TypeOK'
  BY <1>1, SMTT(20) DEF AppRefresh, Idle, Begin, stored, lock, actors, backups,
    screens, machine, counters, storage, others
<1>2. ASSUME up = "android", NEW set \in Sets, NEW then \in BOOLEAN,
             AppWrite(set, then), UNCHANGED <<pending, machine>>
      PROVE  TypeOK'
  BY <1>2 DEF AppWrite, Idle, Begin, stored, lock, actors, backups, screens,
    machine, counters, storage, others
<1>3. ASSUME up = "android", AppRestart, UNCHANGED <<pending, machine>>
      PROVE  TypeOK'
  BY <1>3 DEF AppRestart, Idle, Begin, stored, lock, actors, backups,
    screens, machine, counters, storage, others
<1>4. ASSUME up = "android", NEW what \in {"read", "tap"}, TileRead(what),
             UNCHANGED <<pending, machine>>
      PROVE  TypeOK'
  BY <1>4, SMTT(20) DEF TileRead, Idle, Begin, stored, lock, actors, backups, screens,
    machine, counters, storage, others
<1>5. ASSUME up = "android", TileSwitch, UNCHANGED <<pending, machine>>
      PROVE  TypeOK'
  BY <1>5 DEF TileSwitch, Begin, stored, lock, actors, backups, screens,
    machine, counters, storage, others
<1>6. ASSUME up = "android", TileDismiss, UNCHANGED <<pending, machine>>
      PROVE  TypeOK'
  BY <1>6, SMTT(20) DEF TileDismiss, Begin, stored, lock, actors, backups, screens,
    machine, counters, storage, others
<1>7. ASSUME up = "android", JobStart, UNCHANGED <<pending, machine>>
      PROVE  TypeOK'
  BY <1>7, SMTT(20) DEF JobStart, Begin, stored, lock, actors, backups, screens,
    machine, counters, storage, others
<1>8. ASSUME up = "android", NEW a \in AndroidActors, Enter(a),
             UNCHANGED <<pending, machine>>
      PROVE  TypeOK'
  BY <1>8 DEF Enter, Reading, stored, lock, actors, backups, screens,
    machine, counters, storage, others
<1>9. ASSUME up = "android", NEW a \in AndroidActors, Recover(a),
             UNCHANGED <<pending, machine>>
      PROVE  TypeOK'
  BY <1>9 DEF Recover, CanRecover, Writable, stored, lock, actors, backups,
    screens, machine, counters, storage, others
<1>10. ASSUME up = "android", NEW a \in AndroidActors, RefreshKept(a),
             UNCHANGED <<pending, machine>>
      PROVE  TypeOK'
  BY <1>10 DEF RefreshKept, stored, lock, actors, backups, screens, machine,
    counters, storage, others
<1>11. ASSUME up = "android", NEW a \in AndroidActors, RefreshRefused(a),
             UNCHANGED <<pending, machine>>
      PROVE  TypeOK'
  BY <1>11 DEF RefreshRefused, stored, lock, actors, backups, screens,
    machine, counters, storage, others
<1>12. ASSUME up = "android", NEW a \in AndroidActors, RefreshCopies(a),
             UNCHANGED <<pending, machine>>
      PROVE  TypeOK'
  BY <1>12 DEF RefreshCopies, stored, lock, actors, backups, screens,
    machine, counters, storage, others
<1>13. ASSUME up = "android", NEW a \in AndroidActors, CopyPartitions(a),
             UNCHANGED <<pending, machine>>
      PROVE  TypeOK'
  BY <1>13 DEF CopyPartitions, stored, lock, actors, backups, screens,
    machine, counters, storage, others
<1>14. ASSUME up = "android", NEW a \in AndroidActors, DiscardPrevious(a),
             UNCHANGED <<pending, machine>>
      PROVE  TypeOK'
  BY <1>14, SMTT(20) DEF DiscardPrevious, stored, lock, actors, backups, screens,
    machine, counters, storage, others
<1>15. ASSUME up = "android", NEW a \in AndroidActors, SetAside(a),
             UNCHANGED <<pending, machine>>
      PROVE  TypeOK'
  BY <1>15 DEF SetAside, stored, lock, actors, backups, screens, machine,
    counters, storage, others
<1>16. ASSUME up = "android", NEW a \in AndroidActors, Install(a),
             UNCHANGED <<pending, machine>>
      PROVE  TypeOK'
  BY <1>16 DEF Install, stored, lock, actors, backups, screens, machine,
    counters, storage, others
<1>17. ASSUME up = "android", NEW a \in AndroidActors, ScriptFails(a),
             UNCHANGED <<pending, machine>>
      PROVE  TypeOK'
  BY <1>17, SMTT(20) DEF ScriptFails, CanRecover, stored, lock, actors, backups,
    screens, machine, counters, storage, others
<1>18. ASSUME up = "android", NEW a \in AndroidActors, ReadEnd(a),
   UNCHANGED <<pending, machine>>
      PROVE  TypeOK'
  <2>1. ImagesOK'
    BY <1>18, SMTT(20) DEF ReadEnd, Release, End, Begin, Reading, stored, lock, actors,
       backups, screens, machine, counters, storage, others
  <2>2. NumbersOK'
    BY <1>18 DEF ReadEnd, Release, End, Begin, Reading, stored, lock, actors,
       backups, screens, machine, counters, storage, others
  <2>3. NamesOK'
    <3>1. Identify \in Sets \cup {"none"}
      BY DEF Identify
    <3>2. next' \in Sets \cup {"none", "unread"}
      BY <1>18, <3>1 DEF ReadEnd, screens
    <3>3. QED
      BY <1>18, <3>2 DEF ReadEnd, Release, machine
  <2>4. ActorsOK'
    <3>1. pc' \in [Actors -> {"idle", "due", "read", "tap", "confirm", "write", "wrote", "next"}]
      BY <1>18 DEF ReadEnd, End, Begin
    <3>2. goal' \in [Actors -> Sets]
      BY <1>18, SMTT(20) DEF ReadEnd, End, Sets
    <3>3. QED
      BY <3>1, <3>2
  <2>5. FlagsOK'
    <3>1. reboot' \in [Actors -> BOOLEAN]
      BY <1>18, ZenonT(30) DEF ReadEnd, End
    <3>2. QED
      BY <1>18, <3>1 DEF ReadEnd, screens, machine
  <2>6. QED
    BY <2>1, <2>2, <2>3, <2>4, <2>5
<1>19. ASSUME up = "android", NEW a \in AndroidActors, WriteBegin(a),
             UNCHANGED <<pending, machine>>
      PROVE  TypeOK'
  BY <1>19 DEF WriteBegin, stored, lock, actors, backups, screens, machine,
    counters, storage, others
<1>20. ASSUME up = "android", NEW a \in AndroidActors, WriteStops(a),
   UNCHANGED <<pending, machine>>
      PROVE  TypeOK'
  <2>1. ImagesOK'
    BY <1>20 DEF WriteStops, Release, End, Begin, stored, lock, actors,
       backups, screens, machine, counters, storage, others
  <2>2. NumbersOK'
    BY <1>20 DEF WriteStops, Release, End, Begin, stored, lock, actors,
       backups, screens, machine, counters, storage, others
  <2>3. NamesOK'
    BY <1>20 DEF WriteStops, Release, End, Begin, stored, lock, actors,
       backups, screens, machine, counters, storage, others
  <2>4. ActorsOK'
    <3>1. pc' \in [Actors -> {"idle", "due", "read", "tap", "confirm", "write", "wrote", "next"}]
      BY <1>20, SMTT(20) DEF WriteStops, End, Begin
    <3>2. goal' \in [Actors -> Sets]
      BY <1>20, SMTT(20) DEF WriteStops, End, Sets
    <3>3. QED
      BY <3>1, <3>2
  <2>5. FlagsOK'
    <3>1. reboot' \in [Actors -> BOOLEAN]
      BY <1>20, ZenonT(30) DEF WriteStops, End
    <3>2. QED
      BY <1>20, <3>1 DEF WriteStops, screens, machine
  <2>6. QED
    BY <2>1, <2>2, <2>3, <2>4, <2>5
<1>21. ASSUME up = "android", NEW a \in AndroidActors, WriteDone(a),
             UNCHANGED <<pending, machine>>
      PROVE  TypeOK'
  <2>0. /\ UNCHANGED <<part, stored, backups, tears>>
        /\ UNCHANGED <<restart, kernel, journal, screens, pending, machine>>
    BY <1>21 DEF WriteDone
  <2>1. ImagesOK'
    BY <2>0 DEF stored, backups, screens
  <2>2. NumbersOK'
    BY <1>21, <2>0 DEF WriteDone, Release, machine, counters
  <2>3. NamesOK'
    <3>1. ordering' \subseteq Sets
      BY <1>21, SMTT(20) DEF WriteDone, SetsOut
    <3>2. holder' = None /\ step' = "idle"
      BY <1>21 DEF WriteDone, Release
    <3>3. QED
      BY <2>0, <3>1, <3>2 DEF screens, machine
  <2>4. ActorsOK'
    <3>1. pc' \in [Actors -> {"idle", "due", "read", "tap", "confirm", "write", "wrote", "next"}]
      BY <1>21, SMTT(20) DEF WriteDone, End, Begin
    <3>2. goal' \in [Actors -> Sets]
      BY <1>21 DEF WriteDone, End, Sets
    <3>3. QED
      BY <3>1, <3>2
  <2>5. FlagsOK'
    <3>1. reboot' \in [Actors -> BOOLEAN]
      BY <1>21, ZenonT(30) DEF WriteDone, End
    <3>2. QED
      BY <1>21, <3>1 DEF WriteDone, screens, machine
  <2>6. QED
    BY <2>1, <2>2, <2>3, <2>4, <2>5
<1>22. ASSUME up = "android", NEW a \in AndroidActors, NextEnd(a),
             UNCHANGED <<pending, machine>>
      PROVE  TypeOK'
  BY <1>22, SMTT(20) DEF NextEnd, Release, End, stored, lock, actors, backups, screens,
    machine, counters, storage, others
<1>23. ASSUME NEW a \in Actors, OpenPartition(a), UNCHANGED others
      PROVE  TypeOK'
  <2>1. ImagesOK'
    <3>1. part' \in [Parts -> Image]
      <4>1. CASE part' = part
        BY <4>1
      <4>2. CASE \E torn \in Torns \ {part[idx]} : part' = [part EXCEPT ![idx] = torn]
        <5>1. PICK torn \in Torns : part' = [part EXCEPT ![idx] = torn]
          BY <4>2
        <5>2. QED
          BY <5>1
      <4>3. QED
        BY <1>23, <4>1, <4>2 DEF OpenPartition
    <3>2. QED
      BY <1>23, <3>1 DEF OpenPartition, stored, others, backups, screens
  <2>2. NumbersOK'
    BY <1>23 DEF OpenPartition, stored, lock, actors, backups, screens,
       machine, counters, storage, others
  <2>3. NamesOK'
    BY <1>23 DEF OpenPartition, stored, lock, actors, backups, screens,
       machine, counters, storage, others
  <2>4. ActorsOK'
    BY <1>23 DEF OpenPartition, stored, lock, actors, backups, screens,
       machine, counters, storage, others
  <2>5. FlagsOK'
    BY <1>23 DEF OpenPartition, stored, lock, actors, backups, screens,
       machine, counters, storage, others
  <2>6. QED
    BY <2>1, <2>2, <2>3, <2>4, <2>5
<1>24. ASSUME NEW a \in Actors, ClosePartition(a), UNCHANGED others
      PROVE  TypeOK'
  <2>1. ImagesOK'
    <3>1. Source(a) \in [Parts -> Image]
      BY <1>24 DEF ClosePartition, Chain
    <3>2. part' \in [Parts -> Image]
      <4> HIDE DEF Source
      <4> QED
        BY <1>24, <3>1 DEF ClosePartition
    <3>3. QED
      BY <1>24, <3>2 DEF ClosePartition, stored, others, backups, screens
  <2>2. NumbersOK'
    BY <1>24 DEF ClosePartition, stored, lock, actors, backups, screens,
       machine, counters, storage, others
  <2>3. NamesOK'
    BY <1>24 DEF ClosePartition, stored, lock, actors, backups, screens,
       machine, counters, storage, others
  <2>4. ActorsOK'
    BY <1>24 DEF ClosePartition, stored, lock, actors, backups, screens,
       machine, counters, storage, others
  <2>5. FlagsOK'
    BY <1>24 DEF ClosePartition, stored, lock, actors, backups, screens,
       machine, counters, storage, others
  <2>6. QED
    BY <2>1, <2>2, <2>3, <2>4, <2>5
<1>25. ASSUME NEW a \in Actors, VerifyPartition(a), UNCHANGED others
      PROVE  TypeOK'
  <2>1. ImagesOK'
    BY <1>25 DEF VerifyPartition, stored, lock, actors, backups, screens,
       machine, counters, storage, others
  <2>2. NumbersOK'
    BY <1>25, SMTT(20) DEF VerifyPartition, stored, lock, actors, backups, screens,
       machine, counters, storage, others
  <2>3. NamesOK'
    BY <1>25 DEF VerifyPartition, stored, lock, actors, backups, screens,
       machine, counters, storage, others
  <2>4. ActorsOK'
    BY <1>25 DEF VerifyPartition, stored, lock, actors, backups, screens,
       machine, counters, storage, others
  <2>5. FlagsOK'
    BY <1>25 DEF VerifyPartition, stored, lock, actors, backups, screens,
       machine, counters, storage, others
  <2>6. QED
    BY <2>1, <2>2, <2>3, <2>4, <2>5
<1>26. ASSUME NEW a \in Actors, PartitionFails(a), UNCHANGED others
      PROVE  TypeOK'
  BY <1>26, SMTT(20) DEF PartitionFails, TornNow, stored, lock, actors, backups,
    screens, machine, counters, storage, others
<1>27. ASSUME up = "ubuntu", NEW a \in UbuntuActors, NEW set \in Sets,
             NEW then \in BOOLEAN, Switch(a, set, then), UNCHANGED <<backups,
             kernel, journal, screens, machine>>
      PROVE  TypeOK'
  BY <1>27 DEF Switch, stored, lock, actors, backups, screens, machine,
    counters, storage, others
<1>28. ASSUME up = "ubuntu", NEW a \in UbuntuActors, SwitchDone(a),
             UNCHANGED <<backups, kernel, journal, screens, machine>>
      PROVE  TypeOK'
  BY <1>28 DEF SwitchDone, Release, End, SetsOut, stored, lock, actors, backups,
    screens, machine, counters, storage, others
<1>29. ASSUME up = "ubuntu", NEW a \in UbuntuActors, SwitchFailed(a),
             UNCHANGED <<backups, kernel, journal, screens, machine>>
      PROVE  TypeOK'
  BY <1>29 DEF SwitchFailed, Release, End, stored, lock, actors, backups,
    screens, machine, counters, storage, others
<1>30. ASSUME up = "ubuntu", Prepare, UNCHANGED <<backups, kernel, journal,
             screens, machine>>
      PROVE  TypeOK'
  BY <1>30 DEF Prepare, stored, lock, actors, backups, screens, machine,
    counters, storage, others
<1>31. ASSUME up = "ubuntu", Cancel, UNCHANGED <<backups, kernel, journal,
   screens, machine>>
      PROVE  TypeOK'
  <2>1. ImagesOK'
    BY <1>31 DEF Cancel, stored, lock, actors, backups, screens, machine,
       counters, storage, others
  <2>2. NumbersOK'
    BY <1>31 DEF Cancel, stored, lock, actors, backups, screens, machine,
       counters, storage, others
  <2>3. NamesOK'
    BY <1>31 DEF Cancel, stored, lock, actors, backups, screens, machine,
       counters, storage, others
  <2>4. ActorsOK'
    BY <1>31 DEF Cancel, stored, lock, actors, backups, screens, machine,
       counters, storage, others
  <2>5. FlagsOK'
    BY <1>31 DEF Cancel, stored, lock, actors, backups, screens, machine,
       counters, storage, others
  <2>6. QED
    BY <2>1, <2>2, <2>3, <2>4, <2>5
<1>32. ASSUME Shutdown
      PROVE  TypeOK'
  <2>1. ImagesOK'
    BY <1>32 DEF Shutdown, Halt, Release, TornNow, stored, lock, actors,
       backups, screens, machine, counters, storage, others
  <2>2. NumbersOK'
    BY <1>32 DEF Shutdown, Halt, Release, TornNow, stored, lock, actors,
       backups, screens, machine, counters, storage, others
  <2>3. NamesOK'
    BY <1>32 DEF Shutdown, Halt, Release, TornNow, stored, lock, actors,
       backups, screens, machine, counters, storage, others
  <2>4. ActorsOK'
    BY <1>32 DEF Shutdown, Halt, Release, TornNow, stored, lock, actors,
       backups, screens, machine, counters, storage, others
  <2>5. FlagsOK'
    BY <1>32 DEF Shutdown, Halt, Release, TornNow, stored, lock, actors,
       backups, screens, machine, counters, storage, others
  <2>6. QED
    BY <2>1, <2>2, <2>3, <2>4, <2>5
<1>33. ASSUME UserRestart
      PROVE  TypeOK'
  <2>1. ImagesOK'
    BY <1>33 DEF UserRestart, Halt, Release, TornNow, stored, lock, actors,
       backups, screens, machine, counters, storage, others
  <2>2. NumbersOK'
    BY <1>33, SMTT(20) DEF UserRestart, Halt, Release, TornNow, stored, lock, actors,
       backups, screens, machine, counters, storage, others
  <2>3. NamesOK'
    BY <1>33 DEF UserRestart, Halt, Release, TornNow, stored, lock, actors,
       backups, screens, machine, counters, storage, others
  <2>4. ActorsOK'
    BY <1>33 DEF UserRestart, Halt, Release, TornNow, stored, lock, actors,
       backups, screens, machine, counters, storage, others
  <2>5. FlagsOK'
    BY <1>33 DEF UserRestart, Halt, Release, TornNow, stored, lock, actors,
       backups, screens, machine, counters, storage, others
  <2>6. QED
    BY <2>1, <2>2, <2>3, <2>4, <2>5
<1>34. ASSUME PowerLoss
      PROVE  TypeOK'
  <2>1. ImagesOK'
    BY <1>34 DEF PowerLoss, Halt, Release, TornNow, stored, lock, actors,
       backups, screens, machine, counters, storage, others
  <2>2. NumbersOK'
    BY <1>34, SMTT(20) DEF PowerLoss, Halt, Release, TornNow, stored, lock, actors,
       backups, screens, machine, counters, storage, others
  <2>3. NamesOK'
    BY <1>34 DEF PowerLoss, Halt, Release, TornNow, stored, lock, actors,
       backups, screens, machine, counters, storage, others
  <2>4. ActorsOK'
    BY <1>34 DEF PowerLoss, Halt, Release, TornNow, stored, lock, actors,
       backups, screens, machine, counters, storage, others
  <2>5. FlagsOK'
    BY <1>34 DEF PowerLoss, Halt, Release, TornNow, stored, lock, actors,
       backups, screens, machine, counters, storage, others
  <2>6. QED
    BY <2>1, <2>2, <2>3, <2>4, <2>5
<1>35. ASSUME BootAndroid
      PROVE  TypeOK'
  <2>1. ImagesOK'
    BY <1>35 DEF BootAndroid, stored, lock, actors, backups, screens,
       machine, counters, storage, others
  <2>2. NumbersOK'
    BY <1>35, SMTT(20) DEF BootAndroid, stored, lock, actors, backups, screens,
       machine, counters, storage, others
  <2>3. NamesOK'
    BY <1>35 DEF BootAndroid, stored, lock, actors, backups, screens,
       machine, counters, storage, others
  <2>4. ActorsOK'
    BY <1>35 DEF BootAndroid, stored, lock, actors, backups, screens,
       machine, counters, storage, others
  <2>5. FlagsOK'
    BY <1>35 DEF BootAndroid, stored, lock, actors, backups, screens,
       machine, counters, storage, others
  <2>6. QED
    BY <2>1, <2>2, <2>3, <2>4, <2>5
<1>36. ASSUME BootUbuntu
      PROVE  TypeOK'
  <2>1. ImagesOK'
    BY <1>36 DEF BootUbuntu, stored, lock, actors, backups, screens, machine,
       counters, storage, others
  <2>2. NumbersOK'
    BY <1>36, SMTT(20) DEF BootUbuntu, stored, lock, actors, backups, screens, machine,
       counters, storage, others
  <2>3. NamesOK'
    BY <1>36 DEF BootUbuntu, stored, lock, actors, backups, screens, machine,
       counters, storage, others
  <2>4. ActorsOK'
    BY <1>36 DEF BootUbuntu, stored, lock, actors, backups, screens, machine,
       counters, storage, others
  <2>5. FlagsOK'
    BY <1>36 DEF BootUbuntu, stored, lock, actors, backups, screens, machine,
       counters, storage, others
  <2>6. QED
    BY <2>1, <2>2, <2>3, <2>4, <2>5
<1>37. ASSUME RunUpdate
      PROVE  TypeOK'
  <2>1. ImagesOK'
    BY <1>37, SMTT(20) DEF RunUpdate, stored, lock, actors, backups, screens, machine,
       counters, storage, others
  <2>2. NumbersOK'
    BY <1>37 DEF RunUpdate, stored, lock, actors, backups, screens, machine,
       counters, storage, others
  <2>3. NamesOK'
    BY <1>37 DEF RunUpdate, stored, lock, actors, backups, screens, machine,
       counters, storage, others
  <2>4. ActorsOK'
    BY <1>37 DEF RunUpdate, stored, lock, actors, backups, screens, machine,
       counters, storage, others
  <2>5. FlagsOK'
    BY <1>37 DEF RunUpdate, stored, lock, actors, backups, screens, machine,
       counters, storage, others
  <2>6. QED
    BY <2>1, <2>2, <2>3, <2>4, <2>5
<1>38. ASSUME Ota
      PROVE  TypeOK'
  <2>1. ImagesOK'
    BY <1>38, SMTT(20) DEF Ota, Halt, Release, TornNow, stored, lock, actors, backups,
       screens, machine, counters, storage, others
  <2>2. NumbersOK'
    BY <1>38, SMTT(20) DEF Ota, Halt, Release, TornNow, stored, lock, actors, backups,
       screens, machine, counters, storage, others
  <2>3. NamesOK'
    BY <1>38 DEF Ota, Halt, Release, TornNow, stored, lock, actors, backups,
       screens, machine, counters, storage, others
  <2>4. ActorsOK'
    BY <1>38 DEF Ota, Halt, Release, TornNow, stored, lock, actors, backups,
       screens, machine, counters, storage, others
  <2>5. FlagsOK'
    BY <1>38 DEF Ota, Halt, Release, TornNow, stored, lock, actors, backups,
       screens, machine, counters, storage, others
  <2>6. QED
    BY <2>1, <2>2, <2>3, <2>4, <2>5
<1>39. ASSUME Rescue
      PROVE  TypeOK'
  BY <1>39, SMTT(20) DEF Rescue, stored, lock, actors, backups, screens, machine,
    counters, storage, others
<1>40. ASSUME up = "android", AppWrote, UNCHANGED <<pending, machine>>
      PROVE  TypeOK'
  BY <1>40, SMTT(20) DEF AppWrote, SetsOut, End, stored, lock, actors, backups, screens,
    machine, counters, storage, others
<1>41. ASSUME Order, UNCHANGED others
      PROVE  TypeOK'
  BY <1>41 DEF Order, stored, lock, actors, backups, screens, machine, counters,
    storage, others
<1>42. CASE UNCHANGED vars
  BY <1>42 DEF vars, stored, lock, actors, backups, screens, machine, counters, storage, others
<1>43. Next => TypeOK'
  <2> HIDE DEF TypeOK, ImagesOK, NumbersOK, NamesOK, ActorsOK, FlagsOK, Parts, Sets, Image, Full, Directory, AndroidActors, UbuntuActors, Stored, Source, Whole, Complete
  <2>1. Android => TypeOK'
    BY <1>1, <1>2, <1>3, <1>4, <1>5, <1>6, <1>7, <1>8, <1>9, <1>10, <1>11, <1>12, <1>13, <1>14, <1>15, <1>16, <1>17, <1>18, <1>19, <1>20, <1>21, <1>22, <1>23, <1>24, <1>25, <1>26, <1>40, <1>41
    DEF Android, AndroidStep, Locked, WriteStep, AndroidActors, others
  <2>2. Ubuntu => TypeOK'
    BY <1>23, <1>24, <1>25, <1>26, <1>27, <1>28, <1>29, <1>30, <1>31, <1>41
    DEF Ubuntu, UbuntuStep, WriteStep, UbuntuActors, others
  <2>3. QED
    BY <2>1, <2>2, <1>32, <1>33, <1>34, <1>35, <1>36, <1>37, <1>38, <1>39 DEF Next
<1> QED
  BY <1>42, <1>43

(* Every step keeps the lock with who is at work. *)
LEMMA LockStep ==
    ASSUME TypeOK, Lock, [Next]_vars
    PROVE  Lock'
<1> USE ChainAssumption DEF Lock, TypeOK, NamesOK, ActorsOK, AndroidActors, UbuntuActors
<1>1. ASSUME up = "android", AppRefresh, UNCHANGED <<pending, machine>>
      PROVE  Lock'
  BY <1>1 DEF AppRefresh, Idle, Begin, stored, lock, actors, backups,
    screens, machine, counters, storage, others
<1>2. ASSUME up = "android", NEW set \in Sets, NEW then \in BOOLEAN,
             AppWrite(set, then), UNCHANGED <<pending, machine>>
      PROVE  Lock'
  BY <1>2 DEF AppWrite, Idle, Begin, stored, lock, actors, backups, screens,
    machine, counters, storage, others
<1>3. ASSUME up = "android", AppRestart, UNCHANGED <<pending, machine>>
      PROVE  Lock'
  BY <1>3 DEF AppRestart, Idle, Begin, stored, lock, actors, backups,
    screens, machine, counters, storage, others
<1>4. ASSUME up = "android", NEW what \in {"read", "tap"}, TileRead(what),
             UNCHANGED <<pending, machine>>
      PROVE  Lock'
  BY <1>4 DEF TileRead, Idle, Begin, stored, lock, actors, backups, screens,
    machine, counters, storage, others
<1>5. ASSUME up = "android", TileSwitch, UNCHANGED <<pending, machine>>
      PROVE  Lock'
  BY <1>5 DEF TileSwitch, Begin, stored, lock, actors, backups, screens,
    machine, counters, storage, others
<1>6. ASSUME up = "android", TileDismiss, UNCHANGED <<pending, machine>>
      PROVE  Lock'
  BY <1>6 DEF TileDismiss, Begin, stored, lock, actors, backups, screens,
    machine, counters, storage, others
<1>7. ASSUME up = "android", JobStart, UNCHANGED <<pending, machine>>
      PROVE  Lock'
  BY <1>7 DEF JobStart, Begin, stored, lock, actors, backups, screens,
    machine, counters, storage, others
<1>8. ASSUME up = "android", NEW a \in AndroidActors, Enter(a),
   UNCHANGED <<pending, machine>>
      PROVE  Lock'
  <2>1. a # None /\ a \in Actors
    BY ChainAssumption
  <2>2. pc[a] \in {"read", "tap", "write", "next"}
    BY <1>8 DEF Enter, Reading
  <2>3. step' \in {"recover", "refresh"}
    BY <1>8 DEF Enter
  <2>4. holder' = a /\ pc' = pc /\ idx' = idx /\ up' = up /\ step = "idle"
    BY <1>8 DEF Enter, actors, machine
  <2>5. QED
    BY <1>8, <2>1, <2>2, <2>3, <2>4
<1>9. ASSUME up = "android", NEW a \in AndroidActors, Recover(a),
             UNCHANGED <<pending, machine>>
      PROVE  Lock'
  BY <1>9 DEF Recover, CanRecover, Writable, stored, lock, actors, backups,
    screens, machine, counters, storage, others
<1>10. ASSUME up = "android", NEW a \in AndroidActors, RefreshKept(a),
             UNCHANGED <<pending, machine>>
      PROVE  Lock'
  BY <1>10 DEF RefreshKept, stored, lock, actors, backups, screens, machine,
    counters, storage, others
<1>11. ASSUME up = "android", NEW a \in AndroidActors, RefreshRefused(a),
             UNCHANGED <<pending, machine>>
      PROVE  Lock'
  BY <1>11 DEF RefreshRefused, stored, lock, actors, backups, screens,
    machine, counters, storage, others
<1>12. ASSUME up = "android", NEW a \in AndroidActors, RefreshCopies(a),
             UNCHANGED <<pending, machine>>
      PROVE  Lock'
  BY <1>12 DEF RefreshCopies, stored, lock, actors, backups, screens,
    machine, counters, storage, others
<1>13. ASSUME up = "android", NEW a \in AndroidActors, CopyPartitions(a),
             UNCHANGED <<pending, machine>>
      PROVE  Lock'
  BY <1>13 DEF CopyPartitions, stored, lock, actors, backups, screens,
    machine, counters, storage, others
<1>14. ASSUME up = "android", NEW a \in AndroidActors, DiscardPrevious(a),
             UNCHANGED <<pending, machine>>
      PROVE  Lock'
  BY <1>14 DEF DiscardPrevious, stored, lock, actors, backups, screens,
    machine, counters, storage, others
<1>15. ASSUME up = "android", NEW a \in AndroidActors, SetAside(a),
             UNCHANGED <<pending, machine>>
      PROVE  Lock'
  BY <1>15 DEF SetAside, stored, lock, actors, backups, screens, machine,
    counters, storage, others
<1>16. ASSUME up = "android", NEW a \in AndroidActors, Install(a),
             UNCHANGED <<pending, machine>>
      PROVE  Lock'
  BY <1>16 DEF Install, stored, lock, actors, backups, screens, machine,
    counters, storage, others
<1>17. ASSUME up = "android", NEW a \in AndroidActors, ScriptFails(a),
             UNCHANGED <<pending, machine>>
      PROVE  Lock'
  BY <1>17 DEF ScriptFails, CanRecover, stored, lock, actors, backups,
    screens, machine, counters, storage, others
<1>18. ASSUME up = "android", NEW a \in AndroidActors, ReadEnd(a),
             UNCHANGED <<pending, machine>>
      PROVE  Lock'
  BY <1>18 DEF ReadEnd, Release, End, Begin, Reading, stored, lock, actors,
    backups, screens, machine, counters, storage, others
<1>19. ASSUME up = "android", NEW a \in AndroidActors, WriteBegin(a),
             UNCHANGED <<pending, machine>>
      PROVE  Lock'
  BY <1>19 DEF WriteBegin, stored, lock, actors, backups, screens, machine,
    counters, storage, others
<1>20. ASSUME up = "android", NEW a \in AndroidActors, WriteStops(a),
             UNCHANGED <<pending, machine>>
      PROVE  Lock'
  BY <1>20 DEF WriteStops, Release, End, Begin, stored, lock, actors,
    backups, screens, machine, counters, storage, others
<1>21. ASSUME up = "android", NEW a \in AndroidActors, WriteDone(a),
             UNCHANGED <<pending, machine>>
      PROVE  Lock'
  BY <1>21 DEF WriteDone, Release, End, Begin, SetsOut, stored, lock, actors, backups,
    screens, machine, counters, storage, others
<1>22. ASSUME up = "android", NEW a \in AndroidActors, NextEnd(a),
             UNCHANGED <<pending, machine>>
      PROVE  Lock'
  BY <1>22 DEF NextEnd, Release, End, stored, lock, actors, backups, screens,
    machine, counters, storage, others
<1>23. ASSUME NEW a \in Actors, OpenPartition(a), UNCHANGED others
      PROVE  Lock'
  BY <1>23 DEF OpenPartition, stored, lock, actors, backups, screens,
    machine, counters, storage, others
<1>24. ASSUME NEW a \in Actors, ClosePartition(a), UNCHANGED others
      PROVE  Lock'
  BY <1>24 DEF ClosePartition, stored, lock, actors, backups, screens,
    machine, counters, storage, others
<1>25. ASSUME NEW a \in Actors, VerifyPartition(a), UNCHANGED others
      PROVE  Lock'
  BY <1>25 DEF VerifyPartition, stored, lock, actors, backups, screens,
    machine, counters, storage, others
<1>26. ASSUME NEW a \in Actors, PartitionFails(a), UNCHANGED others
      PROVE  Lock'
  BY <1>26 DEF PartitionFails, TornNow, stored, lock, actors, backups,
    screens, machine, counters, storage, others
<1>27. ASSUME up = "ubuntu", NEW a \in UbuntuActors, NEW set \in Sets,
   NEW then \in BOOLEAN, Switch(a, set, then), UNCHANGED <<backups, kernel,
   journal, screens, machine>>
      PROVE  Lock'
  <2>1. a # None /\ a \in Actors
    BY ChainAssumption
  <2>2. holder' = a /\ step' = "write" /\ pc'[a] = "write" /\ up' = up
    BY <1>27, <2>1 DEF Switch, machine
  <2>3. up' # "off"
    BY <1>27, <2>2
  <2>4. QED
    BY <2>1, <2>2, <2>3
<1>28. ASSUME up = "ubuntu", NEW a \in UbuntuActors, SwitchDone(a),
             UNCHANGED <<backups, kernel, journal, screens, machine>>
      PROVE  Lock'
  BY <1>28 DEF SwitchDone, Release, End, SetsOut, stored, lock, actors, backups,
    screens, machine, counters, storage, others
<1>29. ASSUME up = "ubuntu", NEW a \in UbuntuActors, SwitchFailed(a),
             UNCHANGED <<backups, kernel, journal, screens, machine>>
      PROVE  Lock'
  BY <1>29 DEF SwitchFailed, Release, End, stored, lock, actors, backups,
    screens, machine, counters, storage, others
<1>30. ASSUME up = "ubuntu", Prepare, UNCHANGED <<backups, kernel, journal,
             screens, machine>>
      PROVE  Lock'
  BY <1>30 DEF Prepare, stored, lock, actors, backups, screens, machine,
    counters, storage, others
<1>31. ASSUME up = "ubuntu", Cancel, UNCHANGED <<backups, kernel, journal,
             screens, machine>>
      PROVE  Lock'
  BY <1>31 DEF Cancel, stored, lock, actors, backups, screens, machine,
    counters, storage, others
<1>32. ASSUME Shutdown
      PROVE  Lock'
  BY <1>32 DEF Shutdown, Halt, Release, TornNow, stored, lock, actors,
    backups, screens, machine, counters, storage, others
<1>33. ASSUME UserRestart
      PROVE  Lock'
  BY <1>33 DEF UserRestart, Halt, Release, TornNow, stored, lock, actors,
    backups, screens, machine, counters, storage, others
<1>34. ASSUME PowerLoss
      PROVE  Lock'
  BY <1>34 DEF PowerLoss, Halt, Release, TornNow, stored, lock, actors,
    backups, screens, machine, counters, storage, others
<1>35. ASSUME BootAndroid
      PROVE  Lock'
  BY <1>35 DEF BootAndroid, stored, lock, actors, backups, screens, machine,
    counters, storage, others
<1>36. ASSUME BootUbuntu
      PROVE  Lock'
  BY <1>36 DEF BootUbuntu, stored, lock, actors, backups, screens, machine,
    counters, storage, others
<1>37. ASSUME RunUpdate
      PROVE  Lock'
  BY <1>37 DEF RunUpdate, stored, lock, actors, backups, screens, machine,
    counters, storage, others
<1>38. ASSUME Ota
      PROVE  Lock'
  BY <1>38 DEF Ota, Halt, Release, TornNow, stored, lock, actors, backups,
    screens, machine, counters, storage, others
<1>39. ASSUME Rescue
      PROVE  Lock'
  BY <1>39 DEF Rescue, stored, lock, actors, backups, screens, machine,
    counters, storage, others
<1>40. ASSUME up = "android", AppWrote, UNCHANGED <<pending, machine>>
      PROVE  Lock'
  BY <1>40 DEF AppWrote, SetsOut, End, stored, lock, actors, backups, screens,
    machine, counters, storage, others
<1>41. ASSUME Order, UNCHANGED others
      PROVE  Lock'
  BY <1>41 DEF Order, stored, lock, actors, backups, screens, machine, counters,
    storage, others
<1>42. CASE UNCHANGED vars
  BY <1>42 DEF vars, stored, lock, actors, backups, screens, machine, counters, storage, others
<1>43. Next => Lock'
  <2> HIDE DEF Lock, TypeOK, NamesOK, ActorsOK, AndroidActors, UbuntuActors
  <2>1. Android => Lock'
    BY <1>1, <1>2, <1>3, <1>4, <1>5, <1>6, <1>7, <1>8, <1>9, <1>10, <1>11, <1>12, <1>13, <1>14, <1>15, <1>16, <1>17, <1>18, <1>19, <1>20, <1>21, <1>22, <1>23, <1>24, <1>25, <1>26, <1>40, <1>41
    DEF Android, AndroidStep, Locked, WriteStep, AndroidActors, others
  <2>2. Ubuntu => Lock'
    BY <1>23, <1>24, <1>25, <1>26, <1>27, <1>28, <1>29, <1>30, <1>31, <1>41
    DEF Ubuntu, UbuntuStep, WriteStep, UbuntuActors, others
  <2>3. QED
    BY <2>1, <2>2, <1>32, <1>33, <1>34, <1>35, <1>36, <1>37, <1>38, <1>39 DEF Next
<1> QED
  BY <1>42, <1>43

(* Every step keeps what is known of the write. *)
LEMMA ChainStep ==
    ASSUME TypeOK, Lock, Chain, [Next]_vars
    PROVE  Chain'
<1> USE ChainAssumption DEF Chain, Lock, TypeOK, ImagesOK, NumbersOK, NamesOK, ActorsOK, Parts, Sets, Image, Full, Directory, AndroidActors, UbuntuActors, Stored, Source, Whole, Complete
<1>1. ASSUME up = "android", AppRefresh, UNCHANGED <<pending, machine>>
      PROVE  Chain'
  BY <1>1 DEF AppRefresh, Idle, Begin, stored, lock, actors, backups,
    screens, machine, counters, storage, others
<1>2. ASSUME up = "android", NEW set \in Sets, NEW then \in BOOLEAN,
             AppWrite(set, then), UNCHANGED <<pending, machine>>
      PROVE  Chain'
  BY <1>2 DEF AppWrite, Idle, Begin, stored, lock, actors, backups, screens,
    machine, counters, storage, others
<1>3. ASSUME up = "android", AppRestart, UNCHANGED <<pending, machine>>
      PROVE  Chain'
  BY <1>3 DEF AppRestart, Idle, Begin, stored, lock, actors, backups,
    screens, machine, counters, storage, others
<1>4. ASSUME up = "android", NEW what \in {"read", "tap"}, TileRead(what),
             UNCHANGED <<pending, machine>>
      PROVE  Chain'
  BY <1>4 DEF TileRead, Idle, Begin, stored, lock, actors, backups, screens,
    machine, counters, storage, others
<1>5. ASSUME up = "android", TileSwitch, UNCHANGED <<pending, machine>>
      PROVE  Chain'
  BY <1>5 DEF TileSwitch, Begin, stored, lock, actors, backups, screens,
    machine, counters, storage, others
<1>6. ASSUME up = "android", TileDismiss, UNCHANGED <<pending, machine>>
      PROVE  Chain'
  BY <1>6 DEF TileDismiss, Begin, stored, lock, actors, backups, screens,
    machine, counters, storage, others
<1>7. ASSUME up = "android", JobStart, UNCHANGED <<pending, machine>>
      PROVE  Chain'
  BY <1>7 DEF JobStart, Begin, stored, lock, actors, backups, screens,
    machine, counters, storage, others
<1>8. ASSUME up = "android", NEW a \in AndroidActors, Enter(a),
             UNCHANGED <<pending, machine>>
      PROVE  Chain'
  BY <1>8 DEF Enter, Reading, stored, lock, actors, backups, screens,
    machine, counters, storage, others
<1>9. ASSUME up = "android", NEW a \in AndroidActors, Recover(a),
             UNCHANGED <<pending, machine>>
      PROVE  Chain'
  BY <1>9 DEF Recover, CanRecover, Writable, stored, lock, actors, backups,
    screens, machine, counters, storage, others
<1>10. ASSUME up = "android", NEW a \in AndroidActors, RefreshKept(a),
             UNCHANGED <<pending, machine>>
      PROVE  Chain'
  BY <1>10 DEF RefreshKept, stored, lock, actors, backups, screens, machine,
    counters, storage, others
<1>11. ASSUME up = "android", NEW a \in AndroidActors, RefreshRefused(a),
             UNCHANGED <<pending, machine>>
      PROVE  Chain'
  BY <1>11 DEF RefreshRefused, stored, lock, actors, backups, screens,
    machine, counters, storage, others
<1>12. ASSUME up = "android", NEW a \in AndroidActors, RefreshCopies(a),
             UNCHANGED <<pending, machine>>
      PROVE  Chain'
  BY <1>12 DEF RefreshCopies, stored, lock, actors, backups, screens,
    machine, counters, storage, others
<1>13. ASSUME up = "android", NEW a \in AndroidActors, CopyPartitions(a),
             UNCHANGED <<pending, machine>>
      PROVE  Chain'
  BY <1>13 DEF CopyPartitions, stored, lock, actors, backups, screens,
    machine, counters, storage, others
<1>14. ASSUME up = "android", NEW a \in AndroidActors, DiscardPrevious(a),
             UNCHANGED <<pending, machine>>
      PROVE  Chain'
  BY <1>14 DEF DiscardPrevious, stored, lock, actors, backups, screens,
    machine, counters, storage, others
<1>15. ASSUME up = "android", NEW a \in AndroidActors, SetAside(a),
             UNCHANGED <<pending, machine>>
      PROVE  Chain'
  BY <1>15 DEF SetAside, stored, lock, actors, backups, screens, machine,
    counters, storage, others
<1>16. ASSUME up = "android", NEW a \in AndroidActors, Install(a),
             UNCHANGED <<pending, machine>>
      PROVE  Chain'
  BY <1>16 DEF Install, stored, lock, actors, backups, screens, machine,
    counters, storage, others
<1>17. ASSUME up = "android", NEW a \in AndroidActors, ScriptFails(a),
             UNCHANGED <<pending, machine>>
      PROVE  Chain'
  BY <1>17 DEF ScriptFails, CanRecover, stored, lock, actors, backups,
    screens, machine, counters, storage, others
<1>18. ASSUME up = "android", NEW a \in AndroidActors, ReadEnd(a),
             UNCHANGED <<pending, machine>>
      PROVE  Chain'
  BY <1>18 DEF ReadEnd, Release, End, Begin, Reading, stored, lock, actors,
    backups, screens, machine, counters, storage, others
<1>19. ASSUME up = "android", NEW a \in AndroidActors, WriteBegin(a),
             UNCHANGED <<pending, machine>>
      PROVE  Chain'
  BY <1>19 DEF WriteBegin, stored, lock, actors, backups, screens, machine,
    counters, storage, others, Fresh
<1>20. ASSUME up = "android", NEW a \in AndroidActors, WriteStops(a),
             UNCHANGED <<pending, machine>>
      PROVE  Chain'
  BY <1>20 DEF WriteStops, Release, End, Begin, stored, lock, actors,
    backups, screens, machine, counters, storage, others
<1>21. ASSUME up = "android", NEW a \in AndroidActors, WriteDone(a),
             UNCHANGED <<pending, machine>>
      PROVE  Chain'
  BY <1>21 DEF WriteDone, Release, End, Begin, SetsOut, stored, lock, actors, backups,
    screens, machine, counters, storage, others
<1>22. ASSUME up = "android", NEW a \in AndroidActors, NextEnd(a),
             UNCHANGED <<pending, machine>>
      PROVE  Chain'
  BY <1>22 DEF NextEnd, Release, End, stored, lock, actors, backups, screens,
    machine, counters, storage, others
<1>23. ASSUME NEW a \in Actors, OpenPartition(a), UNCHANGED others
      PROVE  Chain'
  BY <1>23 DEF OpenPartition, stored, lock, actors, backups, screens,
    machine, counters, storage, others
<1>24. ASSUME NEW a \in Actors, ClosePartition(a), UNCHANGED others
      PROVE  Chain'
  BY <1>24 DEF ClosePartition, stored, lock, actors, backups, screens,
    machine, counters, storage, others
<1>25. ASSUME NEW a \in Actors, VerifyPartition(a), UNCHANGED others
      PROVE  Chain'
  BY <1>25, SMTT(20) DEF VerifyPartition, stored, lock, actors, backups, screens,
    machine, counters, storage, others
<1>26. ASSUME NEW a \in Actors, PartitionFails(a), UNCHANGED others
      PROVE  Chain'
  BY <1>26 DEF PartitionFails, TornNow, stored, lock, actors, backups,
    screens, machine, counters, storage, others
<1>27. ASSUME up = "ubuntu", NEW a \in UbuntuActors, NEW set \in Sets,
             NEW then \in BOOLEAN, Switch(a, set, then), UNCHANGED <<backups,
             kernel, journal, screens, machine>>
      PROVE  Chain'
  BY <1>27 DEF Switch, stored, lock, actors, backups, screens, machine,
    counters, storage, others
<1>28. ASSUME up = "ubuntu", NEW a \in UbuntuActors, SwitchDone(a),
             UNCHANGED <<backups, kernel, journal, screens, machine>>
      PROVE  Chain'
  BY <1>28 DEF SwitchDone, Release, End, SetsOut, stored, lock, actors, backups,
    screens, machine, counters, storage, others
<1>29. ASSUME up = "ubuntu", NEW a \in UbuntuActors, SwitchFailed(a),
             UNCHANGED <<backups, kernel, journal, screens, machine>>
      PROVE  Chain'
  BY <1>29 DEF SwitchFailed, Release, End, stored, lock, actors, backups,
    screens, machine, counters, storage, others
<1>30. ASSUME up = "ubuntu", Prepare, UNCHANGED <<backups, kernel, journal,
             screens, machine>>
      PROVE  Chain'
  BY <1>30 DEF Prepare, stored, lock, actors, backups, screens, machine,
    counters, storage, others
<1>31. ASSUME up = "ubuntu", Cancel, UNCHANGED <<backups, kernel, journal,
             screens, machine>>
      PROVE  Chain'
  BY <1>31 DEF Cancel, stored, lock, actors, backups, screens, machine,
    counters, storage, others
<1>32. ASSUME Shutdown
      PROVE  Chain'
  BY <1>32 DEF Shutdown, Halt, Release, TornNow, stored, lock, actors,
    backups, screens, machine, counters, storage, others
<1>33. ASSUME UserRestart
      PROVE  Chain'
  BY <1>33 DEF UserRestart, Halt, Release, TornNow, stored, lock, actors,
    backups, screens, machine, counters, storage, others
<1>34. ASSUME PowerLoss
      PROVE  Chain'
  BY <1>34 DEF PowerLoss, Halt, Release, TornNow, stored, lock, actors,
    backups, screens, machine, counters, storage, others
<1>35. ASSUME BootAndroid
      PROVE  Chain'
  BY <1>35 DEF BootAndroid, stored, lock, actors, backups, screens, machine,
    counters, storage, others
<1>36. ASSUME BootUbuntu
      PROVE  Chain'
  BY <1>36 DEF BootUbuntu, stored, lock, actors, backups, screens, machine,
    counters, storage, others
<1>37. ASSUME RunUpdate
      PROVE  Chain'
  BY <1>37 DEF RunUpdate, stored, lock, actors, backups, screens, machine,
    counters, storage, others
<1>38. ASSUME Ota
      PROVE  Chain'
  BY <1>38 DEF Ota, Halt, Release, TornNow, stored, lock, actors, backups,
    screens, machine, counters, storage, others
<1>39. ASSUME Rescue
      PROVE  Chain'
  BY <1>39 DEF Rescue, stored, lock, actors, backups, screens, machine,
    counters, storage, others
<1>40. ASSUME up = "android", AppWrote, UNCHANGED <<pending, machine>>
      PROVE  Chain'
  BY <1>40 DEF AppWrote, SetsOut, End, stored, lock, actors, backups, screens,
    machine, counters, storage, others
<1>41. ASSUME Order, UNCHANGED others
      PROVE  Chain'
  BY <1>41 DEF Order, stored, lock, actors, backups, screens, machine, counters,
    storage, others
<1>42. CASE UNCHANGED vars
  BY <1>42 DEF vars, stored, lock, actors, backups, screens, machine, counters, storage, others
<1>43. Next => Chain'
  <2> HIDE DEF Chain, Lock, TypeOK, ImagesOK, NumbersOK, NamesOK, ActorsOK, Parts, Sets, Image, Full, Directory, AndroidActors, UbuntuActors, Stored, Source, Whole, Complete
  <2>1. Android => Chain'
    BY <1>1, <1>2, <1>3, <1>4, <1>5, <1>6, <1>7, <1>8, <1>9, <1>10, <1>11, <1>12, <1>13, <1>14, <1>15, <1>16, <1>17, <1>18, <1>19, <1>20, <1>21, <1>22, <1>23, <1>24, <1>25, <1>26, <1>40, <1>41
    DEF Android, AndroidStep, Locked, WriteStep, AndroidActors, others
  <2>2. Ubuntu => Chain'
    BY <1>23, <1>24, <1>25, <1>26, <1>27, <1>28, <1>29, <1>30, <1>31, <1>41
    DEF Ubuntu, UbuntuStep, WriteStep, UbuntuActors, others
  <2>3. QED
    BY <2>1, <2>2, <1>32, <1>33, <1>34, <1>35, <1>36, <1>37, <1>38, <1>39 DEF Next
<1> QED
  BY <1>42, <1>43

(* Every step keeps a complete set in reach. *)
LEMMA BackupStep ==
    ASSUME TypeOK, Backup, [Next]_vars
    PROVE  Backup'
<1> USE ChainAssumption DEF Backup, BackupReachable, TypeOK, ImagesOK, NamesOK, Directory, Complete, Full
<1>1. ASSUME up = "android", AppRefresh, UNCHANGED <<pending, machine>>
      PROVE  Backup'
  BY <1>1 DEF AppRefresh, Idle, Begin, stored, lock, actors, backups,
    screens, machine, counters, storage, others
<1>2. ASSUME up = "android", NEW set \in Sets, NEW then \in BOOLEAN,
             AppWrite(set, then), UNCHANGED <<pending, machine>>
      PROVE  Backup'
  BY <1>2 DEF AppWrite, Idle, Begin, stored, lock, actors, backups, screens,
    machine, counters, storage, others
<1>3. ASSUME up = "android", AppRestart, UNCHANGED <<pending, machine>>
      PROVE  Backup'
  BY <1>3 DEF AppRestart, Idle, Begin, stored, lock, actors, backups,
    screens, machine, counters, storage, others
<1>4. ASSUME up = "android", NEW what \in {"read", "tap"}, TileRead(what),
             UNCHANGED <<pending, machine>>
      PROVE  Backup'
  BY <1>4 DEF TileRead, Idle, Begin, stored, lock, actors, backups, screens,
    machine, counters, storage, others
<1>5. ASSUME up = "android", TileSwitch, UNCHANGED <<pending, machine>>
      PROVE  Backup'
  BY <1>5 DEF TileSwitch, Begin, stored, lock, actors, backups, screens,
    machine, counters, storage, others
<1>6. ASSUME up = "android", TileDismiss, UNCHANGED <<pending, machine>>
      PROVE  Backup'
  BY <1>6 DEF TileDismiss, Begin, stored, lock, actors, backups, screens,
    machine, counters, storage, others
<1>7. ASSUME up = "android", JobStart, UNCHANGED <<pending, machine>>
      PROVE  Backup'
  BY <1>7 DEF JobStart, Begin, stored, lock, actors, backups, screens,
    machine, counters, storage, others
<1>8. ASSUME up = "android", NEW a \in AndroidActors, Enter(a),
             UNCHANGED <<pending, machine>>
      PROVE  Backup'
  BY <1>8 DEF Enter, Reading, stored, lock, actors, backups, screens,
    machine, counters, storage, others
<1>9. ASSUME up = "android", NEW a \in AndroidActors, Recover(a),
             UNCHANGED <<pending, machine>>
      PROVE  Backup'
  BY <1>9 DEF Recover, CanRecover, Writable, stored, lock, actors, backups,
    screens, machine, counters, storage, others
<1>10. ASSUME up = "android", NEW a \in AndroidActors, RefreshKept(a),
             UNCHANGED <<pending, machine>>
      PROVE  Backup'
  BY <1>10 DEF RefreshKept, stored, lock, actors, backups, screens, machine,
    counters, storage, others
<1>11. ASSUME up = "android", NEW a \in AndroidActors, RefreshRefused(a),
             UNCHANGED <<pending, machine>>
      PROVE  Backup'
  BY <1>11 DEF RefreshRefused, stored, lock, actors, backups, screens,
    machine, counters, storage, others
<1>12. ASSUME up = "android", NEW a \in AndroidActors, RefreshCopies(a),
             UNCHANGED <<pending, machine>>
      PROVE  Backup'
  BY <1>12 DEF RefreshCopies, stored, lock, actors, backups, screens,
    machine, counters, storage, others, Ambiguous
<1>13. ASSUME up = "android", NEW a \in AndroidActors, CopyPartitions(a),
             UNCHANGED <<pending, machine>>
      PROVE  Backup'
  BY <1>13 DEF CopyPartitions, stored, lock, actors, backups, screens,
    machine, counters, storage, others
<1>14. ASSUME up = "android", NEW a \in AndroidActors, DiscardPrevious(a),
             UNCHANGED <<pending, machine>>
      PROVE  Backup'
  BY <1>14 DEF DiscardPrevious, stored, lock, actors, backups, screens,
    machine, counters, storage, others
<1>15. ASSUME up = "android", NEW a \in AndroidActors, SetAside(a),
             UNCHANGED <<pending, machine>>
      PROVE  Backup'
  BY <1>15 DEF SetAside, stored, lock, actors, backups, screens, machine,
    counters, storage, others
<1>16. ASSUME up = "android", NEW a \in AndroidActors, Install(a),
             UNCHANGED <<pending, machine>>
      PROVE  Backup'
  BY <1>16 DEF Install, stored, lock, actors, backups, screens, machine,
    counters, storage, others
<1>17. ASSUME up = "android", NEW a \in AndroidActors, ScriptFails(a),
             UNCHANGED <<pending, machine>>
      PROVE  Backup'
  BY <1>17 DEF ScriptFails, CanRecover, stored, lock, actors, backups,
    screens, machine, counters, storage, others
<1>18. ASSUME up = "android", NEW a \in AndroidActors, ReadEnd(a),
             UNCHANGED <<pending, machine>>
      PROVE  Backup'
  BY <1>18 DEF ReadEnd, Release, End, Begin, Reading, stored, lock, actors,
    backups, screens, machine, counters, storage, others
<1>19. ASSUME up = "android", NEW a \in AndroidActors, WriteBegin(a),
             UNCHANGED <<pending, machine>>
      PROVE  Backup'
  BY <1>19 DEF WriteBegin, stored, lock, actors, backups, screens, machine,
    counters, storage, others
<1>20. ASSUME up = "android", NEW a \in AndroidActors, WriteStops(a),
             UNCHANGED <<pending, machine>>
      PROVE  Backup'
  BY <1>20 DEF WriteStops, Release, End, Begin, stored, lock, actors,
    backups, screens, machine, counters, storage, others
<1>21. ASSUME up = "android", NEW a \in AndroidActors, WriteDone(a),
             UNCHANGED <<pending, machine>>
      PROVE  Backup'
  BY <1>21 DEF WriteDone, Release, End, Begin, SetsOut, stored, lock, actors, backups,
    screens, machine, counters, storage, others
<1>22. ASSUME up = "android", NEW a \in AndroidActors, NextEnd(a),
             UNCHANGED <<pending, machine>>
      PROVE  Backup'
  BY <1>22 DEF NextEnd, Release, End, stored, lock, actors, backups, screens,
    machine, counters, storage, others
<1>23. ASSUME NEW a \in Actors, OpenPartition(a), UNCHANGED others
      PROVE  Backup'
  BY <1>23 DEF OpenPartition, stored, lock, actors, backups, screens,
    machine, counters, storage, others
<1>24. ASSUME NEW a \in Actors, ClosePartition(a), UNCHANGED others
      PROVE  Backup'
  BY <1>24 DEF ClosePartition, stored, lock, actors, backups, screens,
    machine, counters, storage, others
<1>25. ASSUME NEW a \in Actors, VerifyPartition(a), UNCHANGED others
      PROVE  Backup'
  BY <1>25 DEF VerifyPartition, stored, lock, actors, backups, screens,
    machine, counters, storage, others
<1>26. ASSUME NEW a \in Actors, PartitionFails(a), UNCHANGED others
      PROVE  Backup'
  BY <1>26 DEF PartitionFails, TornNow, stored, lock, actors, backups,
    screens, machine, counters, storage, others
<1>27. ASSUME up = "ubuntu", NEW a \in UbuntuActors, NEW set \in Sets,
             NEW then \in BOOLEAN, Switch(a, set, then), UNCHANGED <<backups,
             kernel, journal, screens, machine>>
      PROVE  Backup'
  BY <1>27 DEF Switch, stored, lock, actors, backups, screens, machine,
    counters, storage, others
<1>28. ASSUME up = "ubuntu", NEW a \in UbuntuActors, SwitchDone(a),
             UNCHANGED <<backups, kernel, journal, screens, machine>>
      PROVE  Backup'
  BY <1>28 DEF SwitchDone, Release, End, SetsOut, stored, lock, actors, backups,
    screens, machine, counters, storage, others
<1>29. ASSUME up = "ubuntu", NEW a \in UbuntuActors, SwitchFailed(a),
             UNCHANGED <<backups, kernel, journal, screens, machine>>
      PROVE  Backup'
  BY <1>29 DEF SwitchFailed, Release, End, stored, lock, actors, backups,
    screens, machine, counters, storage, others
<1>30. ASSUME up = "ubuntu", Prepare, UNCHANGED <<backups, kernel, journal,
             screens, machine>>
      PROVE  Backup'
  BY <1>30 DEF Prepare, stored, lock, actors, backups, screens, machine,
    counters, storage, others
<1>31. ASSUME up = "ubuntu", Cancel, UNCHANGED <<backups, kernel, journal,
             screens, machine>>
      PROVE  Backup'
  BY <1>31 DEF Cancel, stored, lock, actors, backups, screens, machine,
    counters, storage, others
<1>32. ASSUME Shutdown
      PROVE  Backup'
  BY <1>32 DEF Shutdown, Halt, Release, TornNow, stored, lock, actors,
    backups, screens, machine, counters, storage, others
<1>33. ASSUME UserRestart
      PROVE  Backup'
  BY <1>33 DEF UserRestart, Halt, Release, TornNow, stored, lock, actors,
    backups, screens, machine, counters, storage, others
<1>34. ASSUME PowerLoss
      PROVE  Backup'
  BY <1>34 DEF PowerLoss, Halt, Release, TornNow, stored, lock, actors,
    backups, screens, machine, counters, storage, others
<1>35. ASSUME BootAndroid
      PROVE  Backup'
  BY <1>35 DEF BootAndroid, stored, lock, actors, backups, screens, machine,
    counters, storage, others
<1>36. ASSUME BootUbuntu
      PROVE  Backup'
  BY <1>36 DEF BootUbuntu, stored, lock, actors, backups, screens, machine,
    counters, storage, others
<1>37. ASSUME RunUpdate
      PROVE  Backup'
  BY <1>37 DEF RunUpdate, stored, lock, actors, backups, screens, machine,
    counters, storage, others
<1>38. ASSUME Ota
      PROVE  Backup'
  BY <1>38 DEF Ota, Halt, Release, TornNow, stored, lock, actors, backups,
    screens, machine, counters, storage, others
<1>39. ASSUME Rescue
      PROVE  Backup'
  BY <1>39 DEF Rescue, stored, lock, actors, backups, screens, machine,
    counters, storage, others
<1>40. ASSUME up = "android", AppWrote, UNCHANGED <<pending, machine>>
      PROVE  Backup'
  BY <1>40 DEF AppWrote, SetsOut, End, stored, lock, actors, backups, screens,
    machine, counters, storage, others
<1>41. ASSUME Order, UNCHANGED others
      PROVE  Backup'
  BY <1>41 DEF Order, stored, lock, actors, backups, screens, machine, counters,
    storage, others
<1>42. CASE UNCHANGED vars
  BY <1>42 DEF vars, stored, lock, actors, backups, screens, machine, counters, storage, others
<1>43. Next => Backup'
  <2> HIDE DEF Backup, BackupReachable, TypeOK, ImagesOK, NamesOK, Directory, Complete, Full
  <2>1. Android => Backup'
    BY <1>1, <1>2, <1>3, <1>4, <1>5, <1>6, <1>7, <1>8, <1>9, <1>10, <1>11, <1>12, <1>13, <1>14, <1>15, <1>16, <1>17, <1>18, <1>19, <1>20, <1>21, <1>22, <1>23, <1>24, <1>25, <1>26, <1>40, <1>41
    DEF Android, AndroidStep, Locked, WriteStep, AndroidActors, others
  <2>2. Ubuntu => Backup'
    BY <1>23, <1>24, <1>25, <1>26, <1>27, <1>28, <1>29, <1>30, <1>31, <1>41
    DEF Ubuntu, UbuntuStep, WriteStep, UbuntuActors, others
  <2>3. QED
    BY <2>1, <2>2, <1>32, <1>33, <1>34, <1>35, <1>36, <1>37, <1>38, <1>39 DEF Next
<1> QED
  BY <1>42, <1>43

(* Every step keeps Linux's images out of the Android sets. *)
LEMMA LinuxStep ==
    ASSUME TypeOK, Lock, Chain, Backup, Linux, [Next]_vars
    PROVE  Linux'
<1> USE ChainAssumption DEF Linux, LinuxNeverBackup, NoLinuxIn, TypeOK, ImagesOK, NumbersOK, NamesOK, ActorsOK, Parts, Sets, Image, Full, Directory, AndroidActors, UbuntuActors, Stored, Source, Whole, Complete
<1>1. ASSUME up = "android", AppRefresh, UNCHANGED <<pending, machine>>
      PROVE  Linux'
  BY <1>1 DEF AppRefresh, Idle, Begin, stored, lock, actors, backups,
    screens, machine, counters, storage, others
<1>2. ASSUME up = "android", NEW set \in Sets, NEW then \in BOOLEAN,
             AppWrite(set, then), UNCHANGED <<pending, machine>>
      PROVE  Linux'
  BY <1>2 DEF AppWrite, Idle, Begin, stored, lock, actors, backups, screens,
    machine, counters, storage, others
<1>3. ASSUME up = "android", AppRestart, UNCHANGED <<pending, machine>>
      PROVE  Linux'
  BY <1>3 DEF AppRestart, Idle, Begin, stored, lock, actors, backups,
    screens, machine, counters, storage, others
<1>4. ASSUME up = "android", NEW what \in {"read", "tap"}, TileRead(what),
             UNCHANGED <<pending, machine>>
      PROVE  Linux'
  BY <1>4 DEF TileRead, Idle, Begin, stored, lock, actors, backups, screens,
    machine, counters, storage, others
<1>5. ASSUME up = "android", TileSwitch, UNCHANGED <<pending, machine>>
      PROVE  Linux'
  BY <1>5 DEF TileSwitch, Begin, stored, lock, actors, backups, screens,
    machine, counters, storage, others
<1>6. ASSUME up = "android", TileDismiss, UNCHANGED <<pending, machine>>
      PROVE  Linux'
  BY <1>6 DEF TileDismiss, Begin, stored, lock, actors, backups, screens,
    machine, counters, storage, others
<1>7. ASSUME up = "android", JobStart, UNCHANGED <<pending, machine>>
      PROVE  Linux'
  BY <1>7 DEF JobStart, Begin, stored, lock, actors, backups, screens,
    machine, counters, storage, others
<1>8. ASSUME up = "android", NEW a \in AndroidActors, Enter(a),
             UNCHANGED <<pending, machine>>
      PROVE  Linux'
  BY <1>8 DEF Enter, Reading, stored, lock, actors, backups, screens,
    machine, counters, storage, others
<1>9. ASSUME up = "android", NEW a \in AndroidActors, Recover(a),
             UNCHANGED <<pending, machine>>
      PROVE  Linux'
  BY <1>9 DEF Recover, CanRecover, Writable, stored, lock, actors, backups,
    screens, machine, counters, storage, others
<1>10. ASSUME up = "android", NEW a \in AndroidActors, RefreshKept(a),
             UNCHANGED <<pending, machine>>
      PROVE  Linux'
  BY <1>10 DEF RefreshKept, stored, lock, actors, backups, screens, machine,
    counters, storage, others
<1>11. ASSUME up = "android", NEW a \in AndroidActors, RefreshRefused(a),
             UNCHANGED <<pending, machine>>
      PROVE  Linux'
  BY <1>11 DEF RefreshRefused, stored, lock, actors, backups, screens,
    machine, counters, storage, others
<1>12. ASSUME up = "android", NEW a \in AndroidActors, RefreshCopies(a),
             UNCHANGED <<pending, machine>>
      PROVE  Linux'
  BY <1>12, SMTT(20) DEF RefreshCopies, stored, lock, actors, backups, screens,
    machine, counters, storage, others, Ambiguous, LinuxStaged, Mixed,
    AndroidImage
<1>13. ASSUME up = "android", NEW a \in AndroidActors, CopyPartitions(a),
             UNCHANGED <<pending, machine>>
      PROVE  Linux'
  BY <1>13 DEF CopyPartitions, stored, lock, actors, backups, screens,
    machine, counters, storage, others
<1>14. ASSUME up = "android", NEW a \in AndroidActors, DiscardPrevious(a),
             UNCHANGED <<pending, machine>>
      PROVE  Linux'
  BY <1>14, SMTT(20) DEF DiscardPrevious, stored, lock, actors, backups, screens,
    machine, counters, storage, others
<1>15. ASSUME up = "android", NEW a \in AndroidActors, SetAside(a),
             UNCHANGED <<pending, machine>>
      PROVE  Linux'
  BY <1>15 DEF SetAside, stored, lock, actors, backups, screens, machine,
    counters, storage, others
<1>16. ASSUME up = "android", NEW a \in AndroidActors, Install(a),
             UNCHANGED <<pending, machine>>
      PROVE  Linux'
  BY <1>16 DEF Install, stored, lock, actors, backups, screens, machine,
    counters, storage, others
<1>17. ASSUME up = "android", NEW a \in AndroidActors, ScriptFails(a),
             UNCHANGED <<pending, machine>>
      PROVE  Linux'
  BY <1>17, SMTT(20) DEF ScriptFails, CanRecover, stored, lock, actors, backups,
    screens, machine, counters, storage, others
<1>18. ASSUME up = "android", NEW a \in AndroidActors, ReadEnd(a),
             UNCHANGED <<pending, machine>>
      PROVE  Linux'
  BY <1>18 DEF ReadEnd, Release, End, Begin, Reading, stored, lock, actors,
    backups, screens, machine, counters, storage, others
<1>19. ASSUME up = "android", NEW a \in AndroidActors, WriteBegin(a),
             UNCHANGED <<pending, machine>>
      PROVE  Linux'
  BY <1>19 DEF WriteBegin, stored, lock, actors, backups, screens, machine,
    counters, storage, others
<1>20. ASSUME up = "android", NEW a \in AndroidActors, WriteStops(a),
             UNCHANGED <<pending, machine>>
      PROVE  Linux'
  BY <1>20 DEF WriteStops, Release, End, Begin, stored, lock, actors,
    backups, screens, machine, counters, storage, others
<1>21. ASSUME up = "android", NEW a \in AndroidActors, WriteDone(a),
             UNCHANGED <<pending, machine>>
      PROVE  Linux'
  BY <1>21 DEF WriteDone, Release, End, Begin, SetsOut, stored, lock, actors, backups,
    screens, machine, counters, storage, others
<1>22. ASSUME up = "android", NEW a \in AndroidActors, NextEnd(a),
             UNCHANGED <<pending, machine>>
      PROVE  Linux'
  BY <1>22 DEF NextEnd, Release, End, stored, lock, actors, backups, screens,
    machine, counters, storage, others
<1>23. ASSUME NEW a \in Actors, OpenPartition(a), UNCHANGED others
      PROVE  Linux'
  <2>1. \A p \in Parts : part'[p] \in Linuxes => part'[p] = part[p]
    <3>1. CASE part' = part
      BY <3>1
    <3>2. CASE \E torn \in Torns \ {part[idx]} : part' = [part EXCEPT ![idx] = torn]
      <4>1. PICK torn \in Torns : part' = [part EXCEPT ![idx] = torn]
        BY <3>2
      <4>2. torn \notin Linuxes
        BY <4>1, ChainAssumption
      <4>3. QED
        BY <4>1, <4>2
    <3>3. QED
      BY <1>23, <3>1, <3>2 DEF OpenPartition
  <2>2. step' = "writing" /\ UNCHANGED <<androidSet, linuxSet, previous,
     stage>>
    BY <1>23 DEF OpenPartition, stored, others, backups
  <2>3. QED
    BY <2>1, <2>2
<1>24. ASSUME NEW a \in Actors, ClosePartition(a), UNCHANGED others
      PROVE  Linux'
  BY <1>24, SMTT(20) DEF ClosePartition, stored, lock, actors, backups, screens,
    machine, counters, storage, others, Chain
<1>25. ASSUME NEW a \in Actors, VerifyPartition(a), UNCHANGED others
      PROVE  Linux'
  BY <1>25 DEF VerifyPartition, stored, lock, actors, backups, screens,
    machine, counters, storage, others
<1>26. ASSUME NEW a \in Actors, PartitionFails(a), UNCHANGED others
      PROVE  Linux'
  BY <1>26 DEF PartitionFails, TornNow, stored, lock, actors, backups,
    screens, machine, counters, storage, others
<1>27. ASSUME up = "ubuntu", NEW a \in UbuntuActors, NEW set \in Sets,
             NEW then \in BOOLEAN, Switch(a, set, then), UNCHANGED <<backups,
             kernel, journal, screens, machine>>
      PROVE  Linux'
  BY <1>27 DEF Switch, stored, lock, actors, backups, screens, machine,
    counters, storage, others
<1>28. ASSUME up = "ubuntu", NEW a \in UbuntuActors, SwitchDone(a),
             UNCHANGED <<backups, kernel, journal, screens, machine>>
      PROVE  Linux'
  BY <1>28 DEF SwitchDone, Release, End, SetsOut, stored, lock, actors, backups,
    screens, machine, counters, storage, others
<1>29. ASSUME up = "ubuntu", NEW a \in UbuntuActors, SwitchFailed(a),
             UNCHANGED <<backups, kernel, journal, screens, machine>>
      PROVE  Linux'
  BY <1>29 DEF SwitchFailed, Release, End, stored, lock, actors, backups,
    screens, machine, counters, storage, others
<1>30. ASSUME up = "ubuntu", Prepare, UNCHANGED <<backups, kernel, journal,
             screens, machine>>
      PROVE  Linux'
  BY <1>30 DEF Prepare, stored, lock, actors, backups, screens, machine,
    counters, storage, others
<1>31. ASSUME up = "ubuntu", Cancel, UNCHANGED <<backups, kernel, journal,
             screens, machine>>
      PROVE  Linux'
  BY <1>31 DEF Cancel, stored, lock, actors, backups, screens, machine,
    counters, storage, others
<1>32. ASSUME Shutdown
      PROVE  Linux'
  BY <1>32 DEF Shutdown, Halt, Release, TornNow, stored, lock, actors,
    backups, screens, machine, counters, storage, others
<1>33. ASSUME UserRestart
      PROVE  Linux'
  BY <1>33 DEF UserRestart, Halt, Release, TornNow, stored, lock, actors,
    backups, screens, machine, counters, storage, others
<1>34. ASSUME PowerLoss
      PROVE  Linux'
  BY <1>34 DEF PowerLoss, Halt, Release, TornNow, stored, lock, actors,
    backups, screens, machine, counters, storage, others
<1>35. ASSUME BootAndroid
      PROVE  Linux'
  BY <1>35 DEF BootAndroid, stored, lock, actors, backups, screens, machine,
    counters, storage, others
<1>36. ASSUME BootUbuntu
      PROVE  Linux'
  BY <1>36 DEF BootUbuntu, stored, lock, actors, backups, screens, machine,
    counters, storage, others
<1>37. ASSUME RunUpdate
      PROVE  Linux'
  <2>1. UNCHANGED <<androidSet, previous, stage, step>>
    BY <1>37 DEF RunUpdate, backups, lock
  <2>2. CASE UNCHANGED <<part, linuxSet>>
    BY <2>1, <2>2
  <2>3. CASE \E l \in Linuxes \ {linuxSet[1]} : part' = Whole(l) /\ linuxSet' = Whole(l)
    <3>1. PICK l \in Linuxes : part' = Whole(l) /\ linuxSet' = Whole(l)
      BY <2>3
    <3>2. step # "copy"
      BY <1>37 DEF RunUpdate, Lock
    <3>3. QED
      BY <2>1, <3>1, <3>2
  <2>4. QED
    BY <1>37, <2>2, <2>3 DEF RunUpdate
<1>38. ASSUME Ota
      PROVE  Linux'
  BY <1>38 DEF Ota, Halt, Release, TornNow, stored, lock, actors, backups,
    screens, machine, counters, storage, others
<1>39. ASSUME Rescue
      PROVE  Linux'
  <2>1. part' = linuxSet /\ UNCHANGED <<androidSet, linuxSet, previous,
     stage, step>>
    BY <1>39 DEF Rescue, stored, backups, lock
  <2>2. step # "copy"
    BY <1>39 DEF Rescue, Lock
  <2>3. QED
    BY <2>1, <2>2
<1>40. ASSUME up = "android", AppWrote, UNCHANGED <<pending, machine>>
      PROVE  Linux'
  BY <1>40 DEF AppWrote, SetsOut, End, stored, lock, actors, backups, screens,
    machine, counters, storage, others
<1>41. ASSUME Order, UNCHANGED others
      PROVE  Linux'
  BY <1>41, SMTT(20) DEF Order, stored, lock, actors, backups, screens, machine, counters,
    storage, others
<1>42. CASE UNCHANGED vars
  BY <1>42 DEF vars, stored, lock, actors, backups, screens, machine, counters, storage, others
<1>43. Next => Linux'
  <2> HIDE DEF Linux, LinuxNeverBackup, NoLinuxIn, TypeOK, ImagesOK, NumbersOK, NamesOK, ActorsOK, Parts, Sets, Image, Full, Directory, AndroidActors, UbuntuActors, Stored, Source, Whole, Complete
  <2>1. Android => Linux'
    BY <1>1, <1>2, <1>3, <1>4, <1>5, <1>6, <1>7, <1>8, <1>9, <1>10, <1>11, <1>12, <1>13, <1>14, <1>15, <1>16, <1>17, <1>18, <1>19, <1>20, <1>21, <1>22, <1>23, <1>24, <1>25, <1>26, <1>40, <1>41
    DEF Android, AndroidStep, Locked, WriteStep, AndroidActors, others
  <2>2. Ubuntu => Linux'
    BY <1>23, <1>24, <1>25, <1>26, <1>27, <1>28, <1>29, <1>30, <1>31, <1>41
    DEF Ubuntu, UbuntuStep, WriteStep, UbuntuActors, others
  <2>3. QED
    BY <2>1, <2>2, <1>32, <1>33, <1>34, <1>35, <1>36, <1>37, <1>38, <1>39 DEF Next
<1> QED
  BY <1>42, <1>43

(* Every step keeps the lock from an Ubuntu that has an update prepared. *)
LEMMA HeldStep ==
    ASSUME Lock, Held, [Next]_vars
    PROVE  Held'
<1> USE ChainAssumption DEF Held, Lock
<1>1. ASSUME up = "android", AppRefresh, UNCHANGED <<pending, machine>>
      PROVE  Held'
  BY <1>1 DEF AppRefresh, Idle, Begin, stored, lock, actors, backups,
    screens, machine, counters, storage, others
<1>2. ASSUME up = "android", NEW set \in Sets, NEW then \in BOOLEAN,
             AppWrite(set, then), UNCHANGED <<pending, machine>>
      PROVE  Held'
  BY <1>2 DEF AppWrite, Idle, Begin, stored, lock, actors, backups, screens,
    machine, counters, storage, others
<1>3. ASSUME up = "android", AppRestart, UNCHANGED <<pending, machine>>
      PROVE  Held'
  BY <1>3 DEF AppRestart, Idle, Begin, stored, lock, actors, backups,
    screens, machine, counters, storage, others
<1>4. ASSUME up = "android", NEW what \in {"read", "tap"}, TileRead(what),
             UNCHANGED <<pending, machine>>
      PROVE  Held'
  BY <1>4 DEF TileRead, Idle, Begin, stored, lock, actors, backups, screens,
    machine, counters, storage, others
<1>5. ASSUME up = "android", TileSwitch, UNCHANGED <<pending, machine>>
      PROVE  Held'
  BY <1>5 DEF TileSwitch, Begin, stored, lock, actors, backups, screens,
    machine, counters, storage, others
<1>6. ASSUME up = "android", TileDismiss, UNCHANGED <<pending, machine>>
      PROVE  Held'
  BY <1>6 DEF TileDismiss, Begin, stored, lock, actors, backups, screens,
    machine, counters, storage, others
<1>7. ASSUME up = "android", JobStart, UNCHANGED <<pending, machine>>
      PROVE  Held'
  BY <1>7 DEF JobStart, Begin, stored, lock, actors, backups, screens,
    machine, counters, storage, others
<1>8. ASSUME up = "android", NEW a \in AndroidActors, Enter(a),
             UNCHANGED <<pending, machine>>
      PROVE  Held'
  BY <1>8 DEF Enter, Reading, stored, lock, actors, backups, screens,
    machine, counters, storage, others
<1>9. ASSUME up = "android", NEW a \in AndroidActors, Recover(a),
             UNCHANGED <<pending, machine>>
      PROVE  Held'
  BY <1>9 DEF Recover, CanRecover, Writable, stored, lock, actors, backups,
    screens, machine, counters, storage, others
<1>10. ASSUME up = "android", NEW a \in AndroidActors, RefreshKept(a),
             UNCHANGED <<pending, machine>>
      PROVE  Held'
  BY <1>10 DEF RefreshKept, stored, lock, actors, backups, screens, machine,
    counters, storage, others
<1>11. ASSUME up = "android", NEW a \in AndroidActors, RefreshRefused(a),
             UNCHANGED <<pending, machine>>
      PROVE  Held'
  BY <1>11 DEF RefreshRefused, stored, lock, actors, backups, screens,
    machine, counters, storage, others
<1>12. ASSUME up = "android", NEW a \in AndroidActors, RefreshCopies(a),
             UNCHANGED <<pending, machine>>
      PROVE  Held'
  BY <1>12 DEF RefreshCopies, stored, lock, actors, backups, screens,
    machine, counters, storage, others
<1>13. ASSUME up = "android", NEW a \in AndroidActors, CopyPartitions(a),
             UNCHANGED <<pending, machine>>
      PROVE  Held'
  BY <1>13 DEF CopyPartitions, stored, lock, actors, backups, screens,
    machine, counters, storage, others
<1>14. ASSUME up = "android", NEW a \in AndroidActors, DiscardPrevious(a),
             UNCHANGED <<pending, machine>>
      PROVE  Held'
  BY <1>14 DEF DiscardPrevious, stored, lock, actors, backups, screens,
    machine, counters, storage, others
<1>15. ASSUME up = "android", NEW a \in AndroidActors, SetAside(a),
             UNCHANGED <<pending, machine>>
      PROVE  Held'
  BY <1>15 DEF SetAside, stored, lock, actors, backups, screens, machine,
    counters, storage, others
<1>16. ASSUME up = "android", NEW a \in AndroidActors, Install(a),
             UNCHANGED <<pending, machine>>
      PROVE  Held'
  BY <1>16 DEF Install, stored, lock, actors, backups, screens, machine,
    counters, storage, others
<1>17. ASSUME up = "android", NEW a \in AndroidActors, ScriptFails(a),
             UNCHANGED <<pending, machine>>
      PROVE  Held'
  BY <1>17 DEF ScriptFails, CanRecover, stored, lock, actors, backups,
    screens, machine, counters, storage, others
<1>18. ASSUME up = "android", NEW a \in AndroidActors, ReadEnd(a),
             UNCHANGED <<pending, machine>>
      PROVE  Held'
  BY <1>18 DEF ReadEnd, Release, End, Begin, Reading, stored, lock, actors,
    backups, screens, machine, counters, storage, others
<1>19. ASSUME up = "android", NEW a \in AndroidActors, WriteBegin(a),
             UNCHANGED <<pending, machine>>
      PROVE  Held'
  BY <1>19 DEF WriteBegin, stored, lock, actors, backups, screens, machine,
    counters, storage, others
<1>20. ASSUME up = "android", NEW a \in AndroidActors, WriteStops(a),
             UNCHANGED <<pending, machine>>
      PROVE  Held'
  BY <1>20 DEF WriteStops, Release, End, Begin, stored, lock, actors,
    backups, screens, machine, counters, storage, others
<1>21. ASSUME up = "android", NEW a \in AndroidActors, WriteDone(a),
             UNCHANGED <<pending, machine>>
      PROVE  Held'
  BY <1>21 DEF WriteDone, Release, End, Begin, SetsOut, stored, lock, actors, backups,
    screens, machine, counters, storage, others
<1>22. ASSUME up = "android", NEW a \in AndroidActors, NextEnd(a),
             UNCHANGED <<pending, machine>>
      PROVE  Held'
  BY <1>22 DEF NextEnd, Release, End, stored, lock, actors, backups, screens,
    machine, counters, storage, others
<1>23. ASSUME NEW a \in Actors, OpenPartition(a), UNCHANGED others
      PROVE  Held'
  BY <1>23 DEF OpenPartition, stored, lock, actors, backups, screens,
    machine, counters, storage, others
<1>24. ASSUME NEW a \in Actors, ClosePartition(a), UNCHANGED others
      PROVE  Held'
  BY <1>24 DEF ClosePartition, stored, lock, actors, backups, screens,
    machine, counters, storage, others
<1>25. ASSUME NEW a \in Actors, VerifyPartition(a), UNCHANGED others
      PROVE  Held'
  BY <1>25 DEF VerifyPartition, stored, lock, actors, backups, screens,
    machine, counters, storage, others
<1>26. ASSUME NEW a \in Actors, PartitionFails(a), UNCHANGED others
      PROVE  Held'
  BY <1>26 DEF PartitionFails, TornNow, stored, lock, actors, backups,
    screens, machine, counters, storage, others
<1>27. ASSUME up = "ubuntu", NEW a \in UbuntuActors, NEW set \in Sets,
             NEW then \in BOOLEAN, Switch(a, set, then), UNCHANGED <<backups,
             kernel, journal, screens, machine>>
      PROVE  Held'
  BY <1>27 DEF Switch, stored, lock, actors, backups, screens, machine,
    counters, storage, others
<1>28. ASSUME up = "ubuntu", NEW a \in UbuntuActors, SwitchDone(a),
             UNCHANGED <<backups, kernel, journal, screens, machine>>
      PROVE  Held'
  BY <1>28 DEF SwitchDone, Release, End, SetsOut, stored, lock, actors, backups,
    screens, machine, counters, storage, others
<1>29. ASSUME up = "ubuntu", NEW a \in UbuntuActors, SwitchFailed(a),
             UNCHANGED <<backups, kernel, journal, screens, machine>>
      PROVE  Held'
  BY <1>29 DEF SwitchFailed, Release, End, stored, lock, actors, backups,
    screens, machine, counters, storage, others
<1>30. ASSUME up = "ubuntu", Prepare, UNCHANGED <<backups, kernel, journal,
             screens, machine>>
      PROVE  Held'
  BY <1>30 DEF Prepare, stored, lock, actors, backups, screens, machine,
    counters, storage, others
<1>31. ASSUME up = "ubuntu", Cancel, UNCHANGED <<backups, kernel, journal,
             screens, machine>>
      PROVE  Held'
  BY <1>31 DEF Cancel, stored, lock, actors, backups, screens, machine,
    counters, storage, others
<1>32. ASSUME Shutdown
      PROVE  Held'
  BY <1>32 DEF Shutdown, Halt, Release, TornNow, stored, lock, actors,
    backups, screens, machine, counters, storage, others
<1>33. ASSUME UserRestart
      PROVE  Held'
  BY <1>33 DEF UserRestart, Halt, Release, TornNow, stored, lock, actors,
    backups, screens, machine, counters, storage, others
<1>34. ASSUME PowerLoss
      PROVE  Held'
  BY <1>34 DEF PowerLoss, Halt, Release, TornNow, stored, lock, actors,
    backups, screens, machine, counters, storage, others
<1>35. ASSUME BootAndroid
      PROVE  Held'
  BY <1>35 DEF BootAndroid, stored, lock, actors, backups, screens, machine,
    counters, storage, others
<1>36. ASSUME BootUbuntu
      PROVE  Held'
  BY <1>36 DEF BootUbuntu, stored, lock, actors, backups, screens, machine,
    counters, storage, others
<1>37. ASSUME RunUpdate
      PROVE  Held'
  BY <1>37 DEF RunUpdate, stored, lock, actors, backups, screens, machine,
    counters, storage, others
<1>38. ASSUME Ota
      PROVE  Held'
  BY <1>38 DEF Ota, Halt, Release, TornNow, stored, lock, actors, backups,
    screens, machine, counters, storage, others
<1>39. ASSUME Rescue
      PROVE  Held'
  BY <1>39 DEF Rescue, stored, lock, actors, backups, screens, machine,
    counters, storage, others
<1>40. ASSUME up = "android", AppWrote, UNCHANGED <<pending, machine>>
      PROVE  Held'
  BY <1>40 DEF AppWrote, SetsOut, End, stored, lock, actors, backups, screens,
    machine, counters, storage, others
<1>41. ASSUME Order, UNCHANGED others
      PROVE  Held'
  BY <1>41 DEF Order, stored, lock, actors, backups, screens, machine, counters,
    storage, others
<1>42. CASE UNCHANGED vars
  BY <1>42 DEF vars, stored, lock, actors, backups, screens, machine, counters, storage, others
<1>43. Next => Held'
  <2> HIDE DEF Held, Lock
  <2>1. Android => Held'
    BY <1>1, <1>2, <1>3, <1>4, <1>5, <1>6, <1>7, <1>8, <1>9, <1>10, <1>11, <1>12, <1>13, <1>14, <1>15, <1>16, <1>17, <1>18, <1>19, <1>20, <1>21, <1>22, <1>23, <1>24, <1>25, <1>26, <1>40, <1>41
    DEF Android, AndroidStep, Locked, WriteStep, AndroidActors, others
  <2>2. Ubuntu => Held'
    BY <1>23, <1>24, <1>25, <1>26, <1>27, <1>28, <1>29, <1>30, <1>31, <1>41
    DEF Ubuntu, UbuntuStep, WriteStep, UbuntuActors, others
  <2>3. QED
    BY <2>1, <2>2, <1>32, <1>33, <1>34, <1>35, <1>36, <1>37, <1>38, <1>39 DEF Next
<1> QED
  BY <1>42, <1>43

(* Work that leaves the images alone and is not cut in a torn partition.   *)
LEMMA KeptOn ==
    ASSUME Kept, ~TornNow, up' = up \/ up' # "ubuntu",
           UNCHANGED <<part, androidSet, linuxSet, previous, stage, installed, tears>>,
           step' \notin {"copy", "discard", "aside", "install"},
           \/ step' \notin {"ready", "write", "writing", "verify", "done", "failed"}
           \/ ~Live
           \/ androidSet = Installed /\ (tears > 0 \/ Remnants)
    PROVE  Kept'
<1>1. Installed' = Installed
  BY DEF Installed, Whole
<1>2. Remnants => Remnants'
  BY DEF Remnants, TornNow
<1>3. Live => Live' \/ (androidSet = Installed /\ (tears > 0 \/ Remnants))
  BY <1>1 DEF Live
<1>4. Complete(androidSet) => Complete(androidSet')
  OBVIOUS
<1> QED
  BY <1>1, <1>2, <1>3, <1>4 DEF Kept

(* A machine that goes down in a write has had its last tear.               *)
LEMMA KeptHalt ==
    ASSUME tears' <= 1, tears \in Nat, Kept, Halt,
           UNCHANGED <<part, androidSet, linuxSet, previous, stage, installed>>
    PROVE  Kept'
<1>1. up' = "off" /\ step' = "idle"
  BY DEF Halt, Release
<1>2. CASE ~TornNow
  <2>1. tears' = tears
    BY <1>2 DEF Halt
  <2> QED
    BY <1>1, <1>2, <2>1, KeptOn
<1>3. CASE TornNow
  <2>1. tears = 0 /\ tears' = 1 /\ step = "writing"
    BY <1>3 DEF Halt, TornNow
  <2>2. androidSet = Installed
    BY <2>1 DEF Kept, Live
  <2>3. Installed' = Installed
    BY DEF Installed, Whole
  <2> QED
    BY <1>1, <2>1, <2>2, <2>3 DEF Kept
<1> QED
  BY <1>2, <1>3

(* A refresh recognises the images of the two stored sets, and copies none. *)
LEMMA Recognised ==
    ASSUME TypeOK, Remnants, step = "refresh", Complete(androidSet), ~LinuxStaged, ~Mixed
    PROVE  Unchanged
<1>1. \A p \in Parts : part[p] = androidSet[p] \/ part[p] = linuxSet[p]
  BY DEF Remnants
<1>2. \A p \in Parts : part[p] = linuxSet[p] => part[p] = androidSet[p]
  BY DEF Mixed, AndroidImage
<1>3. part = androidSet
  BY <1>1, <1>2 DEF TypeOK, ImagesOK, Complete, Full
<1> QED
  BY <1>3 DEF Unchanged, Identify

(* The installed Android's chain begins with an image of Android.           *)
LEMMA InstalledFirst ==
    ASSUME TypeOK
    PROVE  1 \in Parts /\ Installed[1] = installed /\ installed \in Androids
           /\ installed \notin Linuxes /\ installed \notin Torns
BY ChainAssumption DEF TypeOK, NamesOK, Installed, Whole, Parts

LEMMA InstalledFull ==
    ASSUME TypeOK
    PROVE  Installed \in Full /\ None \notin Full /\ None # Installed
<1>1. Installed \in Full
  BY DEF TypeOK, NamesOK, Installed, Whole, Full, Image
<1> QED
  BY <1>1, ChainAssumption

(* Every step up to the second tear keeps the installed Android's chain.   *)
LEMMA KeptStep ==
    ASSUME tears' <= 1, TypeOK, Lock, Chain, Backup, Linux, Known, Kept, [Next]_vars
    PROVE  Kept'
<1>1. ASSUME up = "android", AppRefresh, UNCHANGED <<pending, machine>>
      PROVE  Kept'
  BY <1>1 DEF AppRefresh, Idle, Begin, stored, lock, actors, backups,
    screens, machine, counters, storage, others,
    Kept, Remnants, Live, Installed, Whole
<1>2. ASSUME up = "android", NEW set \in Sets, NEW then \in BOOLEAN,
             AppWrite(set, then), UNCHANGED <<pending, machine>>
      PROVE  Kept'
  BY <1>2 DEF AppWrite, Idle, Begin, stored, lock, actors, backups, screens,
    machine, counters, storage, others,
    Kept, Remnants, Live, Installed, Whole
<1>3. ASSUME up = "android", AppRestart, UNCHANGED <<pending, machine>>
      PROVE  Kept'
  BY <1>3 DEF AppRestart, Idle, Begin, stored, lock, actors, backups,
    screens, machine, counters, storage, others,
    Kept, Remnants, Live, Installed, Whole
<1>4. ASSUME up = "android", NEW what \in {"read", "tap"}, TileRead(what),
             UNCHANGED <<pending, machine>>
      PROVE  Kept'
  BY <1>4 DEF TileRead, Idle, Begin, stored, lock, actors, backups, screens,
    machine, counters, storage, others,
    Kept, Remnants, Live, Installed, Whole
<1>5. ASSUME up = "android", TileSwitch, UNCHANGED <<pending, machine>>
      PROVE  Kept'
  BY <1>5 DEF TileSwitch, Begin, stored, lock, actors, backups, screens,
    machine, counters, storage, others,
    Kept, Remnants, Live, Installed, Whole
<1>6. ASSUME up = "android", TileDismiss, UNCHANGED <<pending, machine>>
      PROVE  Kept'
  BY <1>6 DEF TileDismiss, Begin, stored, lock, actors, backups, screens,
    machine, counters, storage, others,
    Kept, Remnants, Live, Installed, Whole
<1>7. ASSUME up = "android", JobStart, UNCHANGED <<pending, machine>>
      PROVE  Kept'
  BY <1>7 DEF JobStart, Begin, stored, lock, actors, backups, screens,
    machine, counters, storage, others,
    Kept, Remnants, Live, Installed, Whole
<1>8. ASSUME up = "android", NEW a \in AndroidActors, Enter(a),
             UNCHANGED <<pending, machine>>
      PROVE  Kept'
  <2>1. step = "idle" /\ step' \in {"recover", "refresh"}
    BY <1>8 DEF Enter, Lock
  <2>2. UNCHANGED <<part, androidSet, linuxSet, previous, stage, installed,
     tears, up>>
    BY <1>8 DEF Enter, stored, backups, machine
  <2>3. ~TornNow
    BY <2>1 DEF TornNow
  <2> QED
    BY <2>1, <2>2, <2>3, KeptOn
<1>9. ASSUME up = "android", NEW a \in AndroidActors, Recover(a),
             UNCHANGED <<pending, machine>>
      PROVE  Kept'
  <2>1. step = "recover" /\ step' = "refresh" /\ UNCHANGED <<part, linuxSet,
     stage, installed, tears, up>>
    BY <1>9 DEF Recover, machine
  <2>2. CASE UNCHANGED <<androidSet, previous>>
    BY <2>1, <2>2, KeptOn DEF TornNow
  <2>3. CASE androidSet = None /\ androidSet' = previous /\ previous' = None
    <3>1. Installed' = Installed
      BY <2>1 DEF Installed, Whole
    <3>2. Live \/ (previous = Installed /\ tears > 0)
      <4>1. None # Installed /\ ~Complete(None)
        BY InstalledFull DEF Complete
      <4> QED
        BY <2>3, <4>1 DEF Kept
    <3>3. Live => Live'
      BY <2>1, <3>1 DEF Live
    <3> QED
      BY <2>1, <2>3, <3>1, <3>2, <3>3 DEF Kept
  <2> QED
    BY <1>9, <2>2, <2>3 DEF Recover, CanRecover
<1>10. ASSUME up = "android", NEW a \in AndroidActors, RefreshKept(a),
             UNCHANGED <<pending, machine>>
      PROVE  Kept'
  <2>1. step = "refresh" /\ step' = "ready"
    BY <1>10 DEF RefreshKept
  <2>2. UNCHANGED <<part, androidSet, linuxSet, previous, stage, installed,
     tears, up>>
    BY <1>10 DEF RefreshKept, stored, backups, machine
  <2>3. Live => androidSet = Installed /\ Remnants
    <3>1. ASSUME Live PROVE androidSet = Installed /\ Remnants
      <4>1. part = Installed
        BY <3>1 DEF Live
      <4>2. ~LinuxStaged
        <5>1. part # linuxSet
          BY <4>1, InstalledFirst DEF Linux
        <5> QED
          BY <5>1 DEF LinuxStaged, Identify
      <4>3. Unchanged
        BY <1>10, <4>2 DEF RefreshKept
      <4>4. part = androidSet
        BY <4>3 DEF Unchanged, Identify
      <4> QED
        BY <4>1, <4>4 DEF Remnants
    <3> QED
      BY <3>1
  <2> QED
    BY <2>1, <2>2, <2>3, KeptOn DEF TornNow
<1>11. ASSUME up = "android", NEW a \in AndroidActors, RefreshRefused(a),
             UNCHANGED <<pending, machine>>
      PROVE  Kept'
  BY <1>11 DEF RefreshRefused, stored, lock, actors, backups, screens,
    machine, counters, storage, others,
    Kept, Remnants, Live, Installed, Whole
<1>12. ASSUME up = "android", NEW a \in AndroidActors, RefreshCopies(a),
             UNCHANGED <<pending, machine>>
      PROVE  Kept'
  <2>1. /\ step = "refresh" /\ step' = "copy" /\ ~Ambiguous /\ ~LinuxStaged /\ ~Mixed /\ ~Unchanged
        /\ UNCHANGED <<part, androidSet, linuxSet, previous, stage,
           installed, tears, up>>
    BY <1>12 DEF RefreshCopies, stored, backups, machine
  <2>2. androidSet # None
    BY <2>1 DEF Ambiguous
  <2>3. Complete(androidSet)
    BY <2>2 DEF Backup, BackupReachable
  <2>4. ~Remnants
    BY <2>1, <2>3, Recognised
  <2>5. (androidSet = Installed /\ tears > 0) \/ Live
    BY <2>2, <2>4 DEF Kept
  <2>6. Installed' = Installed
    BY <2>1 DEF Installed, Whole
  <2> QED
    BY <2>1, <2>5, <2>6 DEF Kept, Live
<1>13. ASSUME up = "android", NEW a \in AndroidActors, CopyPartitions(a),
             UNCHANGED <<pending, machine>>
      PROVE  Kept'
  BY <1>13 DEF CopyPartitions, stored, lock, actors, backups, screens,
    machine, counters, storage, others,
    Kept, Remnants, Live, Installed, Whole
<1>14. ASSUME up = "android", NEW a \in AndroidActors, DiscardPrevious(a),
             UNCHANGED <<pending, machine>>
      PROVE  Kept'
  <2>1. /\ step = "discard" /\ step' \in {"discard", "aside"}
        /\ UNCHANGED <<part, androidSet, linuxSet, stage, installed, tears,
           up>>
    BY <1>14 DEF DiscardPrevious, stored, machine
  <2>2. androidSet # None
    <3>1. ~Complete(None)
      BY ChainAssumption DEF Complete
    <3> QED
      BY <2>1, <3>1 DEF Backup
  <2>3. (androidSet = Installed /\ (tears > 0 \/ Remnants)) \/ Live
    BY <2>1, <2>2 DEF Kept
  <2>4. Installed' = Installed /\ (Remnants => Remnants') /\ (Live => Live')
    BY <2>1 DEF Installed, Whole, Remnants, Live
  <2> QED
    BY <2>1, <2>3, <2>4 DEF Kept
<1>15. ASSUME up = "android", NEW a \in AndroidActors, SetAside(a),
             UNCHANGED <<pending, machine>>
      PROVE  Kept'
  <2>1. /\ step = "aside" /\ step' = "install" /\ previous' = androidSet /\ androidSet' = None
        /\ UNCHANGED <<part, linuxSet, stage, installed, tears,
           up>> /\ up = "android"
    BY <1>15 DEF SetAside, machine
  <2>2. androidSet # None
    <3>1. ~Complete(None)
      BY ChainAssumption DEF Complete
    <3> QED
      BY <2>1, <3>1 DEF Backup
  <2>3. Installed' = Installed
    BY <2>1 DEF Installed, Whole
  <2>4. (androidSet = Installed /\ tears > 0) \/ part = Installed
    BY <2>1, <2>2 DEF Kept, Live
  <2> QED
    BY <2>1, <2>3, <2>4 DEF Kept, Live
<1>16. ASSUME up = "android", NEW a \in AndroidActors, Install(a),
             UNCHANGED <<pending, machine>>
      PROVE  Kept'
  <2>1. /\ step = "install" /\ step' = "ready" /\ androidSet' = stage
        /\ UNCHANGED <<part, linuxSet, previous, installed, tears, up>>
    BY <1>16 DEF Install, machine
  <2>2. androidSet = None /\ Complete(stage) /\ stage = part
    BY <2>1 DEF Backup, Known
  <2>3. Installed' = Installed /\ Remnants' /\ Complete(androidSet')
    BY <2>1, <2>2 DEF Installed, Whole, Remnants, Complete
  <2>4. None # Installed /\ ~Complete(None)
    BY InstalledFull DEF Complete
  <2>5. part = Installed \/ (previous = Installed /\ tears > 0)
    BY <2>2, <2>4 DEF Kept, Live
  <2> QED
    BY <2>1, <2>2, <2>3, <2>5 DEF Kept
<1>17. ASSUME up = "android", NEW a \in AndroidActors, ScriptFails(a),
             UNCHANGED <<pending, machine>>
      PROVE  Kept'
  <2>1. /\ step \in {"copy", "discard", "aside", "install"}
        /\ step' = "refused"
        /\ UNCHANGED <<part, linuxSet, stage, installed, tears, up>>
    BY <1>17 DEF ScriptFails, machine
  <2>2. CASE UNCHANGED <<androidSet, previous>>
    BY <2>1, <2>2, KeptOn DEF TornNow
  <2>3. CASE androidSet = None /\ androidSet' = previous /\ previous' = None
    <3>1. Installed' = Installed
      BY <2>1 DEF Installed, Whole
    <3>2. Live \/ (previous = Installed /\ tears > 0)
      <4>1. None # Installed /\ ~Complete(None)
        BY InstalledFull DEF Complete
      <4> QED
        BY <2>3, <4>1 DEF Kept
    <3>3. Live => Live'
      BY <2>1, <3>1 DEF Live
    <3> QED
      BY <2>1, <2>3, <3>1, <3>2, <3>3 DEF Kept
  <2> QED
    BY <1>17, <2>2, <2>3 DEF ScriptFails, CanRecover
<1>18. ASSUME up = "android", NEW a \in AndroidActors, ReadEnd(a),
             UNCHANGED <<pending, machine>>
      PROVE  Kept'
  BY <1>18 DEF ReadEnd, Release, End, Begin, Reading, stored, lock, actors,
    backups, screens, machine, counters, storage, others,
    Kept, Remnants, Live, Installed, Whole
<1>19. ASSUME up = "android", NEW a \in AndroidActors, WriteBegin(a),
             UNCHANGED <<pending, machine>>
      PROVE  Kept'
  BY <1>19 DEF WriteBegin, stored, lock, actors, backups, screens, machine,
    counters, storage, others,
    Kept, Remnants, Live, Installed, Whole
<1>20. ASSUME up = "android", NEW a \in AndroidActors, WriteStops(a),
             UNCHANGED <<pending, machine>>
      PROVE  Kept'
  BY <1>20 DEF WriteStops, Release, End, Begin, stored, lock, actors,
    backups, screens, machine, counters, storage, others,
    Kept, Remnants, Live, Installed, Whole
<1>21. ASSUME up = "android", NEW a \in AndroidActors, WriteDone(a),
             UNCHANGED <<pending, machine>>
      PROVE  Kept'
  BY <1>21 DEF WriteDone, Release, End, Begin, SetsOut, stored, lock, actors, backups,
    screens, machine, counters, storage, others,
    Kept, Remnants, Live, Installed, Whole
<1>22. ASSUME up = "android", NEW a \in AndroidActors, NextEnd(a),
             UNCHANGED <<pending, machine>>
      PROVE  Kept'
  BY <1>22 DEF NextEnd, Release, End, stored, lock, actors, backups, screens,
    machine, counters, storage, others,
    Kept, Remnants, Live, Installed, Whole
<1>23. ASSUME NEW a \in Actors, OpenPartition(a), UNCHANGED others
      PROVE  Kept'
  <2>1. step = "write" /\ step' = "writing" /\ idx' = idx
    BY <1>23 DEF OpenPartition
  <2>2. /\ ~Live /\ Installed' = Installed /\ androidSet' = androidSet /\ linuxSet' = linuxSet
        /\ UNCHANGED <<previous, stage, installed, tears>>
    BY <1>23 DEF OpenPartition, Live, Installed, Whole, stored, others,
       backups, machine
  <2>3. \A p \in Parts : part'[p] = part[p] \/ (p = idx /\ part'[p] \in Torns)
    <3>1. CASE part' = part
      BY <3>1
    <3>2. CASE \E torn \in Torns \ {part[idx]} : part' = [part EXCEPT ![idx] = torn]
      BY <3>2 DEF TypeOK, ImagesOK, Full
    <3> QED
      BY <1>23, <3>1, <3>2 DEF OpenPartition
  <2>4. Remnants => Remnants'
    BY <2>1, <2>2, <2>3 DEF Remnants
  <2> QED
    BY <2>1, <2>2, <2>4 DEF Kept
<1>24. ASSUME NEW a \in Actors, ClosePartition(a), UNCHANGED others
      PROVE  Kept'
  <2>1. /\ step = "writing" /\ step' = "verify" /\ idx' = idx
        /\ part' = [part EXCEPT ![idx] = Source(a)[idx]] /\ holder = a
    BY <1>24 DEF ClosePartition
  <2>2. /\ ~Live /\ Installed' = Installed /\ androidSet' = androidSet /\ linuxSet' = linuxSet
        /\ UNCHANGED <<previous, stage, installed, tears>>
    BY <1>24 DEF ClosePartition, Live, Installed, Whole, stored, others,
       backups, machine
  <2>3. Source(a) \in {androidSet, linuxSet}
    BY DEF Source, Stored
  <2>4. Remnants => Remnants'
    <3>1. \A p \in Parts : p # idx => part'[p] = part[p]
      BY <2>1 DEF TypeOK, ImagesOK, Full
    <3>2. part'[idx] = Source(a)[idx]
      BY <2>1 DEF TypeOK, ImagesOK, NumbersOK, Full
    <3> QED
      BY <2>1, <2>2, <2>3, <3>1, <3>2 DEF Remnants
  <2> QED
    BY <2>1, <2>2, <2>4 DEF Kept
<1>25. ASSUME NEW a \in Actors, VerifyPartition(a), UNCHANGED others
      PROVE  Kept'
  BY <1>25 DEF VerifyPartition, stored, lock, actors, backups, screens,
    machine, counters, storage, others,
    Kept, Remnants, Live, Installed, Whole
<1>26. ASSUME NEW a \in Actors, PartitionFails(a), UNCHANGED others
      PROVE  Kept'
  <2>1. /\ step \in {"write", "writing", "verify"} /\ step' = "failed"
        /\ UNCHANGED <<part, androidSet, linuxSet, previous, stage,
           installed, up>>
    BY <1>26 DEF PartitionFails, stored, others, backups, machine
  <2>2. ~Live
    BY <2>1 DEF Live
  <2>3. /\ MaxTears \in Nat /\ tears \in 0 .. MaxTears
        /\ TornNow => tears < MaxTears
        /\ tears' = tears + (IF TornNow THEN 1 ELSE 0)
    BY <1>26, ChainAssumption DEF PartitionFails, TypeOK, NumbersOK
  <2>4. CASE ~TornNow
    <3>1. tears' = tears
      BY <2>3, <2>4
    <3> QED
      BY <2>1, <2>2, <2>4, <3>1, KeptOn
  <2>5. CASE TornNow
    <3>1. tears = 0 /\ tears' = 1
      BY <2>3, <2>5
    <3>2. androidSet = Installed /\ Installed' = Installed
      BY <2>1, <2>2, <3>1 DEF Kept, Installed, Whole
    <3> QED
      BY <2>1, <3>1, <3>2 DEF Kept
  <2> QED
    BY <2>4, <2>5
<1>27. ASSUME up = "ubuntu", NEW a \in UbuntuActors, NEW set \in Sets,
   NEW then \in BOOLEAN, Switch(a, set, then), UNCHANGED <<backups, kernel,
   journal, screens, machine>>
      PROVE  Kept'
  <2>1. step = "idle" /\ step' = "write"
    BY <1>27 DEF Switch, Lock
  <2>2. UNCHANGED <<part, androidSet, linuxSet, previous, stage, installed,
     tears, up>>
    BY <1>27 DEF Switch, stored, backups, machine
  <2>3. ~Live /\ ~TornNow
    BY <1>27, <2>1 DEF Live, TornNow
  <2> QED
    BY <2>1, <2>2, <2>3, KeptOn
<1>28. ASSUME up = "ubuntu", NEW a \in UbuntuActors, SwitchDone(a),
             UNCHANGED <<backups, kernel, journal, screens, machine>>
      PROVE  Kept'
  BY <1>28 DEF SwitchDone, Release, End, SetsOut, stored, lock, actors, backups,
    screens, machine, counters, storage, others,
    Kept, Remnants, Live, Installed, Whole
<1>29. ASSUME up = "ubuntu", NEW a \in UbuntuActors, SwitchFailed(a),
             UNCHANGED <<backups, kernel, journal, screens, machine>>
      PROVE  Kept'
  BY <1>29 DEF SwitchFailed, Release, End, stored, lock, actors, backups,
    screens, machine, counters, storage, others,
    Kept, Remnants, Live, Installed, Whole
<1>30. ASSUME up = "ubuntu", Prepare, UNCHANGED <<backups, kernel, journal,
             screens, machine>>
      PROVE  Kept'
  BY <1>30 DEF Prepare, stored, lock, actors, backups, screens, machine,
    counters, storage, others,
    Kept, Remnants, Live, Installed, Whole
<1>31. ASSUME up = "ubuntu", Cancel, UNCHANGED <<backups, kernel, journal,
             screens, machine>>
      PROVE  Kept'
  BY <1>31 DEF Cancel, stored, lock, actors, backups, screens, machine,
    counters, storage, others,
    Kept, Remnants, Live, Installed, Whole
<1>32. ASSUME Shutdown
      PROVE  Kept'
  <2>1. Halt /\ UNCHANGED <<part, androidSet, linuxSet, previous, stage,
     installed>>
    BY <1>32 DEF Shutdown, storage
  <2>2. tears \in Nat
    BY ChainAssumption DEF TypeOK, NumbersOK
  <2> QED
    BY <2>1, <2>2, KeptHalt
<1>33. ASSUME UserRestart
      PROVE  Kept'
  <2>1. Halt /\ UNCHANGED <<part, androidSet, linuxSet, previous, stage,
     installed>>
    BY <1>33 DEF UserRestart, storage
  <2>2. tears \in Nat
    BY ChainAssumption DEF TypeOK, NumbersOK
  <2> QED
    BY <2>1, <2>2, KeptHalt
<1>34. ASSUME PowerLoss
      PROVE  Kept'
  <2>1. Halt /\ UNCHANGED <<part, androidSet, linuxSet, previous, stage,
     installed>>
    BY <1>34 DEF PowerLoss, storage
  <2>2. tears \in Nat
    BY ChainAssumption DEF TypeOK, NumbersOK
  <2> QED
    BY <2>1, <2>2, KeptHalt
<1>35. ASSUME BootAndroid
      PROVE  Kept'
  BY <1>35 DEF BootAndroid, stored, lock, actors, backups, screens, machine,
    counters, storage, others,
    Kept, Remnants, Live, Installed, Whole
<1>36. ASSUME BootUbuntu
      PROVE  Kept'
  <2>1. UNCHANGED <<part, androidSet, linuxSet, previous, stage, installed,
     tears, step, idx>>
    BY <1>36 DEF BootUbuntu, storage, lock
  <2>2. ~Live
    BY <1>36, InstalledFirst DEF BootUbuntu, Live
  <2>3. Installed' = Installed /\ (Remnants => Remnants')
    BY <2>1 DEF Installed, Whole, Remnants
  <2> QED
    BY <2>1, <2>2, <2>3 DEF Kept
<1>37. ASSUME RunUpdate
      PROVE  Kept'
  <2>1. UNCHANGED <<androidSet, previous, stage, installed, tears, step,
     idx>> /\ step = "idle"
    BY <1>37 DEF RunUpdate, backups, lock, Lock
  <2>2. ~Live
    BY <1>37, InstalledFirst DEF RunUpdate, Live
  <2>3. UNCHANGED <<part, linuxSet>> \/ part' = linuxSet'
    BY <1>37 DEF RunUpdate
  <2>4. Installed' = Installed /\ (Remnants => Remnants')
    BY <2>1, <2>3 DEF Installed, Whole, Remnants
  <2> QED
    BY <2>1, <2>2, <2>4 DEF Kept
<1>38. ASSUME Ota
      PROVE  Kept'
  BY <1>38 DEF Ota, Halt, Release, TornNow, stored, lock, actors, backups,
    screens, machine, counters, storage, others,
    Kept, Remnants, Live, Installed, Whole
<1>39. ASSUME Rescue
      PROVE  Kept'
  <2>1. part' = linuxSet /\ UNCHANGED <<androidSet, linuxSet, previous,
     stage, installed, tears, step, idx>>
        /\ step = "idle"
    BY <1>39 DEF Rescue, stored, backups, lock, Lock
  <2>2. ~Live
    BY <1>39, InstalledFirst DEF Rescue, Live
  <2>3. Installed' = Installed /\ Remnants'
    BY <2>1 DEF Installed, Whole, Remnants
  <2> QED
    BY <2>1, <2>2, <2>3 DEF Kept
<1>40. ASSUME up = "android", AppWrote, UNCHANGED <<pending, machine>>
      PROVE  Kept'
  BY <1>40 DEF AppWrote, SetsOut, End, stored, lock, actors, backups, screens,
    machine, counters, storage, others,
    Kept, Remnants, Live, Installed, Whole
<1>41. ASSUME Order, UNCHANGED others
      PROVE  Kept'
  BY <1>41 DEF Order, stored, lock, actors, backups, screens, machine, counters,
    storage, others,
    Kept, Remnants, Live, Installed, Whole
<1>42. CASE UNCHANGED vars
  BY <1>42 DEF vars, stored, lock, actors, backups, screens, machine, counters, storage, others,
    Kept, Remnants, Live, Installed, Whole
<1>43. Next => Kept'
  <2>1. Android => Kept'
    BY <1>1, <1>2, <1>3, <1>4, <1>5, <1>6, <1>7, <1>8, <1>9, <1>10, <1>11, <1>12, <1>13, <1>14, <1>15, <1>16, <1>17, <1>18, <1>19, <1>20, <1>21, <1>22, <1>23, <1>24, <1>25, <1>26, <1>40, <1>41
    DEF Android, AndroidStep, Locked, WriteStep, AndroidActors, others
  <2>2. Ubuntu => Kept'
    BY <1>23, <1>24, <1>25, <1>26, <1>27, <1>28, <1>29, <1>30, <1>31, <1>41
    DEF Ubuntu, UbuntuStep, WriteStep, UbuntuActors, others
  <2>3. QED
    BY <2>1, <2>2, <1>32, <1>33, <1>34, <1>35, <1>36, <1>37, <1>38, <1>39 DEF Next
<1> QED
  BY <1>42, <1>43

(* What an action of the Android does under the monitor, short of a write,  *)
(* that moves a copy or decides about one.                                  *)
Copies(a) ==
    \/ Recover(a)
    \/ RefreshKept(a)
    \/ CopyPartitions(a)
    \/ DiscardPrevious(a)
    \/ SetAside(a)
    \/ Install(a)
    \/ ScriptFails(a)

Writes(a) == OpenPartition(a) \/ ClosePartition(a) \/ PartitionFails(a)

Stops == Shutdown \/ UserRestart \/ PowerLoss

(* A step that leaves every image where it is.                             *)
Still ==
    /\ UNCHANGED <<part, androidSet, linuxSet, previous, stage, installed, tears>>
    /\ \/ UNCHANGED <<step, idx>>
       \/ step # "writing" /\ step' \notin {"discard", "aside", "install", "ready", "writing"}
    /\ Live => Live'

(* The steps in which an image may move, or a copy is decided about.       *)
LEMMA Steps ==
    ASSUME TypeOK, Lock, [Next]_vars
    PROVE  \/ Still
           \/ up = "android" /\ up' = up /\ UNCHANGED machine /\ \E a \in AndroidActors : Copies(a)
           \/ UNCHANGED others /\ \E a \in Actors : Writes(a)
           \/ Stops \/ BootUbuntu \/ RunUpdate \/ Ota \/ Rescue
<1> DEFINE Goal == \/ Still
                   \/ up = "android" /\ up' = up /\ UNCHANGED machine /\ \E a \in AndroidActors : Copies(a)
                   \/ UNCHANGED others /\ \E a \in Actors : Writes(a)
                   \/ Stops \/ BootUbuntu \/ RunUpdate \/ Ota \/ Rescue
<1>0. \A a \in Actors : a # None
  BY ChainAssumption
<1>1. CASE Android
  <2>0. up = "android" /\ up' = up /\ UNCHANGED machine /\ installed' = installed /\ UNCHANGED pending
    BY <1>1 DEF Android, machine
  <2>1. CASE \/ AppRefresh \/ AppRestart \/ TileSwitch \/ TileDismiss \/ AppWrote \/ JobStart
             \/ Order /\ UNCHANGED <<backups, kernel, journal, screens>>
             \/ \E set \in Sets, then \in BOOLEAN : AppWrite(set, then)
             \/ \E what \in {"read", "tap"} : TileRead(what)
    <3>1. UNCHANGED <<part, androidSet, linuxSet, previous, stage, tears, step, idx>>
      BY <2>1 DEF AppRefresh, AppRestart, TileSwitch, TileDismiss, AppWrote, JobStart, Order,
         AppWrite, TileRead, stored, backups, lock
    <3> QED
      BY <2>0, <3>1 DEF Still, Live, Installed, Whole
  <2>2. ASSUME NEW a \in AndroidActors, Locked(a)
        PROVE  Goal
    <3>1. CASE Enter(a) \/ RefreshRefused(a) \/ RefreshCopies(a) \/ ReadEnd(a) \/ WriteBegin(a)
               \/ WriteStops(a) \/ WriteDone(a) \/ NextEnd(a)
      <4>1. /\ UNCHANGED <<part, androidSet, linuxSet, previous, stage, tears>>
            /\ step # "writing" /\ step' \notin {"discard", "aside", "install", "ready", "writing"}
        BY <1>0, <3>1 DEF Enter, RefreshRefused, RefreshCopies, ReadEnd, WriteBegin, WriteStops,
           WriteDone, NextEnd, Release, Lock, stored, backups
      <4>2. step' \in {"write", "done", "failed"} => step = "ready"
        BY <1>0, <3>1 DEF Enter, RefreshRefused, RefreshCopies, ReadEnd, WriteBegin, WriteStops,
           WriteDone, NextEnd, Release
      <4>3. step' # "verify"
        BY <1>0, <3>1 DEF Enter, RefreshRefused, RefreshCopies, ReadEnd, WriteBegin, WriteStops,
           WriteDone, NextEnd, Release
      <4> QED
        BY <2>0, <4>1, <4>2, <4>3 DEF Still, Live, Installed, Whole
    <3>2. CASE Copies(a)
      BY <2>0, <3>2
    <3>3. CASE WriteStep(a) /\ UNCHANGED <<backups, kernel, journal, screens>>
      <4>1. CASE VerifyPartition(a)
        <5>1. /\ UNCHANGED <<part, androidSet, linuxSet, tears>> /\ UNCHANGED <<previous, stage>>
              /\ step = "verify" /\ step' \in {"write", "done"}
          BY <3>3, <4>1 DEF VerifyPartition, stored, backups
        <5> QED
          BY <2>0, <5>1 DEF Still, Live
      <4>2. CASE Writes(a)
        <5>1. UNCHANGED others
          BY <1>1, <3>3 DEF Android, others
        <5> QED
          BY <4>2, <5>1 DEF AndroidActors
      <4> QED
        BY <3>3, <4>1, <4>2 DEF WriteStep, Writes
    <3> QED
      BY <2>2, <3>1, <3>2, <3>3 DEF Locked, Copies
  <2> QED
    BY <1>1, <2>1, <2>2 DEF Android, AndroidStep
<1>2. CASE Ubuntu
  <2>0. up = "ubuntu" /\ UNCHANGED <<previous, stage, installed>>
    BY <1>2 DEF Ubuntu, backups, machine
  <2>1. CASE \/ Prepare \/ Cancel \/ (Order /\ UNCHANGED pending)
             \/ \E a \in UbuntuActors : SwitchDone(a) \/ SwitchFailed(a)
             \/ \E a \in UbuntuActors, set \in Sets, then \in BOOLEAN : Switch(a, set, then)
    <3>1. /\ UNCHANGED <<part, androidSet, linuxSet, tears>>
          /\ \/ UNCHANGED <<step, idx>>
             \/ step # "writing" /\ step' \in {"idle", "write"}
      BY <1>0, <2>1 DEF Prepare, Cancel, Order, SwitchDone, SwitchFailed, Switch, Release, Lock, stored, lock
    <3> QED
      BY <2>0, <3>1 DEF Still, Live
  <2>2. ASSUME NEW a \in UbuntuActors, WriteStep(a), UNCHANGED pending
        PROVE  Goal
    <3>1. CASE VerifyPartition(a)
      <4>1. /\ UNCHANGED <<part, androidSet, linuxSet, tears>>
            /\ step = "verify" /\ step' \in {"write", "done"}
        BY <3>1 DEF VerifyPartition, stored
      <4> QED
        BY <2>0, <4>1 DEF Still, Live
    <3>2. CASE Writes(a)
      <4>1. UNCHANGED others
        BY <1>2, <2>2 DEF Ubuntu, others
      <4> QED
        BY <3>2, <4>1 DEF UbuntuActors
    <3> QED
      BY <2>2, <3>1, <3>2 DEF WriteStep, Writes
  <2>3. CASE \E a \in UbuntuActors : WriteStep(a) /\ UNCHANGED pending
    <3>1. PICK a \in UbuntuActors : WriteStep(a) /\ UNCHANGED pending
      BY <2>3
    <3> QED
      BY <2>2, <3>1
  <2> QED
    BY <1>2, <2>1, <2>3 DEF Ubuntu, UbuntuStep
<1>3. CASE BootAndroid
  <2>1. UNCHANGED <<part, androidSet, linuxSet, previous, stage, installed, tears, step, idx>> /\ up' = "android"
    BY <1>3 DEF BootAndroid, storage, lock
  <2> QED
    BY <2>1 DEF Still, Live, Installed, Whole
<1>4. CASE UNCHANGED vars
  BY <1>4 DEF vars, storage, Still, Live, Installed, Whole
<1> QED
  BY <1>1, <1>2, <1>3, <1>4 DEF Next, Stops

(* Nothing takes a tear back. *)
LEMMA TearsStay ==
    ASSUME TypeOK, Lock, [Next]_vars
    PROVE  tears \in Nat /\ tears' \in Nat /\ tears <= tears'
<1>1. tears \in Nat
  BY ChainAssumption DEF TypeOK, NumbersOK
<1>2. tears' \in {tears, tears + 1}
  <2>1. CASE Still
    BY <2>1 DEF Still
  <2>2. CASE \E a \in AndroidActors : Copies(a)
    BY <2>2 DEF Copies, Recover, RefreshKept, CopyPartitions, DiscardPrevious, SetAside, Install, ScriptFails
  <2>3. CASE \E a \in Actors : Writes(a)
    BY <1>1, <2>3 DEF Writes, OpenPartition, ClosePartition, PartitionFails
  <2>4. CASE Stops \/ Ota
    BY <1>1, <2>4 DEF Stops, Shutdown, UserRestart, PowerLoss, Ota, Halt
  <2>5. CASE BootUbuntu \/ RunUpdate \/ Rescue
    BY <2>5 DEF BootUbuntu, RunUpdate, Rescue
  <2> QED
    BY <2>1, <2>2, <2>3, <2>4, <2>5, Steps
<1> QED
  BY <1>1, <1>2

(* Every step keeps what a refresh knows. *)
LEMMA KnownStep ==
    ASSUME TypeOK, Lock, Backup, Known, [Next]_vars
    PROVE  Known'
<1>1. CASE Still
  <2>1. Identify' = Identify
    BY <1>1 DEF Still, Identify, Complete
  <2> QED
    BY <1>1, <2>1 DEF Still, Known
<1>2. ASSUME NEW a \in AndroidActors, Copies(a)
      PROVE  Known'
  <2>1. CASE Recover(a) \/ ScriptFails(a)
    BY <2>1 DEF Recover, ScriptFails, Known
  <2>2. CASE RefreshKept(a)
    <3>1. Identify \in {"android", "linux"}
      BY <2>2 DEF RefreshKept, LinuxStaged, Unchanged
    <3>2. UNCHANGED <<part, androidSet, linuxSet>> /\ step' = "ready"
      BY <2>2 DEF RefreshKept, stored
    <3>3. Identify' = Identify
      BY <3>2 DEF Identify, Complete
    <3> QED
      BY <3>1, <3>2, <3>3 DEF Known
  <2>3. CASE CopyPartitions(a)
    BY <2>3 DEF CopyPartitions, Known
  <2>4. CASE DiscardPrevious(a) \/ SetAside(a)
    BY <2>4 DEF DiscardPrevious, SetAside, Known
  <2>5. CASE Install(a)
    <3>1. step = "install" /\ step' = "ready" /\ androidSet' = stage /\ part' = part
      BY <2>5 DEF Install
    <3>2. part = androidSet' /\ Complete(androidSet')
      BY <3>1 DEF Known, Backup, Complete
    <3>3. Identify' = "android"
      BY <3>1, <3>2 DEF Identify, Complete
    <3> QED
      BY <3>1, <3>3 DEF Known
  <2> QED
    BY <1>2, <2>1, <2>2, <2>3, <2>4, <2>5 DEF Copies
<1>3. CASE \E a \in Actors : Writes(a)
  BY <1>3 DEF Writes, OpenPartition, ClosePartition, PartitionFails, Known
<1>4. CASE Stops \/ Ota
  BY <1>4 DEF Stops, Shutdown, UserRestart, PowerLoss, Ota, Halt, Release, Known
<1>5. CASE BootUbuntu \/ RunUpdate \/ Rescue
  <2>1. step = "idle" /\ step' = step
    BY <1>5 DEF BootUbuntu, RunUpdate, Rescue, Lock, lock
  <2> QED
    BY <2>1 DEF Known
<1> QED
  BY <1>1, <1>2, <1>3, <1>4, <1>5, Steps

(* A step that moves no image and tears none keeps what is traced.         *)
LEMMA TracedOn ==
    ASSUME Traced, ~Live, tears \in Nat, tears' \in Nat, tears <= tears',
           UNCHANGED <<part, linuxSet, installed>>, Current' = Current,
           step = "writing" => (step' = "writing" /\ idx' = idx) \/ part[idx] \notin Torns \/ tears' > 0
    PROVE  Traced'
<1>1. Installed' = Installed /\ (TornBackup => TornBackup')
  BY DEF Installed, Whole, TornBackup
<1>2. Accounted'
  BY DEF Traced, Accounted
<1>3. Current' = Installed' \/ (tears' > 0 /\ TornBackup')
  BY <1>1 DEF Traced
<1> QED
  BY <1>2, <1>3 DEF Traced

(* Every step keeps what is traced. *)
LEMMA TracedStep ==
    ASSUME TypeOK, Lock, Chain, Backup, Linux, Known, Traced, [Next]_vars
    PROVE  Traced'
<1>0. tears \in Nat /\ tears' \in Nat /\ tears <= tears'
  BY TearsStay
<1>1. CASE Still
  <2>1. CASE Live
    BY <1>1, <2>1 DEF Still, Traced
  <2>2. CASE ~Live
    <3>1. Current' = Current
      BY <1>1 DEF Still, Current
    <3> QED
      BY <1>0, <1>1, <2>2, <3>1, TracedOn DEF Still
  <2> QED
    BY <2>1, <2>2
<1>2. ASSUME up = "android", up' = up, UNCHANGED machine, NEW a \in AndroidActors, Copies(a)
      PROVE  Traced'
  <2>0. installed' = installed /\ Installed' = Installed
    BY <1>2 DEF machine, Installed, Whole
  <2>1. None # Installed /\ ~Complete(None)
    BY InstalledFull DEF Complete
  <2>2. CASE Install(a)
    <3>1. /\ step = "install" /\ step' = "ready" /\ androidSet' = stage
          /\ UNCHANGED <<part, linuxSet, previous, tears>>
      BY <2>2 DEF Install
    <3>2. stage = part /\ Complete(stage) /\ androidSet = None /\ Complete(previous)
      BY <3>1 DEF Known, Backup
    <3>3. Current' = part
      BY <2>1, <3>1, <3>2 DEF Current
    <3>4. Accounted'
      BY <3>1, <3>3 DEF Accounted
    <3>5. part = Installed \/ (tears > 0 /\ \E p \in Parts : part[p] \in Torns)
      <4>1. CASE Live
        BY <4>1 DEF Live
      <4>2. CASE ~Live
        <5>1. Accounted /\ (Current = Installed \/ (tears > 0 /\ TornBackup))
          BY <4>2 DEF Traced
        <5>2. \A p \in Parts : part[p] \notin Linuxes
          BY <3>2 DEF Linux, LinuxNeverBackup, NoLinuxIn
        <5>3. \A p \in Parts : part[p] = Current[p] \/ (part[p] \in Torns /\ tears > 0)
          BY <3>1, <5>1, <5>2 DEF Accounted, Linux
        <5>4. CASE \E p \in Parts : part[p] \in Torns /\ tears > 0
          BY <5>4
        <5>5. CASE ~ \E p \in Parts : part[p] \in Torns /\ tears > 0
          <6>1. \A p \in Parts : part[p] = Current[p]
            BY <5>3, <5>5
          <6>2. Current = Installed
            BY <5>1, <5>5, <6>1 DEF TornBackup
          <6> QED
            BY <6>1, <6>2, InstalledFull DEF TypeOK, ImagesOK, Full
        <5> QED
          BY <5>4, <5>5
      <4> QED
        BY <4>1, <4>2
    <3> QED
      BY <2>0, <3>1, <3>3, <3>4, <3>5 DEF Traced, TornBackup
  <2>3. CASE RefreshKept(a) /\ Live
    <3>1. step' = "ready" /\ UNCHANGED <<part, androidSet, linuxSet, previous, tears>>
      BY <2>3 DEF RefreshKept, stored, backups
    <3>2. part # linuxSet /\ part = Installed
      BY <2>3, InstalledFirst DEF Live, Linux
    <3>3. part = androidSet /\ Complete(androidSet)
      BY <2>3, <3>2 DEF RefreshKept, LinuxStaged, Unchanged, Identify
    <3>4. Current' = part
      BY <2>1, <3>1, <3>3 DEF Current
    <3> QED
      BY <2>0, <3>1, <3>2, <3>4 DEF Traced, Accounted
  <2>4. CASE ~Install(a)
    <3>1. /\ UNCHANGED <<part, linuxSet, tears>> /\ Current' = Current /\ step # "writing"
          /\ step' \in {"refresh", "ready", "discard", "aside", "install", "refused"}
          /\ step' = "ready" => RefreshKept(a)
      <4>1. CASE Recover(a)
        <5>1. UNCHANGED <<androidSet, previous>> \/ (androidSet = None /\ androidSet' = previous)
          BY <4>1 DEF Recover, CanRecover
        <5>2. Current' = Current
          BY <2>1, <5>1 DEF Current, Backup, BackupReachable
        <5> QED
          BY <4>1, <5>2 DEF Recover
      <4>2. CASE RefreshKept(a) \/ CopyPartitions(a)
        BY <4>2 DEF RefreshKept, CopyPartitions, Current, stored, backups
      <4>3. CASE DiscardPrevious(a)
        <5>1. androidSet # None /\ UNCHANGED <<part, androidSet, linuxSet, tears>> /\ step = "discard"
              /\ step' \in {"discard", "aside"}
          BY <2>1, <4>3 DEF DiscardPrevious, Backup, stored
        <5> QED
          BY <5>1 DEF Current
      <4>4. CASE SetAside(a)
        <5>1. /\ androidSet # None /\ androidSet' = None /\ previous' = androidSet
              /\ UNCHANGED <<part, linuxSet, tears>> /\ step = "aside" /\ step' = "install"
          BY <2>1, <4>4 DEF SetAside, Backup
        <5> QED
          BY <5>1 DEF Current
      <4>5. CASE ScriptFails(a)
        <5>1. UNCHANGED <<androidSet, previous>> \/ (androidSet = None /\ androidSet' = previous)
          BY <4>5 DEF ScriptFails, CanRecover
        <5>2. Current' = Current
          BY <2>1, <5>1 DEF Current, Backup, BackupReachable
        <5> QED
          BY <4>5, <5>2 DEF ScriptFails
      <4> QED
        BY <1>2, <2>4, <4>1, <4>2, <4>3, <4>4, <4>5 DEF Copies
    <3>2. CASE Live
      <4>1. CASE RefreshKept(a)
        BY <2>3, <3>2, <4>1
      <4>2. CASE ~RefreshKept(a)
        BY <1>2, <2>0, <3>1, <3>2, <4>2 DEF Traced, Live
      <4> QED
        BY <4>1, <4>2
    <3>3. CASE ~Live
      BY <1>0, <2>0, <3>1, <3>3, TracedOn
    <3> QED
      BY <3>2, <3>3
  <2> QED
    BY <2>2, <2>4
<1>3. ASSUME UNCHANGED others, NEW a \in Actors, Writes(a)
      PROVE  Traced'
  <2>0. UNCHANGED <<previous, installed, up>> /\ Installed' = Installed
    BY <1>3 DEF others, backups, machine, Installed, Whole
  <2>1. step \in {"write", "writing", "verify"} /\ ~Live /\ UNCHANGED <<androidSet, linuxSet>> /\ idx' = idx
    BY <1>3 DEF Writes, OpenPartition, ClosePartition, PartitionFails, Live, stored
  <2>2. Current' = Current /\ (TornBackup => TornBackup')
    BY <2>0, <2>1 DEF Current, TornBackup
  <2>3. Current' = Installed' \/ (tears' > 0 /\ TornBackup')
    BY <1>0, <2>0, <2>1, <2>2 DEF Traced
  <2>4. Accounted /\ idx \in Parts
    BY <2>1 DEF Traced, TypeOK, NumbersOK
  <2>5. CASE OpenPartition(a)
    <3>1. step = "write" /\ step' = "writing" /\ tears' = tears
      BY <2>5 DEF OpenPartition
    <3>2. \A p \in Parts : part'[p] = part[p] \/ (p = idx /\ part'[p] \in Torns)
      <4>1. CASE part' = part
        BY <4>1
      <4>2. CASE \E torn \in Torns \ {part[idx]} : part' = [part EXCEPT ![idx] = torn]
        BY <4>2 DEF TypeOK, ImagesOK, Full
      <4> QED
        BY <2>5, <4>1, <4>2 DEF OpenPartition
    <3>3. Accounted'
      BY <2>1, <2>2, <2>4, <3>1, <3>2 DEF Accounted
    <3> QED
      BY <2>3, <3>3 DEF Traced
  <2>6. CASE ClosePartition(a)
    <3>1. /\ step = "writing" /\ step' = "verify" /\ tears' = tears /\ holder = a
          /\ part' = [part EXCEPT ![idx] = Source(a)[idx]]
      BY <2>6 DEF ClosePartition
    <3>2. Source(a) \in {Current, linuxSet}
      <4>1. Complete(Source(a)) /\ ~Complete(None)
        BY <3>1, InstalledFull DEF Chain, Complete
      <4> QED
        BY <4>1 DEF Source, Stored, Current
    <3>3. /\ \A p \in Parts : p # idx => part'[p] = part[p]
          /\ part'[idx] = Source(a)[idx]
      BY <2>4, <3>1 DEF TypeOK, ImagesOK, Full
    <3>4. Accounted'
      BY <2>1, <2>2, <2>4, <3>1, <3>2, <3>3 DEF Accounted
    <3> QED
      BY <2>3, <3>4 DEF Traced
  <2>7. CASE PartitionFails(a)
    <3>1. /\ part' = part /\ tears' = tears + (IF TornNow THEN 1 ELSE 0)
      BY <2>7 DEF PartitionFails
    <3>2. step = "writing" => part[idx] \notin Torns \/ tears' > 0
      BY <1>0, <3>1 DEF TornNow
    <3> QED
      BY <1>0, <2>0, <2>1, <2>2, <3>1, <3>2, TracedOn
  <2> QED
    BY <1>3, <2>5, <2>6, <2>7 DEF Writes
<1>4. CASE Stops
  <2>1. /\ Halt /\ UNCHANGED <<part, androidSet, linuxSet, previous, installed>>
        /\ up' = "off" /\ step' = "idle" /\ tears' = tears + (IF TornNow THEN 1 ELSE 0)
    BY <1>4 DEF Stops, Shutdown, UserRestart, PowerLoss, Halt, Release, storage
  <2>2. CASE Live
    BY <2>1, <2>2 DEF Traced, Live, Installed, Whole
  <2>3. CASE ~Live
    <3>1. step = "writing" => part[idx] \notin Torns \/ tears' > 0
      BY <1>0, <2>1 DEF TornNow
    <3>2. Current' = Current
      BY <2>1 DEF Current
    <3> QED
      BY <1>0, <2>1, <2>3, <3>1, <3>2, TracedOn
  <2> QED
    BY <2>2, <2>3
<1>5. CASE Ota
  <2>1. /\ up' = "off" /\ step' = "idle" /\ part' = Installed'
    BY <1>5 DEF Ota, Halt, Release, Installed
  <2> QED
    BY <2>1 DEF Traced, Live
<1>6. CASE BootUbuntu \/ RunUpdate \/ Rescue
  <2>1. /\ up = "off" /\ step = "idle" /\ UNCHANGED <<androidSet, previous, installed, tears, step, idx>>
        /\ UNCHANGED <<part, linuxSet>> \/ part' = linuxSet'
    BY <1>6 DEF BootUbuntu, RunUpdate, Rescue, Lock, lock, storage, stored, backups
  <2>2. ~Live
    BY <1>6, InstalledFirst DEF BootUbuntu, RunUpdate, Rescue, Live
  <2>3. Current' = Current /\ Installed' = Installed
    BY <2>1 DEF Current, Installed, Whole
  <2>4. CASE UNCHANGED <<part, linuxSet>>
    BY <1>0, <2>1, <2>2, <2>3, <2>4, TracedOn
  <2>5. CASE part' = linuxSet'
    <3>1. Accounted'
      BY <2>5 DEF Accounted
    <3>2. Current' = Installed' \/ (tears' > 0 /\ TornBackup')
      BY <2>1, <2>2, <2>3 DEF Traced, TornBackup
    <3> QED
      BY <3>1, <3>2 DEF Traced
  <2> QED
    BY <2>1, <2>4, <2>5
<1> QED
  BY <1>1, <1>2, <1>3, <1>4, <1>5, <1>6, Steps

-----------------------------------------------------------------------------
IInv == TypeOK /\ Lock /\ Chain /\ Backup /\ Linux /\ Held /\ Known

LEMMA Inductive == Spec => []IInv
<1>1. Init => IInv
  <2> SUFFICES ASSUME Init PROVE IInv
    OBVIOUS
  <2> USE ChainAssumption, DualBootAssumption
  <2>1. \A r \in Image : Whole(r) \in Full
    BY DEF Whole, Full
  <2>2. installed \in Image /\ androidSet = Whole(installed)
    BY DEF Init, Image
  <2>3. PICK l \in Linuxes : linuxSet = Whole(l)
    BY DEF Init
  <2>4. androidSet \in Full /\ linuxSet \in Full /\ part \in Full
    BY <2>1, <2>2, <2>3 DEF Init, Image
  <2>5. ImagesOK /\ NumbersOK
    BY <2>4 DEF Init, ImagesOK, NumbersOK, Directory, Parts
  <2>6. NamesOK /\ ActorsOK
    BY DEF Init, NamesOK, ActorsOK, Sets
  <2>7. FlagsOK
    BY DEF Init, FlagsOK
  <2>8. Lock /\ Chain /\ Held /\ Known
    BY DEF Init, Lock, Chain, Held, Known
  <2>9. Backup
    BY <2>4 DEF Init, Backup, BackupReachable, Complete
  <2>10. Linux
    <3>1. \A p \in Parts : linuxSet[p] = l /\ androidSet[p] = installed
      BY <2>2, <2>3 DEF Whole
    <3>2. None \notin Full /\ installed \notin Linuxes
      BY DEF Init
    <3>3. part \in {androidSet, linuxSet} /\ previous = None /\ stage = None /\ step = "idle"
      BY DEF Init
    <3>4. QED
      BY <3>1, <3>2, <3>3 DEF Linux, LinuxNeverBackup, NoLinuxIn, Complete
  <2>11. QED
    BY <2>5, <2>6, <2>7, <2>8, <2>9, <2>10 DEF IInv, TypeOK
<1>2. IInv /\ [Next]_vars => IInv'
  BY TypeStep, LockStep, ChainStep, BackupStep, LinuxStep, HeldStep, KnownStep DEF IInv
<1>3. QED
  BY <1>1, <1>2, PTL DEF Spec

-----------------------------------------------------------------------------
(* Every variable keeps its type, through any crashes, failures and        *)
(* interleavings of the app, the tile, the job and Ubuntu's two switches.  *)
THEOREM TypeCorrect == Spec => []TypeOK
<1>1. IInv => TypeOK
  BY DEF IInv
<1>2. QED
  BY <1>1, Inductive, PTL

(* The backup transaction of refresh-android.sh can be cut anywhere: a     *)
(* complete Android set is in its place, or recoverInterrupted finds one.  *)
THEOREM BackupSafe == Spec => []BackupReachable
<1>1. IInv => BackupReachable
  BY DEF IInv, Backup
<1>2. QED
  BY <1>1, Inductive, PTL

(* backupDecision and the copy never let an image of Ubuntu into the       *)
(* Android set, its predecessor or its successor.                          *)
THEOREM LinuxKeptOut == Spec => []LinuxNeverBackup
<1>1. IInv => LinuxNeverBackup
  BY DEF IInv, Linux
<1>2. QED
  BY <1>1, Inductive, PTL

(* An update leaves the only copy of the new Android on the partitions.    *)
(* AndroidSwitcher refreshes before it writes, and a refresh copies only   *)
(* what it does not recognise: the installed Android's chain is kept, or a *)
(* second write has been torn and a chain with a torn image taken for the  *)
(* Android set (refresh-android.sh:29), whose predecessor that one was.    *)
THEOREM AndroidStaysKept == Spec => [](AndroidKept \/ (tears > 1 /\ TornBackup))
<1>1. Init => Kept /\ Traced
  <2> SUFFICES ASSUME Init PROVE Kept /\ Traced
    OBVIOUS
  <2>1. androidSet = Installed /\ part \in {androidSet, linuxSet} /\ step = "idle"
    BY DEF Init, Installed
  <2>2. androidSet # None
    <3>1. installed \in Image
      BY DEF Init, Image
    <3> QED
      BY <2>1, <3>1, ChainAssumption DEF Installed, Whole, Full
  <2>3. QED
    BY <2>1, <2>2 DEF Kept, Remnants, Traced, Accounted, Current
<1>2. IInv /\ (tears <= 1 => Kept) /\ [Next]_vars => (tears <= 1 => Kept)'
  <2> SUFFICES ASSUME IInv, tears <= 1 => Kept, [Next]_vars, tears' <= 1 PROVE Kept'
    OBVIOUS
  <2>1. tears <= 1
    BY TearsStay DEF IInv
  <2> QED
    BY <2>1, KeptStep DEF IInv
<1>3. IInv /\ Traced /\ [Next]_vars => Traced'
  BY TracedStep DEF IInv
<1>4. IInv /\ (tears <= 1 => Kept) /\ Traced => AndroidKept \/ (tears > 1 /\ TornBackup)
  <2> SUFFICES ASSUME IInv, tears <= 1 => Kept, Traced PROVE AndroidKept \/ (tears > 1 /\ TornBackup)
    OBVIOUS
  <2>1. tears \in Nat
    BY ChainAssumption DEF IInv, TypeOK, NumbersOK
  <2>2. CASE tears <= 1
    BY <2>2 DEF Kept, Live, Installed, AndroidKept
  <2>3. CASE Live \/ Current = Installed
    BY <2>3 DEF Live, Current, Installed, AndroidKept
  <2> QED
    BY <2>1, <2>2, <2>3 DEF Traced
<1>5. QED
  BY <1>1, <1>2, <1>3, <1>4, Inductive, PTL DEF Spec

(* When a write loop of either system reports success, all the partitions  *)
(* are the set's at once, whoever else wanted to write.                    *)
THEOREM SuccessIsWhole == Spec => []WrittenWhole
<1>1. IInv => WrittenWhole
  <2> SUFFICES ASSUME IInv, step = "done" PROVE part = Stored(goal[holder])
    BY DEF WrittenWhole
  <2>1. part \in Full /\ Source(holder) \in Full
    BY DEF IInv, TypeOK, ImagesOK, Chain, Complete
  <2>2. \A p \in Parts : part[p] = Source(holder)[p]
    BY DEF IInv, Chain
  <2>3. part = Source(holder)
    BY <2>1, <2>2 DEF Full
  <2>4. QED
    BY <2>3 DEF Source
<1>2. QED
  BY <1>1, Inductive, PTL

(* Whoever restarts has left the lock with a chain of a stored set, and of *)
(* its own when it wrote it: a failed write, its own or an earlier one, is *)
(* not restarted into, though the tile and the app use what they were told *)
(* before (BootSwitchTile.kt:125, SwitcherViewModel.kt:124).               *)
THEOREM RestartIsKnown == Spec => RestartKnown
<1>1. ASSUME IInv, [Next]_vars, NEW a \in Actors, holder = a, holder' = None
      PROVE  /\ GoesOn(a) => part = Stored(goal[a]) /\ Complete(Stored(goal[a]))
             /\ restart' \notin {None, restart} => Identify # "none"
  <2>0. a # None
    BY ChainAssumption
  <2>1. CASE \/ \E b \in AndroidActors : WriteDone(b)
             \/ \E b \in UbuntuActors : SwitchDone(b)
    <3>1. step = "done" /\ restart' = restart
      BY <2>1 DEF WriteDone, SwitchDone
    <3>2. Complete(Source(a)) /\ \A p \in Parts : part[p] = Source(a)[p]
      BY <1>1, <3>1 DEF IInv, Chain
    <3>3. part = Source(a)
      BY <1>1, <3>2 DEF IInv, TypeOK, ImagesOK, Complete, Full
    <3> QED
      BY <3>1, <3>2, <3>3 DEF Source
  <2>2. CASE \E b \in AndroidActors : NextEnd(b)
    <3>1. ordering' = ordering /\ pc'[a] # "wrote"
      BY <1>1, <2>2 DEF NextEnd, End, IInv, TypeOK, ActorsOK
    <3>2. restart' = restart \/ step = "ready"
      BY <2>2 DEF NextEnd
    <3> QED
      BY <1>1, <3>1, <3>2 DEF GoesOn, IInv, Known
  <2>3. CASE \/ \E b \in AndroidActors : ReadEnd(b) \/ WriteStops(b)
             \/ \E b \in UbuntuActors : SwitchFailed(b)
    <3>1. ordering' = ordering /\ pc'[a] # "wrote" /\ restart' = restart
      BY <1>1, <2>3 DEF ReadEnd, WriteStops, SwitchFailed, End, Begin, IInv, TypeOK, ActorsOK
    <3> QED
      BY <3>1 DEF GoesOn
  <2>4. CASE Stops \/ Ota
    <3>1. ordering' = {} /\ pc'[a] = "idle" /\ restart' = None
      BY <1>1, <2>4 DEF Stops, Shutdown, UserRestart, PowerLoss, Ota, Halt
    <3> QED
      BY <3>1 DEF GoesOn
  <2>5. CASE Android
    <3>1. PICK b \in AndroidActors : ReadEnd(b) \/ WriteStops(b) \/ WriteDone(b) \/ NextEnd(b)
      BY <1>1, <2>0, <2>5 DEF Android, AndroidStep, Locked, AppRefresh, AppWrite, AppRestart, TileRead,
        TileSwitch, TileDismiss, AppWrote, Order, JobStart, Enter, Recover, RefreshKept, RefreshRefused,
        RefreshCopies, CopyPartitions, DiscardPrevious, SetAside, Install, ScriptFails,
        WriteBegin, WriteStep, OpenPartition, ClosePartition, VerifyPartition, PartitionFails, lock
    <3> QED
      BY <3>1, <2>1, <2>2, <2>3
  <2>6. CASE Ubuntu
    <3>1. PICK b \in UbuntuActors : SwitchDone(b) \/ SwitchFailed(b)
      BY <1>1, <2>0, <2>6 DEF Ubuntu, UbuntuStep, Switch, Prepare, Cancel, Order,
        WriteStep, OpenPartition, ClosePartition, VerifyPartition, PartitionFails, lock
    <3> QED
      BY <3>1, <2>1, <2>3
  <2>7. CASE BootAndroid \/ BootUbuntu \/ RunUpdate \/ Rescue \/ UNCHANGED vars
    BY <1>1, <2>0, <2>7 DEF BootAndroid, BootUbuntu, RunUpdate, Rescue, vars, lock
  <2> QED
    BY <1>1, <2>4, <2>5, <2>6, <2>7 DEF Next, Stops
<1>2. IInv /\ [Next]_vars =>
        \A a \in Actors : holder = a /\ holder' = None =>
           /\ GoesOn(a) => part = Stored(goal[a]) /\ Complete(Stored(goal[a]))
           /\ restart' \notin {None, restart} => Identify # "none"
  BY <1>1
<1> QED
  BY <1>2, Inductive, PTL DEF Spec, RestartKnown

(* From prepare to cancel or restart, tab-companion-boot-switch leaves the *)
(* boot chain alone: the update is applied to the chain it was made for.   *)
THEOREM PreparedHolds == Spec => PendingHeld
<1>1. IInv /\ [Next]_vars => (up = "ubuntu" /\ pending /\ pending' => part' = part)
  <2> SUFFICES ASSUME IInv, [Next]_vars, up = "ubuntu", pending, pending'
               PROVE  part' = part
    OBVIOUS
  <2>1. holder = None
    BY DEF IInv, Held
  <2>2. \A a \in Actors : a # None
    BY ChainAssumption
  <2>3. CASE Ubuntu
    <3>1. ASSUME NEW a \in Actors, WriteStep(a) PROVE FALSE
      BY <2>1, <2>2, <3>1 DEF WriteStep, OpenPartition, ClosePartition, VerifyPartition, PartitionFails
    <3>2. QED
      BY <2>3, <3>1 DEF Ubuntu, UbuntuStep, Order, UbuntuActors, Switch, SwitchDone, SwitchFailed, Prepare, Cancel
  <2>4. CASE Shutdown \/ UserRestart \/ PowerLoss
    BY <2>4 DEF Shutdown, UserRestart, PowerLoss, storage
  <2>5. CASE UNCHANGED vars
    BY <2>5 DEF vars, storage
  <2>6. QED
    BY <2>3, <2>4, <2>5 DEF Next, Android, BootAndroid, BootUbuntu, RunUpdate, Ota, Rescue
<1>2. QED
  BY <1>1, Inductive, PTL DEF Spec, PendingHeld

=============================================================================
