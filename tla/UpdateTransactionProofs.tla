---------------------- MODULE UpdateTransactionProofs ----------------------
(***************************************************************************)
(* Theorems about UpdateTransaction, for any number of partitions,         *)
(* releases, updates and crashes.                                          *)
(***************************************************************************)
EXTENDS UpdateTransaction, TLAPS

-----------------------------------------------------------------------------
(* The inductive invariant behind Recoverable, CommitMatched and            *)
(* CommitIsFinal.                                                          *)

StagedPcs == {"prep_stage", "prep_ready", "prep_mark"}
RunnerPcs == {"begin", "fail"} \cup TryPcs \cup RestorePcs
BackedUpPcs == (TryPcs \ {"check", "backup", "seal"}) \cup RestorePcs
WrittenPcs == {"set_aside", "install_set", "identify", "commit"}

\* Where the operation is, what it has staged and whether it is pending.
Control ==
    /\ pc \in {"writing", "restoring"} => k <= NumParts
    /\ marker => target \in Releases
    /\ pc \in PreparePcs \cup CancelPcs => ~marker
    /\ pc \in {"prep_ready", "prep_mark"} => target \in Releases
    /\ pc \in RunnerPcs => marker
    /\ pc \in TryPcs \cup RestorePcs \cup {"fail"} => status = "applying"
    /\ pc \in StagedPcs => status # "complete"

\* A completed backup holds the old boot chain, and until there is one the
\* partitions do.
Covered ==
    /\ backup.done => backup.part = before.part
    /\ (marker \/ pc \in StagedPcs) /\ ~backup.done => part = before.part
    /\ pc \in StagedPcs \cup {"prep_clear", "prep_status", "can_clear",
                              "backup", "seal"} => ~backup.done
    /\ pc = "seal" => backup.part = part
    /\ pc \in BackedUpPcs => backup.done

\* How far the installation has come.
Progress ==
    /\ pc \in {"write", "writing"} =>
        modules = target /\ \A i \in Parts : i < k => part[i] = target
    /\ pc \in WrittenPcs => modules = target /\ part = Image(target)
    /\ pc \in {"identify", "commit"} => saved = target
    /\ pc = "commit" => identity = target

IInv == TypeOK /\ Control /\ Covered /\ Progress /\ Recoverable /\ CommitMatched

-----------------------------------------------------------------------------

\* The groups of variables and the two ways a step moves the program counter
\* are unfolded everywhere.
USE DEF system, txn, pending, proc, bounds, Goto, Step, Exit,
        RemoveMarker, AfterCheck,
        KeptSet, AfterFailure, StaysUp

LEMMA KOne == 1 \in 1 .. NumParts + 1
BY UpdateAssumption

LEMMA NoBackupType == NoBackup \in BackupDir
BY DEF NoBackup, BackupDir, Image, Content

LEMMA NowType ==
    ASSUME part \in [Parts -> Content], modules \in Content,
           identity \in Releases \cup {None}, saved \in Releases \cup {None}
    PROVE  Now \in Installed
BY DEF Now, Installed

LEMMA BackupFields ==
    ASSUME NEW b \in BackupDir
    PROVE  /\ b.part \in [Parts -> Content]
           /\ b.modules \in Content
           /\ b.identity \in Releases \cup {None}
           /\ b.done \in BOOLEAN
           /\ [b EXCEPT !.done = TRUE] \in BackupDir
           /\ [b EXCEPT !.done = TRUE].done
           /\ [b EXCEPT !.done = TRUE].part = b.part
BY DEF BackupDir

\* Copying to a partition leaves every partition with some content, and the
\* other partitions with theirs.
LEMMA CopyType ==
    ASSUME NEW f \in [Parts -> Content], NEW c \in Content, NEW p
    PROVE  /\ [f EXCEPT ![p] = c] \in [Parts -> Content]
           /\ \A q \in Parts : [f EXCEPT ![p] = c][q] = IF q = p THEN c ELSE f[q]
OBVIOUS

-----------------------------------------------------------------------------
(* Types and control. *)

LEMMA CountersStep == Counters /\ Control /\ [Next]_vars => Counters'
<1> SUFFICES ASSUME Counters, Control, [Next]_vars PROVE Counters'
  OBVIOUS
<1> USE KOne, UpdateAssumption DEF Counters
<1>1. CASE Prepare
  BY <1>1 DEF Prepare, PrepareStart, PrepareArchive, PrepareClear,
     PrepareStatus, PrepareStage, PrepareReady, PrepareMark, PrepareFail,
     ArchiveBackup, ClearTransaction
<1>2. CASE CancelUpdate
  BY <1>2 DEF CancelUpdate, Cancel, CancelIdle, CancelArchive, CancelClear,
     ArchiveBackup, ClearTransaction
<1>3. CASE Apply
  BY <1>3 DEF Apply, BeginCommitted, BeginApply, BeginStatusFails, Check,
     Backup, Seal, Apt, AptDone, WriteStart, WriteDone, WritesDone, SetAside,
     InstallSet, Identify, Commit, CopyStart, CopyDone, Control
<1>4. CASE Finish
  BY <1>4 DEF Finish, ApplyFail, RestoreStart, RestoreDone, RestoreModules,
     RestoreIdentity, RestoreSet, RestoreCopy, RestoreFail, SetFailed,
     SetFailedFails, Unmark, FailUnmark, Reboot, CopyStart, CopyDone, Control
<1>5. CASE \/ Killed \/ UserPackages \/ UserRestart \/ Boot \/ Crash
           \/ UNCHANGED vars
  BY <1>5 DEF Killed, UserPackages, UserRestart, Boot, Crash, vars
<1> QED
  BY <1>1, <1>2, <1>3, <1>4, <1>5 DEF Next

LEMMA ArchiveType ==
    ASSUME TypeOK, Counters', NEW here, NEW next \in Pcs,
           ArchiveBackup(here, next)
    PROVE  TypeOK'
<1>1. backup.part \in [Parts -> Content]
  BY BackupFields DEF TypeOK
<1>2. archive' \in SUBSET [Parts -> Content]
  BY <1>1 DEF ArchiveBackup, TypeOK
<1>3. backup' \in BackupDir /\ oldSet' \in Releases \cup {None}
  BY NoBackupType DEF ArchiveBackup, TypeOK
<1> QED
  BY <1>2, <1>3 DEF ArchiveBackup, TypeOK

LEMMA TypeStep == TypeOK /\ Control /\ [Next]_vars => TypeOK'
<1> SUFFICES ASSUME TypeOK, Control, [Next]_vars PROVE TypeOK'
  OBVIOUS
<1>0. Counters'
  BY CountersStep DEF TypeOK
<1>1. TypeOK'
  <2> USE <1>0 DEF TypeOK
  <2>1. CASE Prepare
    <3>1. CASE PrepareStart
      BY <3>1
         DEF PrepareStart, Pcs, PreparePcs
    <3>2. CASE PrepareArchive
      BY <3>2, ArchiveType DEF PrepareArchive, Pcs, PreparePcs
    <3>3. CASE PrepareClear
      BY <3>3, NoBackupType
         DEF PrepareClear, ClearTransaction, Pcs, PreparePcs
    <3>4. CASE PrepareStatus
      BY <3>4, NowType
         DEF PrepareStatus, Pcs, PreparePcs, Statuses
    <3>5. CASE \E r \in Releases : PrepareStage(r)
      BY <3>5
         DEF PrepareStage, Pcs, PreparePcs
    <3>6. CASE PrepareReady
      BY <3>6
         DEF PrepareReady, Pcs, PreparePcs, Statuses
    <3>7. CASE PrepareMark
      BY <3>7
         DEF PrepareMark, Pcs
    <3>8. CASE PrepareFail
      BY <3>8
         DEF PrepareFail, Pcs, Statuses
    <3> QED
      BY <2>1, <3>1, <3>2, <3>3, <3>4, <3>5, <3>6, <3>7, <3>8
         DEF Prepare
  <2>2. CASE CancelUpdate
    <3>1. CASE Cancel
      BY <3>1
         DEF Cancel, Pcs, CancelPcs
    <3>2. CASE CancelIdle
      BY <3>2
         DEF CancelIdle, Pcs, CancelPcs, Statuses
    <3>3. CASE CancelArchive
      BY <3>3, ArchiveType DEF CancelArchive, Pcs, CancelPcs
    <3>4. CASE CancelClear
      BY <3>4, NoBackupType
         DEF CancelClear, ClearTransaction, Pcs
    <3> QED
      BY <2>2, <3>1, <3>2, <3>3, <3>4
         DEF CancelUpdate
  <2>3. CASE Apply
    <3>1. CASE BeginCommitted
      BY <3>1
         DEF BeginCommitted, Pcs, FinalPcs
    <3>2. CASE BeginApply
      BY <3>2
         DEF BeginApply, Pcs, TryPcs, Statuses
    <3>3. CASE BeginStatusFails
      BY <3>3
         DEF BeginStatusFails, Pcs, FinalPcs
    <3>4. CASE Check
      BY <3>4
         DEF Check, Pcs, TryPcs
    <3>5. CASE Backup
      BY <3>5
         DEF Backup, Pcs, TryPcs, BackupDir
    <3>6. CASE Seal
      BY <3>6, BackupFields
         DEF Seal, Pcs, TryPcs
    <3>7. CASE Apt
      BY <3>7
         DEF Apt, Pcs, TryPcs, Content
    <3>8. CASE AptDone
      BY <3>8
         DEF AptDone, Pcs, TryPcs, Content, Control, RunnerPcs
    <3>9. CASE WriteStart
      BY <3>9, CopyType
         DEF WriteStart, CopyStart, Pcs, TryPcs, Content
    <3>10. CASE WriteDone
      BY <3>10, CopyType
         DEF WriteDone, CopyDone, Pcs, TryPcs, Content, Control, RunnerPcs
    <3>11. CASE WritesDone
      BY <3>11
         DEF WritesDone, Pcs, TryPcs
    <3>12. CASE SetAside
      BY <3>12
         DEF SetAside, Pcs, TryPcs
    <3>13. CASE InstallSet
      BY <3>13
         DEF InstallSet, Pcs, TryPcs
    <3>14. CASE Identify
      BY <3>14
         DEF Identify, Pcs, TryPcs
    <3>15. CASE Commit
      BY <3>15
         DEF Commit, Pcs, FinalPcs, Statuses
    <3> QED
      BY <2>3, <3>1, <3>2, <3>3, <3>4, <3>5, <3>6, <3>7, <3>8, <3>9, <3>10,
         <3>11, <3>12, <3>13, <3>14, <3>15
         DEF Apply
  <2>4. CASE Finish
    <3>1. CASE ApplyFail
      BY <3>1
         DEF ApplyFail, Pcs, FinalPcs, RestorePcs
    <3>2. CASE RestoreStart
      BY <3>2, CopyType
         DEF RestoreStart, CopyStart, Pcs, RestorePcs, Content
    <3>3. CASE RestoreDone
      BY <3>3, CopyType, BackupFields, UpdateAssumption
         DEF RestoreDone, CopyDone, Pcs, RestorePcs, Control, Counters, Parts
    <3>4. CASE RestoreModules
      BY <3>4, BackupFields
         DEF RestoreModules, Pcs, RestorePcs
    <3>5. CASE RestoreIdentity
      BY <3>5, BackupFields
         DEF RestoreIdentity, Pcs, RestorePcs
    <3>6. CASE RestoreSet
      BY <3>6
         DEF RestoreSet, Pcs, RestorePcs, FinalPcs
    <3>7. CASE RestoreCopy
      BY <3>7
         DEF RestoreCopy, Pcs, FinalPcs
    <3>8. CASE RestoreFail
      BY <3>8
         DEF RestoreFail, Pcs, FinalPcs
    <3>9. CASE SetFailed
      BY <3>9
         DEF SetFailed, Pcs, FinalPcs, Statuses
    <3>10. CASE SetFailedFails
      BY <3>10
         DEF SetFailedFails, Pcs, FinalPcs
    <3>11. CASE Unmark
      BY <3>11
         DEF Unmark, Pcs, FinalPcs
    <3>12. CASE FailUnmark
      BY <3>12
         DEF FailUnmark, Pcs, FinalPcs
    <3>13. CASE Reboot
      BY <3>13
         DEF Reboot, Pcs
    <3> QED
      BY <2>4, <3>1, <3>2, <3>3, <3>4, <3>5, <3>6, <3>7, <3>8, <3>9, <3>10,
         <3>11, <3>12, <3>13
         DEF Finish
  <2>5. CASE Killed
    BY <2>5
       DEF Killed, Pcs
  <2>6. CASE UserPackages
    BY <2>6
       DEF UserPackages, Pcs
  <2>7. CASE UserRestart
    BY <2>7
       DEF UserRestart, Pcs
  <2>8. CASE Boot
    BY <2>8
       DEF Boot, Pcs, FinalPcs
  <2>9. CASE Crash
    BY <2>9
       DEF Crash, Pcs
  <2>10. CASE UNCHANGED vars
    BY <2>10
       DEF vars, Pcs
  <2> QED
    BY <2>1, <2>2, <2>3, <2>4, <2>5, <2>6, <2>7, <2>8, <2>9, <2>10 DEF Next
<1> QED
  BY <1>1

LEMMA ControlStep == TypeOK /\ Control /\ [Next]_vars => Control'
<1> SUFFICES ASSUME TypeOK, Control, [Next]_vars PROVE Control'
  OBVIOUS
<1>1. Control'
  <2> USE DEF Control, PreparePcs, CancelPcs, TryPcs, RestorePcs, RunnerPcs,
             StagedPcs
  <2>1. CASE Prepare
    <3>1. CASE PrepareStart
      BY <3>1
         DEF PrepareStart, PrepareRefused
    <3>2. CASE PrepareArchive
      BY <3>2
         DEF PrepareArchive, ArchiveBackup
    <3>3. CASE PrepareClear
      BY <3>3
         DEF PrepareClear, ClearTransaction
    <3>4. CASE PrepareStatus
      BY <3>4
         DEF PrepareStatus
    <3>5. CASE \E r \in Releases : PrepareStage(r)
      BY <3>5
         DEF PrepareStage
    <3>6. CASE PrepareReady
      BY <3>6
         DEF PrepareReady
    <3>7. CASE PrepareMark
      BY <3>7
         DEF PrepareMark
    <3>8. CASE PrepareFail
      BY <3>8
         DEF PrepareFail
    <3> QED
      BY <2>1, <3>1, <3>2, <3>3, <3>4, <3>5, <3>6, <3>7, <3>8
         DEF Prepare
  <2>2. CASE CancelUpdate
    <3>1. CASE Cancel
      BY <3>1
         DEF Cancel
    <3>2. CASE CancelIdle
      BY <3>2
         DEF CancelIdle
    <3>3. CASE CancelArchive
      BY <3>3
         DEF CancelArchive, ArchiveBackup
    <3>4. CASE CancelClear
      BY <3>4
         DEF CancelClear, ClearTransaction
    <3> QED
      BY <2>2, <3>1, <3>2, <3>3, <3>4
         DEF CancelUpdate
  <2>3. CASE Apply
    <3>1. CASE BeginCommitted
      BY <3>1
         DEF BeginCommitted
    <3>2. CASE BeginApply
      BY <3>2
         DEF BeginApply
    <3>3. CASE BeginStatusFails
      BY <3>3
         DEF BeginStatusFails
    <3>4. CASE Check
      BY <3>4
         DEF Check
    <3>5. CASE Backup
      BY <3>5
         DEF Backup
    <3>6. CASE Seal
      BY <3>6
         DEF Seal
    <3>7. CASE Apt
      BY <3>7
         DEF Apt
    <3>8. CASE AptDone
      BY <3>8
         DEF AptDone
    <3>9. CASE WriteStart
      BY <3>9
         DEF WriteStart, CopyStart
    <3>10. CASE WriteDone
      BY <3>10
         DEF WriteDone, CopyDone
    <3>11. CASE WritesDone
      BY <3>11
         DEF WritesDone
    <3>12. CASE SetAside
      BY <3>12
         DEF SetAside
    <3>13. CASE InstallSet
      BY <3>13
         DEF InstallSet
    <3>14. CASE Identify
      BY <3>14
         DEF Identify
    <3>15. CASE Commit
      BY <3>15
         DEF Commit
    <3> QED
      BY <2>3, <3>1, <3>2, <3>3, <3>4, <3>5, <3>6, <3>7, <3>8, <3>9, <3>10,
         <3>11, <3>12, <3>13, <3>14, <3>15
         DEF Apply
  <2>4. CASE Finish
    <3>1. CASE ApplyFail
      BY <3>1
         DEF ApplyFail
    <3>2. CASE RestoreStart
      BY <3>2
         DEF RestoreStart, CopyStart
    <3>3. CASE RestoreDone
      BY <3>3
         DEF RestoreDone, CopyDone
    <3>4. CASE RestoreModules
      BY <3>4
         DEF RestoreModules
    <3>5. CASE RestoreIdentity
      BY <3>5
         DEF RestoreIdentity
    <3>6. CASE RestoreSet
      BY <3>6
         DEF RestoreSet
    <3>7. CASE RestoreCopy
      BY <3>7
         DEF RestoreCopy
    <3>8. CASE RestoreFail
      BY <3>8
         DEF RestoreFail
    <3>9. CASE SetFailed
      BY <3>9
         DEF SetFailed
    <3>10. CASE SetFailedFails
      BY <3>10
         DEF SetFailedFails
    <3>11. CASE Unmark
      BY <3>11
         DEF Unmark
    <3>12. CASE FailUnmark
      BY <3>12
         DEF FailUnmark
    <3>13. CASE Reboot
      BY <3>13
         DEF Reboot
    <3> QED
      BY <2>4, <3>1, <3>2, <3>3, <3>4, <3>5, <3>6, <3>7, <3>8, <3>9, <3>10,
         <3>11, <3>12, <3>13
         DEF Finish
  <2>5. CASE Killed
    BY <2>5
       DEF Killed
  <2>6. CASE UserPackages
    BY <2>6
       DEF UserPackages
  <2>7. CASE UserRestart
    BY <2>7
       DEF UserRestart
  <2>8. CASE Boot
    BY <2>8
       DEF Boot
  <2>9. CASE Crash
    BY <2>9
       DEF Crash
  <2>10. CASE UNCHANGED vars
    BY <2>10
       DEF vars
  <2> QED
    BY <2>1, <2>2, <2>3, <2>4, <2>5, <2>6, <2>7, <2>8, <2>9, <2>10 DEF Next
<1> QED
  BY <1>1

-----------------------------------------------------------------------------
(* The backup and what it covers. *)

\* Moving the backup away loses nothing.
LEMMA ArchiveCovered ==
    ASSUME Covered, Recoverable, NEW here, NEW next,
           next \notin BackedUpPcs,
           next \notin {"backup", "seal"}, ArchiveBackup(here, next),
           ~marker, next \notin StagedPcs
    PROVE  Covered' /\ Recoverable'
<1>1. CASE backup.done
  <2>1. /\ archive' = archive \cup {backup.part}
        /\ ~backup'.done
        /\ pc' = next
        /\ UNCHANGED <<part, marker, before>>
    BY <1>1 DEF ArchiveBackup, NoBackup
  <2>2. before.part \in archive'
    BY <1>1, <2>1 DEF Covered
  <2> QED
    BY <2>1, <2>2 DEF Covered, Recoverable
<1>2. CASE ~backup.done
  <2>1. pc' = next /\ UNCHANGED <<part, marker, before, backup, archive>>
    BY <1>2 DEF ArchiveBackup
  <2> QED
    BY <1>2, <2>1 DEF Covered, Recoverable
<1> QED
  BY <1>1, <1>2

LEMMA SealBackup ==
    ASSUME NEW b \in BackupDir
    PROVE  /\ [b EXCEPT !.done = TRUE].done
           /\ [b EXCEPT !.done = TRUE].part = b.part
BY DEF BackupDir

LEMMA CoveredStep == IInv /\ [Next]_vars => Covered' /\ Recoverable'
<1> SUFFICES ASSUME IInv, [Next]_vars PROVE Covered' /\ Recoverable'
  OBVIOUS
<1>0. TypeOK /\ Control /\ Covered /\ Recoverable
  BY DEF IInv
<1> USE <1>0 DEF Covered, Recoverable, PreparePcs, CancelPcs, TryPcs,
        RestorePcs, RunnerPcs, StagedPcs, BackedUpPcs
<1>1. CASE Prepare
  <2>1. CASE PrepareStart
    BY <2>1 DEF PrepareStart, PrepareRefused
  <2>2. CASE PrepareArchive
    <3>1. ArchiveBackup("prep_archive", "prep_clear")
      BY <2>2 DEF PrepareArchive
    <3>2. ~marker
      BY <3>1 DEF ArchiveBackup, Control
    <3>3. /\ "prep_clear" \notin BackedUpPcs \cup StagedPcs
          /\ "prep_clear" \notin {"backup", "seal"}
      OBVIOUS
    <3> HIDE DEF Covered, Recoverable, StagedPcs, BackedUpPcs
    <3> QED
      BY <1>0, <3>1, <3>2, <3>3, ArchiveCovered
  <2>3. CASE PrepareClear
    BY <2>3 DEF PrepareClear, ClearTransaction, NoBackup
  <2>4. CASE PrepareStatus
    BY <2>4 DEF PrepareStatus, Now
  <2>5. CASE \E r \in Releases : PrepareStage(r)
    BY <2>5 DEF PrepareStage
  <2>6. CASE PrepareReady
    BY <2>6 DEF PrepareReady
  <2>7. CASE PrepareMark
    BY <2>7 DEF PrepareMark, Control
  <2>8. CASE PrepareFail
    BY <2>8 DEF PrepareFail
  <2> QED
    BY <1>1, <2>1, <2>2, <2>3, <2>4, <2>5, <2>6, <2>7, <2>8 DEF Prepare
<1>2. CASE CancelUpdate
  <2>1. CASE Cancel
    BY <2>1 DEF Cancel
  <2>2. CASE CancelIdle
    BY <2>2 DEF CancelIdle
  <2>3. CASE CancelArchive
    <3>1. ArchiveBackup("can_archive", "can_clear")
      BY <2>3 DEF CancelArchive
    <3>2. ~marker
      BY <3>1 DEF ArchiveBackup, Control
    <3>3. /\ "can_clear" \notin BackedUpPcs \cup StagedPcs
          /\ "can_clear" \notin {"backup", "seal"}
      OBVIOUS
    <3> HIDE DEF Covered, Recoverable, StagedPcs, BackedUpPcs
    <3> QED
      BY <1>0, <3>1, <3>2, <3>3, ArchiveCovered
  <2>4. CASE CancelClear
    BY <2>4 DEF CancelClear, ClearTransaction, NoBackup
  <2> QED
    BY <1>2, <2>1, <2>2, <2>3, <2>4 DEF CancelUpdate
<1>3. CASE Apply
  <2>1. CASE BeginCommitted
    BY <2>1 DEF BeginCommitted, Control
  <2>2. CASE BeginApply
    BY <2>2 DEF BeginApply, Control
  <2>3. CASE BeginStatusFails
    BY <2>3 DEF BeginStatusFails
  <2>4. CASE Check
    BY <2>4 DEF Check, Control
  <2>5. CASE Backup
    BY <2>5 DEF Backup, Control
  <2>6. CASE Seal
    <3>1. backup'.done /\ backup'.part = backup.part
      BY <2>6, SealBackup DEF Seal, TypeOK
    <3>2. pc' = "apt" /\ UNCHANGED <<part, marker, before, archive>>
      BY <2>6 DEF Seal
    <3>3. backup.part = before.part
      BY <2>6, Zenon DEF Seal, Control
    <3> QED
      BY <3>1, <3>2, <3>3
  <2>7. CASE Apt
    BY <2>7 DEF Apt, Control
  <2>8. CASE AptDone
    BY <2>8 DEF AptDone
  <2>9. CASE WriteStart
    BY <2>9 DEF WriteStart, CopyStart
  <2>10. CASE WriteDone
    BY <2>10 DEF WriteDone, CopyDone
  <2>11. CASE WritesDone
    BY <2>11 DEF WritesDone
  <2>12. CASE SetAside
    BY <2>12 DEF SetAside
  <2>13. CASE InstallSet
    BY <2>13 DEF InstallSet
  <2>14. CASE Identify
    BY <2>14 DEF Identify
  <2>15. CASE Commit
    BY <2>15 DEF Commit
  <2> QED
    BY <1>3, <2>1, <2>2, <2>3, <2>4, <2>5, <2>6, <2>7, <2>8, <2>9, <2>10,
       <2>11, <2>12, <2>13, <2>14, <2>15
       DEF Apply
<1>4. CASE Finish
  <2>1. CASE ApplyFail
    BY <2>1 DEF ApplyFail, Control
  <2>2. CASE RestoreStart
    BY <2>2 DEF RestoreStart, CopyStart
  <2>3. CASE RestoreDone
    BY <2>3 DEF RestoreDone, CopyDone
  <2>4. CASE RestoreModules
    BY <2>4 DEF RestoreModules
  <2>5. CASE RestoreIdentity
    BY <2>5 DEF RestoreIdentity
  <2>6. CASE RestoreSet
    BY <2>6 DEF RestoreSet
  <2>7. CASE RestoreCopy
    BY <2>7 DEF RestoreCopy
  <2>8. CASE RestoreFail
    BY <2>8 DEF RestoreFail
  <2>9. CASE SetFailed
    BY <2>9 DEF SetFailed
  <2>10. CASE SetFailedFails
    BY <2>10 DEF SetFailedFails
  <2>11. CASE Unmark
    BY <2>11 DEF Unmark
  <2>12. CASE FailUnmark
    BY <2>12 DEF FailUnmark
  <2>13. CASE Reboot
    BY <2>13 DEF Reboot
  <2> QED
    BY <1>4, <2>1, <2>2, <2>3, <2>4, <2>5, <2>6, <2>7, <2>8, <2>9, <2>10,
       <2>11, <2>12, <2>13
       DEF Finish
<1>5. CASE Killed
  BY <1>5 DEF Killed
<1>6. CASE UserPackages
  BY <1>6 DEF UserPackages
<1>7. CASE UserRestart
  BY <1>7 DEF UserRestart
<1>8. CASE Boot
  BY <1>8 DEF Boot
<1>9. CASE Crash
  BY <1>9 DEF Crash
<1>10. CASE UNCHANGED vars
  BY <1>10 DEF vars
<1> QED
  BY <1>1, <1>2, <1>3, <1>4, <1>5, <1>6, <1>7, <1>8, <1>9, <1>10 DEF Next

-----------------------------------------------------------------------------
(* How far the installation has come. *)

LEMMA ProgressStep == IInv /\ [Next]_vars => Progress' /\ CommitMatched'
<1> SUFFICES ASSUME IInv, [Next]_vars PROVE Progress' /\ CommitMatched'
  OBVIOUS
<1>0. TypeOK /\ Control /\ Progress /\ CommitMatched
  BY DEF IInv
<1>a. /\ pc \in TryPcs \cup RestorePcs => status # "complete"
      /\ pc \in TryPcs => target \in Releases
  BY <1>0 DEF Control, RunnerPcs
<1> USE <1>0, <1>a DEF Progress, CommitMatched, TryPcs, RestorePcs, WrittenPcs
<1>1. CASE Prepare
  <2>1. CASE PrepareStart
    BY <2>1 DEF PrepareStart
  <2>2. CASE PrepareArchive
    BY <2>2 DEF PrepareArchive, ArchiveBackup
  <2>3. CASE PrepareClear
    BY <2>3 DEF PrepareClear, ClearTransaction
  <2>4. CASE PrepareStatus
    BY <2>4 DEF PrepareStatus
  <2>5. CASE \E r \in Releases : PrepareStage(r)
    BY <2>5 DEF PrepareStage
  <2>6. CASE PrepareReady
    BY <2>6 DEF PrepareReady
  <2>7. CASE PrepareMark
    BY <2>7 DEF PrepareMark
  <2>8. CASE PrepareFail
    BY <2>8 DEF PrepareFail
  <2> QED
    BY <1>1, <2>1, <2>2, <2>3, <2>4, <2>5, <2>6, <2>7, <2>8 DEF Prepare
<1>2. CASE CancelUpdate
  <2>1. CASE Cancel
    BY <2>1 DEF Cancel
  <2>2. CASE CancelIdle
    BY <2>2 DEF CancelIdle
  <2>3. CASE CancelArchive
    BY <2>3 DEF CancelArchive, ArchiveBackup
  <2>4. CASE CancelClear
    BY <2>4 DEF CancelClear, ClearTransaction
  <2> QED
    BY <1>2, <2>1, <2>2, <2>3, <2>4 DEF CancelUpdate
<1>3. CASE Apply
  <2>1. CASE BeginCommitted
    BY <2>1 DEF BeginCommitted
  <2>2. CASE BeginApply
    BY <2>2 DEF BeginApply
  <2>3. CASE BeginStatusFails
    BY <2>3 DEF BeginStatusFails
  <2>4. CASE Check
    BY <2>4 DEF Check
  <2>5. CASE Backup
    BY <2>5 DEF Backup
  <2>6. CASE Seal
    BY <2>6 DEF Seal
  <2>7. CASE Apt
    BY <2>7 DEF Apt
  <2>8. CASE AptDone
    BY <2>8, UpdateAssumption DEF AptDone, Parts
  <2>9. CASE WriteStart
    <3>1. /\ pc = "write" /\ pc' = "writing" /\ k \in Nat
          /\ UNCHANGED <<modules, target, status, k>>
      BY <2>9, UpdateAssumption DEF WriteStart, CopyStart, TypeOK, Counters
    <3>2. \A i \in Parts : part'[i] = IF i = k THEN Torn ELSE part[i]
      BY <2>9 DEF WriteStart, CopyStart, TypeOK
    <3>3. \A i \in Parts : i < k => part'[i] = target
      BY <3>1, <3>2, UpdateAssumption DEF Parts
    <3> QED
      BY <3>1, <3>3
  <2>10. CASE WriteDone
    <3>1. pc = "writing" /\ pc' = "write" /\ k' = k + 1 /\ k \in Nat
          /\ UNCHANGED <<modules, target, status>>
      BY <2>10, UpdateAssumption DEF WriteDone, CopyDone, TypeOK, Counters
    <3>2. \A i \in Parts : part'[i] = IF i = k THEN target ELSE part[i]
      BY <2>10 DEF WriteDone, CopyDone, TypeOK
    <3>3. \A i \in Parts : i < k' => part'[i] = target
      BY <3>1, <3>2, UpdateAssumption DEF Parts
    <3> QED
      BY <3>1, <3>3
  <2>11. CASE WritesDone
    <3>1. /\ pc = "write" /\ pc' = "set_aside" /\ k > NumParts
          /\ UNCHANGED <<part, modules, identity, saved, target, status>>
      BY <2>11 DEF WritesDone
    <3>2. \A i \in Parts : part[i] = target
      BY <3>1, UpdateAssumption DEF Parts, TypeOK, Counters
    <3>3. part = Image(target)
      BY <3>2 DEF Image, TypeOK
    <3> QED
      BY <3>1, <3>3
  <2>12. CASE SetAside
    BY <2>12 DEF SetAside
  <2>13. CASE InstallSet
    BY <2>13 DEF InstallSet
  <2>14. CASE Identify
    BY <2>14 DEF Identify
  <2>15. CASE Commit
    BY <2>15 DEF Commit
  <2> QED
    BY <1>3, <2>1, <2>2, <2>3, <2>4, <2>5, <2>6, <2>7, <2>8, <2>9, <2>10,
       <2>11, <2>12, <2>13, <2>14, <2>15
       DEF Apply
<1>4. CASE Finish
  <2>1. CASE ApplyFail
    BY <2>1 DEF ApplyFail
  <2>2. CASE RestoreStart
    BY <2>2 DEF RestoreStart, CopyStart
  <2>3. CASE RestoreDone
    BY <2>3 DEF RestoreDone, CopyDone
  <2>4. CASE RestoreModules
    BY <2>4 DEF RestoreModules
  <2>5. CASE RestoreIdentity
    BY <2>5 DEF RestoreIdentity
  <2>6. CASE RestoreSet
    BY <2>6 DEF RestoreSet
  <2>7. CASE RestoreCopy
    BY <2>7 DEF RestoreCopy
  <2>8. CASE RestoreFail
    BY <2>8 DEF RestoreFail
  <2>9. CASE SetFailed
    BY <2>9 DEF SetFailed
  <2>10. CASE SetFailedFails
    BY <2>10 DEF SetFailedFails
  <2>11. CASE Unmark
    BY <2>11 DEF Unmark
  <2>12. CASE FailUnmark
    BY <2>12 DEF FailUnmark
  <2>13. CASE Reboot
    BY <2>13 DEF Reboot
  <2> QED
    BY <1>4, <2>1, <2>2, <2>3, <2>4, <2>5, <2>6, <2>7, <2>8, <2>9, <2>10,
       <2>11, <2>12, <2>13
       DEF Finish
<1>5. CASE Killed
  BY <1>5 DEF Killed
<1>6. CASE UserPackages
  BY <1>6 DEF UserPackages
<1>7. CASE UserRestart
  BY <1>7 DEF UserRestart
<1>8. CASE Boot
  BY <1>8 DEF Boot
<1>9. CASE Crash
  BY <1>9 DEF Crash
<1>10. CASE UNCHANGED vars
  BY <1>10 DEF vars
<1> QED
  BY <1>1, <1>2, <1>3, <1>4, <1>5, <1>6, <1>7, <1>8, <1>9, <1>10 DEF Next

-----------------------------------------------------------------------------
(* What a failure leaves. *)

\* The system of the time of prepare(); a saved set that was not there then
\* may be there now.
AsBefore ==
    /\ part = before.part
    /\ modules = before.modules
    /\ identity = before.identity
    /\ before.saved # None => saved = before.saved

\* A completed backup holds the rest of the old system too, but the old saved
\* set may still be in its place.
Sealed ==
    /\ backup.done => /\ backup.modules = before.modules
                      /\ backup.identity = before.identity
    /\ backup.done /\ before.saved # None =>
         \/ oldSet = before.saved
         \/ oldSet = None /\ saved = before.saved
    /\ pc = "seal" => /\ backup.modules = before.modules
                      /\ backup.identity = before.identity
                      /\ oldSet = None
    /\ pc = "install_set" /\ before.saved # None => oldSet = before.saved

\* Until there is a completed backup nothing has been changed, and a failure
\* that knows of no restore error is reported after everything was put back.
Untouched ==
    /\ marker /\ ~backup.done => AsBefore
    /\ pc \in StagedPcs => AsBefore
    /\ pc \in {"fail", "fail_unmark"} /\ ~recovery => AsBefore
    /\ status = "failed" => AsBefore

\* How far the restore has come.
Restored ==
    /\ pc \in {"restore", "restoring"} =>
        \A i \in Parts : i < k => part[i] = before.part[i]
    /\ pc \in {"restore_identity", "restore_set", "restore_copy"} =>
        part = before.part /\ modules = before.modules
    /\ pc \in {"restore_set", "restore_copy"} => identity = before.identity
    /\ pc = "restore_copy" => oldSet # None

RInv == IInv /\ Sealed /\ Untouched /\ Restored

\* RInv survives every step.
LEMMA RolledStep == RInv /\ [Next]_vars => Sealed' /\ Untouched' /\ Restored'
<1> SUFFICES ASSUME RInv, [Next]_vars PROVE Sealed' /\ Untouched' /\ Restored'
  OBVIOUS
<1>0. /\ TypeOK /\ Control /\ Covered
      /\ Sealed /\ Untouched /\ Restored
  BY DEF RInv, IInv
<1>a. /\ part \in [Parts -> Content] /\ before.part \in [Parts -> Content]
      /\ NumParts \in Nat /\ k \in 1 .. NumParts + 1 /\ Torn \in Content
  BY <1>0, UpdateAssumption DEF TypeOK, Counters, Installed, Content
<1> USE <1>0 DEF Sealed, Untouched, Restored, AsBefore, Control, Covered, PreparePcs, CancelPcs,
        TryPcs, RestorePcs, RunnerPcs, StagedPcs, BackedUpPcs
<1>1. CASE Prepare
  <2>1. CASE PrepareStart
    BY <2>1 DEF PrepareStart
  <2>2. CASE PrepareArchive
    BY <2>2 DEF PrepareArchive, ArchiveBackup, NoBackup
  <2>3. CASE PrepareClear
    BY <2>3 DEF PrepareClear, ClearTransaction, NoBackup
  <2>4. CASE PrepareStatus
    BY <2>4 DEF PrepareStatus, Now
  <2>5. CASE \E r \in Releases : PrepareStage(r)
    BY <2>5 DEF PrepareStage
  <2>6. CASE PrepareReady
    BY <2>6 DEF PrepareReady
  <2>7. CASE PrepareMark
    BY <2>7 DEF PrepareMark
  <2>8. CASE PrepareFail
    BY <2>8 DEF PrepareFail
  <2> QED
    BY <1>1, <2>1, <2>2, <2>3, <2>4, <2>5, <2>6, <2>7, <2>8 DEF Prepare
<1>2. CASE CancelUpdate
  <2>1. CASE Cancel
    BY <2>1 DEF Cancel
  <2>2. CASE CancelIdle
    BY <2>2 DEF CancelIdle
  <2>3. CASE CancelArchive
    BY <2>3 DEF CancelArchive, ArchiveBackup, NoBackup
  <2>4. CASE CancelClear
    BY <2>4 DEF CancelClear, ClearTransaction, NoBackup
  <2> QED
    BY <1>2, <2>1, <2>2, <2>3, <2>4 DEF CancelUpdate
<1>3. CASE Apply
  <2>1. CASE BeginCommitted
    BY <2>1 DEF BeginCommitted
  <2>2. CASE BeginApply
    BY <2>2 DEF BeginApply
  <2>3. CASE BeginStatusFails
    BY <2>3 DEF BeginStatusFails
  <2>4. CASE Check
    BY <2>4 DEF Check
  <2>5. CASE Backup
    BY <2>5 DEF Backup
  <2>6. CASE Seal
    BY <2>6 DEF Seal
  <2>7. CASE Apt
    BY <2>7 DEF Apt
  <2>8. CASE AptDone
    BY <2>8 DEF AptDone
  <2>9. CASE WriteStart
    BY <2>9 DEF WriteStart, CopyStart
  <2>10. CASE WriteDone
    BY <2>10 DEF WriteDone, CopyDone
  <2>11. CASE WritesDone
    BY <2>11 DEF WritesDone
  <2>12. CASE SetAside
    BY <2>12 DEF SetAside
  <2>13. CASE InstallSet
    BY <2>13 DEF InstallSet
  <2>14. CASE Identify
    BY <2>14 DEF Identify
  <2>15. CASE Commit
    BY <2>15 DEF Commit
  <2> QED
    BY <1>3, <2>1, <2>2, <2>3, <2>4, <2>5, <2>6, <2>7, <2>8, <2>9, <2>10, <2>11, <2>12, <2>13, <2>14, <2>15 DEF Apply
<1>4. CASE Finish
  <2>1. CASE ApplyFail
    <3>1. recovery' <=> (backup.done /\ ~devices)
      BY <2>1 DEF ApplyFail
    <3>2. \A i \in Parts : ~(i < 1)
      BY <1>a DEF Parts
    <3> QED
      BY <2>1, <3>1, <3>2 DEF ApplyFail
  <2>2. CASE RestoreStart
    <3>1. /\ part' = [part EXCEPT ![k] = Torn]
          /\ pc = "restore" /\ pc' = "restoring" /\ backup.done /\ marker /\ status = "applying"
          /\ UNCHANGED <<backup, oldSet, saved, before, status, marker, recovery, k>>
      BY <2>2 DEF RestoreStart, CopyStart
    <3>2. \A i \in Parts : i < k => part'[i] = before.part[i]
      BY <1>a, <3>1 DEF Parts
    <3> QED
      BY <3>1, <3>2
  <2>3. CASE RestoreDone
    <3>1. /\ part' = [part EXCEPT ![k] = backup.part[k]]
          /\ pc = "restoring" /\ pc' = "restore" /\ backup.done /\ marker /\ status = "applying"
          /\ k \in Parts /\ k' = k + 1
          /\ UNCHANGED <<backup, oldSet, saved, before, status, marker, recovery>>
      BY <1>a, <2>3 DEF RestoreDone, CopyDone, Parts
    <3>2. \A i \in Parts : i < k' => part'[i] = before.part[i]
      BY <1>a, <3>1 DEF Parts
    <3> QED
      BY <3>1, <3>2
  <2>4. CASE RestoreModules
    <3>1. /\ part' = part /\ modules' = backup.modules
          /\ pc = "restore" /\ pc' = "restore_identity" /\ backup.done /\ marker /\ status = "applying"
          /\ k > NumParts
          /\ UNCHANGED <<backup, oldSet, saved, before, status, marker, recovery>>
      BY <2>4 DEF RestoreModules
    <3>2. part = before.part
      BY <1>a, <3>1 DEF Parts
    <3> QED
      BY <3>1, <3>2
  <2>5. CASE RestoreIdentity
    BY <2>5 DEF RestoreIdentity
  <2>6. CASE RestoreSet
    BY <2>6 DEF RestoreSet
  <2>7. CASE RestoreCopy
    BY <2>7 DEF RestoreCopy
  <2>8. CASE RestoreFail
    BY <2>8 DEF RestoreFail
  <2>9. CASE SetFailed
    BY <2>9 DEF SetFailed
  <2>10. CASE SetFailedFails
    BY <2>10 DEF SetFailedFails
  <2>11. CASE Unmark
    BY <2>11 DEF Unmark
  <2>12. CASE FailUnmark
    BY <2>12 DEF FailUnmark
  <2>13. CASE Reboot
    BY <2>13 DEF Reboot
  <2> QED
    BY <1>4, <2>1, <2>2, <2>3, <2>4, <2>5, <2>6, <2>7, <2>8, <2>9, <2>10, <2>11, <2>12, <2>13 DEF Finish
<1>5. CASE Killed
  BY <1>5 DEF Killed
<1>6. CASE UserPackages
  BY <1>6 DEF UserPackages
<1>7. CASE UserRestart
  BY <1>7 DEF UserRestart
<1>8. CASE Boot
  BY <1>8 DEF Boot
<1>9. CASE Crash
  BY <1>9 DEF Crash
<1>10. CASE UNCHANGED vars
  BY <1>10 DEF vars
<1> QED
  BY <1>1, <1>2, <1>3, <1>4, <1>5, <1>6, <1>7, <1>8, <1>9, <1>10 DEF Next

-----------------------------------------------------------------------------
(* What the runner restarts on. *)

\* A committed update that kept its marker is the staged one, and the runner
\* comes to the last removal of the marker only with that one installed.
Landed ==
    /\ status = "complete" /\ marker => identity = target
    /\ pc = "unmark" => part = Image(target)
    /\ RebootWhole

\* Landed survives every step, if the status can be written.
LEMMA LandedStep == RInv /\ Landed /\ ~StatusMayFail /\ [Next]_vars => Landed'
<1> SUFFICES ASSUME RInv, Landed, ~StatusMayFail, [Next]_vars PROVE Landed'
  OBVIOUS
<1>0. TypeOK /\ Control /\ Progress /\ CommitMatched /\ Untouched
  BY DEF RInv, IInv
<1> USE <1>0 DEF Landed, RebootWhole, Untouched, AsBefore, Control, Progress, CommitMatched, PreparePcs,
        CancelPcs, TryPcs, RestorePcs, RunnerPcs, StagedPcs, WrittenPcs
<1>1. CASE Prepare
  <2>1. CASE PrepareStart
    BY <2>1 DEF PrepareStart
  <2>2. CASE PrepareArchive
    BY <2>2 DEF PrepareArchive, ArchiveBackup, NoBackup
  <2>3. CASE PrepareClear
    BY <2>3 DEF PrepareClear, ClearTransaction, NoBackup
  <2>4. CASE PrepareStatus
    BY <2>4 DEF PrepareStatus, Now
  <2>5. CASE \E r \in Releases : PrepareStage(r)
    BY <2>5 DEF PrepareStage
  <2>6. CASE PrepareReady
    BY <2>6 DEF PrepareReady
  <2>7. CASE PrepareMark
    BY <2>7 DEF PrepareMark
  <2>8. CASE PrepareFail
    BY <2>8 DEF PrepareFail
  <2> QED
    BY <1>1, <2>1, <2>2, <2>3, <2>4, <2>5, <2>6, <2>7, <2>8 DEF Prepare
<1>2. CASE CancelUpdate
  <2>1. CASE Cancel
    BY <2>1 DEF Cancel
  <2>2. CASE CancelIdle
    BY <2>2 DEF CancelIdle
  <2>3. CASE CancelArchive
    BY <2>3 DEF CancelArchive, ArchiveBackup, NoBackup
  <2>4. CASE CancelClear
    BY <2>4 DEF CancelClear, ClearTransaction, NoBackup
  <2> QED
    BY <1>2, <2>1, <2>2, <2>3, <2>4 DEF CancelUpdate
<1>3. CASE Apply
  <2>1. CASE BeginCommitted
    BY <2>1 DEF BeginCommitted
  <2>2. CASE BeginApply
    BY <2>2 DEF BeginApply
  <2>3. CASE BeginStatusFails
    BY <2>3 DEF BeginStatusFails
  <2>4. CASE Check
    BY <2>4 DEF Check
  <2>5. CASE Backup
    BY <2>5 DEF Backup
  <2>6. CASE Seal
    BY <2>6 DEF Seal
  <2>7. CASE Apt
    BY <2>7 DEF Apt
  <2>8. CASE AptDone
    BY <2>8 DEF AptDone
  <2>9. CASE WriteStart
    BY <2>9 DEF WriteStart, CopyStart
  <2>10. CASE WriteDone
    BY <2>10 DEF WriteDone, CopyDone
  <2>11. CASE WritesDone
    BY <2>11 DEF WritesDone
  <2>12. CASE SetAside
    BY <2>12 DEF SetAside
  <2>13. CASE InstallSet
    BY <2>13 DEF InstallSet
  <2>14. CASE Identify
    BY <2>14 DEF Identify
  <2>15. CASE Commit
    BY <2>15 DEF Commit
  <2> QED
    BY <1>3, <2>1, <2>2, <2>3, <2>4, <2>5, <2>6, <2>7, <2>8, <2>9, <2>10, <2>11, <2>12, <2>13, <2>14, <2>15 DEF Apply
<1>4. CASE Finish
  <2>1. CASE ApplyFail
    BY <2>1 DEF ApplyFail
  <2>2. CASE RestoreStart
    BY <2>2 DEF RestoreStart, CopyStart
  <2>3. CASE RestoreDone
    BY <2>3 DEF RestoreDone, CopyDone
  <2>4. CASE RestoreModules
    BY <2>4 DEF RestoreModules
  <2>5. CASE RestoreIdentity
    BY <2>5 DEF RestoreIdentity
  <2>6. CASE RestoreSet
    BY <2>6 DEF RestoreSet
  <2>7. CASE RestoreCopy
    BY <2>7 DEF RestoreCopy
  <2>8. CASE RestoreFail
    BY <2>8 DEF RestoreFail
  <2>9. CASE SetFailed
    BY <2>9 DEF SetFailed
  <2>10. CASE SetFailedFails
    BY <2>10 DEF SetFailedFails
  <2>11. CASE Unmark
    BY <2>11 DEF Unmark
  <2>12. CASE FailUnmark
    BY <2>12 DEF FailUnmark
  <2>13. CASE Reboot
    BY <2>13 DEF Reboot
  <2> QED
    BY <1>4, <2>1, <2>2, <2>3, <2>4, <2>5, <2>6, <2>7, <2>8, <2>9, <2>10, <2>11, <2>12, <2>13 DEF Finish
<1>5. CASE Killed
  BY <1>5 DEF Killed
<1>6. CASE UserPackages
  BY <1>6 DEF UserPackages
<1>7. CASE UserRestart
  BY <1>7 DEF UserRestart
<1>8. CASE Boot
  BY <1>8 DEF Boot
<1>9. CASE Crash
  BY <1>9 DEF Crash
<1>10. CASE UNCHANGED vars
  BY <1>10 DEF vars
<1> QED
  BY <1>1, <1>2, <1>3, <1>4, <1>5, <1>6, <1>7, <1>8, <1>9, <1>10 DEF Next

-----------------------------------------------------------------------------
(* The theorems. *)

LEMMA InitInvariant == Init => IInv
<1> SUFFICES ASSUME Init PROVE IInv
  OBVIOUS
<1>1. part \in [Parts -> Content] /\ modules \in Content
  BY DEF Init, Image, Content
<1>2. identity \in Releases \cup {None} /\ saved \in Releases \cup {None}
  BY DEF Init
<1>3. before \in Installed /\ before.part = part
  BY <1>1, <1>2, NowType DEF Init, Now
<1>4. Counters
  BY KOne DEF Init, Counters
<1>5. TypeOK
  BY <1>1, <1>2, <1>3, <1>4, NoBackupType DEF Init, TypeOK, Statuses, Pcs
<1>6. Control
  BY DEF Init, Control, PreparePcs, CancelPcs, TryPcs, RestorePcs, RunnerPcs,
     StagedPcs
<1>7. Covered /\ Recoverable
  BY <1>3 DEF Init, Covered, Recoverable, NoBackup, StagedPcs, BackedUpPcs,
     TryPcs, RestorePcs
<1>8. Progress /\ CommitMatched
  BY DEF Init, Progress, CommitMatched, WrittenPcs
<1> QED
  BY <1>5, <1>6, <1>7, <1>8 DEF IInv

LEMMA InvariantStep == IInv /\ [Next]_vars => IInv'
BY TypeStep, ControlStep, CoveredStep, ProgressStep DEF IInv

LEMMA Invariant == Spec => []IInv
BY InitInvariant, InvariantStep, PTL DEF Spec

\* Types: every variable keeps to the values the code gives it, whatever the
\* order of failures, crashes and commands.
THEOREM TypeCorrect == Spec => []TypeOK
<1>1. IInv => TypeOK
  BY DEF IInv
<1> QED
  BY <1>1, Invariant, PTL

\* The boot images the tablet ran before an update are never lost, whichever
\* steps of update_core.py fail and wherever the power goes.
THEOREM BackupSafe == Spec => []Recoverable
<1>1. IInv => Recoverable
  BY DEF IInv
<1> QED
  BY <1>1, Invariant, PTL

\* status.json says "complete" only over a boot chain, modules, record and
\* saved set that are all of the installed release.
THEOREM SuccessIsWhole == Spec => []CommitMatched
<1>1. IInv => CommitMatched
  BY DEF IInv
<1> QED
  BY <1>1, Invariant, PTL

\* No step takes a recorded success back, and until the user prepares another
\* update or cancels nothing writes the boot chain.
THEOREM SuccessIsFinal == Spec => CommitIsFinal
<1>1. IInv /\ [Next]_vars =>
        [status = "complete" =>
            /\ status' \in {"complete", "preparing", "idle"}
            /\ part' = part]_vars
  <2> SUFFICES ASSUME Control, [Next]_vars, status = "complete"
               PROVE  /\ status' \in {"complete", "preparing", "idle"}
                      /\ part' = part
    BY DEF IInv
  <2>0. pc \notin TryPcs \cup RestorePcs \cup {"fail"} \cup StagedPcs
    BY DEF Control
  <2> USE <2>0 DEF TryPcs, RestorePcs, StagedPcs
  <2>1. CASE Prepare
    BY <2>1 DEF Prepare, PrepareStart, PrepareArchive, PrepareClear,
       PrepareStatus, PrepareStage, PrepareReady, PrepareMark, PrepareFail,
       ArchiveBackup, ClearTransaction
  <2>2. CASE CancelUpdate
    BY <2>2 DEF CancelUpdate, Cancel, CancelIdle, CancelArchive, CancelClear,
       ArchiveBackup, ClearTransaction
  <2>3. CASE Apply
    BY <2>3 DEF Apply, BeginCommitted, BeginApply, BeginStatusFails, Check,
       Backup, Seal, Apt, AptDone, WriteStart, WriteDone, WritesDone,
       SetAside, InstallSet, Identify, Commit, CopyStart, CopyDone
  <2>4. CASE Finish
    BY <2>4 DEF Finish, ApplyFail, RestoreStart, RestoreDone, RestoreModules,
       RestoreIdentity, RestoreSet, RestoreCopy, RestoreFail, SetFailed,
       SetFailedFails, Unmark, FailUnmark, Reboot, CopyStart, CopyDone
  <2>5. CASE \/ Killed \/ UserPackages \/ UserRestart \/ Boot \/ Crash
             \/ UNCHANGED vars
    BY <2>5 DEF Killed, UserPackages, UserRestart, Boot, Crash, vars
  <2> QED
    BY <2>1, <2>2, <2>3, <2>4, <2>5 DEF Next
<1> QED
  BY <1>1, Invariant, PTL DEF Spec, CommitIsFinal

\* RInv holds of every installation the updater starts from.
LEMMA RolledInit == Init => RInv /\ Landed
<1> SUFFICES ASSUME Init PROVE RInv /\ Landed
  OBVIOUS
<1>1. IInv
  BY InitInvariant
<1>2. Sealed /\ Untouched /\ Restored /\ Landed
  BY DEF Init, Sealed, Untouched, Restored, Landed, RebootWhole, NoBackup, StagedPcs
<1> QED
  BY <1>1, <1>2 DEF RInv

LEMMA RolledInvariant == Spec => []RInv
<1>1. Init => RInv
  BY RolledInit
<1>2. RInv /\ [Next]_vars => RInv'
  BY InvariantStep, RolledStep DEF RInv
<1> QED
  BY <1>1, <1>2, PTL DEF Spec

\* status.json says "failed" without a restore error only over the system as
\* prepare() found it, whatever failed and however often the power went.
THEOREM FailureIsRolledBack == Spec => []RolledBack
<1>1. RInv => RolledBack
  BY DEF RInv, Untouched, AsBefore, RolledBack
<1> QED
  BY <1>1, RolledInvariant, PTL

\* As long as status.json can be written, the runner restarts the machine on
\* the boot chain it found or on the one it was to install, never on a mixture.
THEOREM RestartIsWhole == ASSUME ~StatusMayFail PROVE Spec => []RebootWhole
<1>1. Init => RInv /\ Landed
  BY RolledInit
<1>2. RInv /\ Landed /\ [Next]_vars => Landed'
  BY LandedStep
<1>3. Landed => RebootWhole
  BY DEF Landed
<1>4. Spec => []Landed
  BY <1>1, <1>2, RolledInvariant, PTL DEF Spec
<1> QED
  BY <1>3, <1>4, PTL
=============================================================================
