------------------------- MODULE UpdateTransaction -------------------------
(***************************************************************************)
(* The system updater of Tab Companion, update_core.py: preparing an       *)
(* update on the running system, cancelling it, and the offline runner     *)
(* that applies it after a restart through systemd's /system-update.       *)
(*                                                                         *)
(* Each operation runs under the boot lock, so at most one of them is in   *)
(* progress and one program counter is enough.  A crash (power loss, or    *)
(* the kernel dying) may fall between any two of its steps; what is on     *)
(* storage survives, what is in the process does not.                      *)
(*                                                                         *)
(* Abstractions.  The content of a boot partition, of /usr/lib/modules and *)
(* of the saved boot set is the release it came from, or Torn while it is  *)
(* half written.  A check that reads the world (battery, device identity,  *)
(* hashes of staged files, free space) may pass or fail.  Writes that      *)
(* returned are durable.  The machine can always be started again, even on *)
(* a half-written boot chain: whether such a chain boots is not the        *)
(* program's to say, and every property here is about what it does if so.  *)
(***************************************************************************)
EXTENDS Integers, FiniteSets

CONSTANTS
    NumParts,        \* boot, init_boot, vendor_boot, dtbo: written in order
    Releases,        \* the releases an update can carry
    None,            \* no release: nothing staged, no identity, no saved set
    Torn,            \* content that is half written
    MaxTxns,         \* bound on the updates ever prepared
    MaxCrashes,      \* bound on the crashes
    RestoreMayFail,  \* whether writing the backup back may fail
    StatusMayFail    \* whether writing status.json may fail

Parts == 1 .. NumParts
Content == Releases \cup {Torn}

ASSUME UpdateAssumption ==
    /\ NumParts \in Nat \ {0}
    /\ None \notin Releases
    /\ Torn \notin Releases
    /\ Torn # None
    /\ MaxTxns \in Nat
    /\ MaxCrashes \in Nat
    /\ RestoreMayFail \in BOOLEAN
    /\ StatusMayFail \in BOOLEAN

VARIABLES
    \* The installed system.
    part,        \* what each boot partition holds
    modules,     \* /usr/lib/modules, which the packages replace
    identity,    \* the installed-build record, bundle.IDENTITY
    saved,       \* /var/lib/gts9u-boot-sets/ubuntu
    \* The transaction directory.
    target,      \* the release staged in it
    backup,      \* backup/: the boot images, modules and identity, and backup/complete
    oldSet,      \* backup/ubuntu-set
    archive,     \* the boot chains kept under backups/
    \* What decides whether an update is pending.
    status,      \* state in status.json
    marker,      \* the /system-update link, ours
    dpkgChanged, \* /var/lib/dpkg/status no longer hashes to dpkg.sha256
    \* The machine and the process that holds the boot lock.
    mode,        \* what is running
    pc,          \* where the operation in progress is
    k,           \* the partition a copy loop has reached
    resumed,     \* previous["state"] was "applying"
    devices,     \* devices = partitions() has been assigned
    recovery,    \* the restore failed: recovery is not ""
    \* History and bounds.
    before,      \* the system when the update was prepared
    txns, crashes

system == <<part, modules, identity, saved>>
txn == <<target, backup, oldSet, archive>>
pending == <<status, marker, dpkgChanged>>
proc == <<pc, k, resumed, devices, recovery>>
bounds == <<txns, crashes>>
vars == <<system, txn, pending, mode, proc, before, bounds>>

Statuses == {"idle", "preparing", "ready", "applying", "complete",
             "failed", "unrestored"}

\* status.json says "failed" in both cases; the text of its error says
\* whether the restore failed too, and "unrestored" stands for that text.
Failed == {"failed", "unrestored"}

PreparePcs == {"prep_archive", "prep_clear", "prep_status", "prep_stage",
               "prep_ready", "prep_mark"}
CancelPcs == {"can_idle", "can_archive", "can_clear"}
TryPcs == {"check", "backup", "seal", "apt", "apt_run", "write", "writing",
           "set_aside", "install_set", "identify", "commit"}
RestorePcs == {"restore", "restoring", "restore_modules", "restore_identity",
               "restore_set", "restore_copy"}
FinalPcs == {"begin", "fail", "fail_unmark", "unmark", "reboot"}
Pcs == {"idle"} \cup PreparePcs \cup CancelPcs \cup TryPcs \cup RestorePcs
          \cup FinalPcs

BackupDir == [part : [Parts -> Content], modules : Content,
              identity : Releases \cup {None}, done : BOOLEAN]
Installed == [part : [Parts -> Content], modules : Content,
              identity : Releases \cup {None}, saved : Releases \cup {None}]

Image(r) == [p \in Parts |-> r]
NoBackup == [part |-> Image(Torn), modules |-> Torn, identity |-> None,
             done |-> FALSE]
Now == [part |-> part, modules |-> modules, identity |-> identity,
        saved |-> saved]

Counters ==
    /\ k \in 1 .. NumParts + 1
    /\ txns \in Nat
    /\ crashes \in Nat

TypeOK ==
    /\ Counters
    /\ part \in [Parts -> Content]
    /\ modules \in Content
    /\ identity \in Releases \cup {None}
    /\ saved \in Releases \cup {None}
    /\ target \in Releases \cup {None}
    /\ backup \in BackupDir
    /\ oldSet \in Releases \cup {None}
    /\ archive \in SUBSET [Parts -> Content]
    /\ status \in Statuses
    /\ marker \in BOOLEAN
    /\ dpkgChanged \in BOOLEAN
    /\ mode \in {"normal", "offline", "emergency", "off"}
    /\ pc \in Pcs
    /\ resumed \in BOOLEAN
    /\ devices \in BOOLEAN
    /\ recovery \in BOOLEAN
    /\ before \in Installed

\* A working installation: one release everywhere, recorded or not (an
\* installation older than the updater has no identity), with or without
\* the copy of its boot images that switching systems needs.
Init ==
    \E r \in Releases :
        /\ part = Image(r)
        /\ modules = r
        /\ identity \in {None, r}
        /\ saved \in {None, r}
        /\ target = None
        /\ backup = NoBackup
        /\ oldSet = None
        /\ archive = {}
        /\ status = "idle"
        /\ marker = FALSE
        /\ dpkgChanged = FALSE
        /\ mode = "normal"
        /\ pc = "idle"
        /\ k = 1
        /\ resumed = FALSE
        /\ devices = FALSE
        /\ recovery = FALSE
        /\ before = Now
        /\ txns = 0
        /\ crashes = 0

Goto(l) ==
    /\ pc' = l
    /\ UNCHANGED <<k, resumed, devices, recovery>>

\* One step of the operation in progress.
Step(here, next) ==
    /\ pc = here
    /\ Goto(next)
    /\ UNCHANGED <<mode, before, bounds>>

\* The process is gone, and its variables with it.
Exit ==
    /\ pc' = "idle"
    /\ k' = 1
    /\ resumed' = FALSE
    /\ devices' = FALSE
    /\ recovery' = FALSE

RemoveMarker == marker' = FALSE

-----------------------------------------------------------------------------
(* prepare(): on the running system. *)

PrepareRefused == marker \/ status \in {"ready", "applying"}

PrepareStart ==
    /\ mode = "normal"
    /\ pc = "idle"
    /\ ~PrepareRefused
    /\ txns < MaxTxns
    /\ txns' = txns + 1
    /\ Goto("prep_archive")
    /\ UNCHANGED <<system, txn, pending, mode, before, crashes>>

\* A completed backup is moved to backups/, never deleted.
ArchiveBackup(here, next) ==
    /\ Step(here, next)
    /\ IF backup.done
       THEN /\ archive' = archive \cup {backup.part}
            /\ backup' = NoBackup
            /\ oldSet' = None
       ELSE UNCHANGED <<archive, backup, oldSet>>
    /\ UNCHANGED <<system, target, pending>>

\* shutil.rmtree(TRANSACTION)
ClearTransaction(here, next) ==
    /\ Step(here, next)
    /\ target' = None
    /\ backup' = NoBackup
    /\ oldSet' = None
    /\ UNCHANGED <<system, archive, pending>>

PrepareArchive == ArchiveBackup("prep_archive", "prep_clear")
PrepareClear == ClearTransaction("prep_clear", "prep_status")

PrepareStatus ==
    /\ pc = "prep_status"
    /\ status' = "preparing"
    /\ before' = Now
    /\ Goto("prep_stage")
    /\ UNCHANGED <<system, txn, marker, dpkgChanged, mode, bounds>>

\* Fetch, verify and extract the payload, resolve its dependencies, record
\* the hash of the package database, install the runner.
PrepareStage(r) ==
    /\ Step("prep_stage", "prep_ready")
    /\ target' = r
    /\ dpkgChanged' = FALSE
    /\ UNCHANGED <<system, backup, oldSet, archive, status, marker>>

PrepareReady ==
    /\ Step("prep_ready", "prep_mark")
    /\ status' = "ready"
    /\ UNCHANGED <<system, txn, marker, dpkgChanged>>

PrepareMark ==
    /\ Step("prep_mark", "idle")
    /\ marker' = TRUE
    /\ UNCHANGED <<system, txn, status, dpkgChanged>>

\* Any of its steps raises; the marker is not there yet.
PrepareFail ==
    /\ pc \in {"prep_stage", "prep_ready", "prep_mark"}
    /\ status' = "failed"
    /\ Goto("idle")
    /\ UNCHANGED <<system, txn, marker, dpkgChanged, mode, before, bounds>>

-----------------------------------------------------------------------------
(* main(["--cancel"]) *)

CancelRefused == status = "applying"

Cancel ==
    /\ mode \in {"normal", "emergency"}
    /\ Step("idle", "can_idle")
    /\ ~CancelRefused
    /\ RemoveMarker
    /\ UNCHANGED <<system, txn, status, dpkgChanged>>

CancelIdle ==
    /\ Step("can_idle", "can_archive")
    /\ status' = "idle"
    /\ UNCHANGED <<system, txn, marker, dpkgChanged>>

CancelArchive == ArchiveBackup("can_archive", "can_clear")
CancelClear == ClearTransaction("can_clear", "idle")

\* prepare and --cancel are commands of a running system: they can be killed
\* at any step (a keyboard interrupt is not an Exception), or end on a status
\* write that raises outside their handler.
Killed ==
    /\ pc \in PreparePcs \cup CancelPcs
    /\ Exit
    /\ UNCHANGED <<system, txn, pending, mode, before, bounds>>

\* The user installs or removes a package while the system runs.
UserPackages ==
    /\ mode = "normal"
    /\ pc = "idle"
    /\ ~dpkgChanged
    /\ dpkgChanged' = TRUE
    /\ UNCHANGED <<system, txn, status, marker, mode, proc, before, bounds>>

-----------------------------------------------------------------------------
(* apply_offline(): the try block. *)

\* Before the try block.  A success that only lost its last step is not
\* applied again.
BeginCommitted ==
    /\ Step("begin", "reboot")
    /\ status = "complete"
    /\ RemoveMarker
    /\ UNCHANGED <<system, txn, status, dpkgChanged>>

BeginApply ==
    /\ pc = "begin"
    /\ status # "complete"
    /\ status' = "applying"
    /\ resumed' = (status = "applying")
    /\ devices' = FALSE
    /\ recovery' = FALSE
    /\ pc' = "check"
    /\ UNCHANGED <<system, txn, marker, dpkgChanged, mode, k, before, bounds>>

\* set_status("applying") is outside the try block: raising ends the unit,
\* whose FailureAction restarts the machine with the marker in place.
BeginStatusFails ==
    /\ StatusMayFail
    /\ Step("begin", "reboot")
    /\ status # "complete"
    /\ UNCHANGED <<system, txn, pending>>

\* Mistake, for the mutants: a resumed run takes its backup again.
BackupAgain == "backup"

AfterCheck == IF backup.done THEN "apt" ELSE "backup"

\* The package database must be as prepared, unless an interrupted run of
\* this very transaction changed it; then the partitions are resolved.
Check ==
    /\ pc = "check"
    /\ resumed \/ ~dpkgChanged
    /\ devices' = TRUE
    /\ pc' = AfterCheck
    /\ UNCHANGED <<system, txn, pending, mode, k, resumed, recovery, before,
                   bounds>>

Backup ==
    /\ Step("backup", "seal")
    /\ backup' = [part |-> part, modules |-> modules, identity |-> identity,
                  done |-> FALSE]
    /\ oldSet' = None
    /\ UNCHANGED <<system, target, archive, pending>>

\* sync, touch backup/complete, sync
Seal ==
    /\ Step("seal", "apt")
    /\ backup' = [backup EXCEPT !.done = TRUE]
    /\ UNCHANGED <<system, target, oldSet, archive, pending>>

Apt ==
    /\ Step("apt", "apt_run")
    /\ modules' = Torn
    /\ dpkgChanged' = TRUE
    /\ UNCHANGED <<part, identity, saved, txn, status, marker>>

AptDone ==
    /\ pc = "apt_run"
    /\ modules' = target
    /\ pc' = "write"
    /\ k' = 1
    /\ UNCHANGED <<part, identity, saved, txn, pending, mode, resumed, devices,
                   recovery, before, bounds>>

\* copy_partition: the bytes go down, then are read back and compared.
CopyStart(here, next) ==
    /\ k <= NumParts
    /\ Step(here, next)
    /\ part' = [part EXCEPT ![k] = Torn]
    /\ UNCHANGED <<modules, identity, saved, txn, pending>>

CopyDone(here, next, image) ==
    /\ pc = here
    /\ part' = [part EXCEPT ![k] = image]
    /\ pc' = next
    /\ k' = k + 1
    /\ UNCHANGED <<modules, identity, saved, txn, pending, mode, resumed,
                   devices, recovery, before, bounds>>

WriteStart == CopyStart("write", "writing")
WriteDone == CopyDone("writing", "write", target)

\* Mistake: the copy loop stops before the last partition.
WritesDoneEarly ==
    /\ Step("write", "set_aside")
    /\ k >= NumParts
    /\ UNCHANGED <<system, txn, pending>>

WritesDone ==
    /\ Step("write", "set_aside")
    /\ k > NumParts
    /\ UNCHANGED <<system, txn, pending>>

\* Mistake, for the mutants: a resumed run keeps what the interrupted run
\* installed.
KeptAgain == IF saved # None THEN saved ELSE oldSet

KeptSet == IF saved # None /\ oldSet = None THEN saved ELSE oldSet

\* The saved set is kept as backup/ubuntu-set; if an interrupted run already
\* kept it, what is there now is that run's own and is deleted.
SetAside ==
    /\ Step("set_aside", "install_set")
    /\ saved' = None
    /\ oldSet' = KeptSet
    /\ UNCHANGED <<part, modules, identity, target, backup, archive, pending>>

InstallSet ==
    /\ Step("install_set", "identify")
    /\ saved' = target
    /\ UNCHANGED <<part, modules, identity, txn, pending>>

Identify ==
    /\ Step("identify", "commit")
    /\ identity' = target
    /\ UNCHANGED <<part, modules, saved, txn, pending>>

Commit ==
    /\ Step("commit", "unmark")
    /\ status' = "complete"
    /\ UNCHANGED <<system, txn, marker, dpkgChanged>>

-----------------------------------------------------------------------------
(* apply_offline(): the except block, the finally block and the restart. *)

AfterFailure == IF backup.done /\ devices THEN "restore" ELSE "fail"

\* Any step of the try block raises.  The restore loop indexes devices,
\* which is still {} when a check failed: that is a KeyError, and the first
\* partition is as far as the restore gets.
ApplyFail ==
    /\ pc \in TryPcs
    /\ pc' = AfterFailure
    /\ recovery' = (backup.done /\ ~devices)
    /\ k' = 1
    /\ UNCHANGED <<system, txn, pending, mode, resumed, devices, before, bounds>>

RestoreStart == CopyStart("restore", "restoring")
RestoreDone == CopyDone("restoring", "restore", backup.part[k])

\* cp -a lays the old tree over the new one: every file of the old release is
\* back, and what only the new one has beside it is not told apart.
RestoreModules ==
    /\ Step("restore", "restore_identity")
    /\ k > NumParts
    /\ modules' = backup.modules
    /\ UNCHANGED <<part, identity, saved, txn, pending>>

RestoreIdentity ==
    /\ Step("restore_identity", "restore_set")
    /\ identity' = backup.identity
    /\ UNCHANGED <<part, modules, saved, txn, pending>>

\* rmtree(saved), then copytree(backup/ubuntu-set, saved), but only if a set
\* had been put aside.
RestoreSet ==
    /\ Step("restore_set", IF oldSet = None THEN "fail" ELSE "restore_copy")
    /\ saved' = IF oldSet = None THEN saved ELSE None
    /\ UNCHANGED <<part, modules, identity, txn, pending>>

RestoreCopy ==
    /\ Step("restore_copy", "fail")
    /\ saved' = oldSet
    /\ UNCHANGED <<part, modules, identity, txn, pending>>

RestoreFail ==
    /\ RestoreMayFail
    /\ pc \in RestorePcs
    /\ recovery' = TRUE
    /\ pc' = "fail"
    /\ UNCHANGED <<system, txn, pending, mode, k, resumed, devices, before,
                   bounds>>

\* Mistake: restart at once and let the next start try again.
SetFailedRetry ==
    /\ Step("fail", "reboot")
    /\ UNCHANGED <<system, txn, pending>>

SetFailed ==
    /\ Step("fail", "fail_unmark")
    /\ status' = IF recovery THEN "unrestored" ELSE "failed"
    /\ UNCHANGED <<system, txn, marker, dpkgChanged>>

\* set_status raises inside the handler: the finally block still removes the
\* marker, and the unit's FailureAction restarts the machine.
SetFailedFails ==
    /\ StatusMayFail
    /\ Step("fail", "unmark")
    /\ UNCHANGED <<system, txn, pending>>

Unmark ==
    /\ Step("unmark", "reboot")
    /\ RemoveMarker
    /\ UNCHANGED <<system, txn, status, dpkgChanged>>

\* Mistake, for the mutants: restart although the restore failed.
NeverStaysUp == FALSE

StaysUp == recovery

\* After a failed restore the machine stays up in emergency.target. A systemctl
\* that fails there raises on through the finally: no restart either.
FailUnmark ==
    /\ pc = "fail_unmark"
    /\ RemoveMarker
    /\ IF StaysUp THEN mode' = "emergency" /\ Exit
                  ELSE mode' = mode /\ Goto("reboot")
    /\ UNCHANGED <<system, txn, status, dpkgChanged, before, bounds>>

Reboot ==
    /\ pc = "reboot"
    /\ mode' = "off"
    /\ Exit
    /\ UNCHANGED <<system, txn, pending, before, bounds>>

-----------------------------------------------------------------------------
(* The machine. *)

UserRestart ==
    /\ mode \in {"normal", "emergency"}
    /\ pc = "idle"
    /\ mode' = "off"
    /\ UNCHANGED <<system, txn, pending, proc, before, bounds>>

\* systemd's generator turns the boot into system-update.target when the
\* marker is there.
Boot ==
    /\ mode = "off"
    /\ mode' = IF marker THEN "offline" ELSE "normal"
    /\ Goto(IF marker THEN "begin" ELSE "idle")
    /\ UNCHANGED <<system, txn, pending, before, bounds>>

Crash ==
    /\ mode # "off"
    /\ crashes < MaxCrashes
    /\ crashes' = crashes + 1
    /\ mode' = "off"
    /\ Exit
    /\ UNCHANGED <<system, txn, pending, before, txns>>

Prepare ==
    \/ PrepareStart \/ PrepareArchive \/ PrepareClear \/ PrepareStatus
    \/ \E r \in Releases : PrepareStage(r)
    \/ PrepareReady \/ PrepareMark \/ PrepareFail

CancelUpdate == Cancel \/ CancelIdle \/ CancelArchive \/ CancelClear

Apply ==
    \/ BeginCommitted \/ BeginApply \/ BeginStatusFails \/ Check \/ Backup
    \/ Seal \/ Apt \/ AptDone \/ WriteStart \/ WriteDone \/ WritesDone
    \/ SetAside \/ InstallSet \/ Identify \/ Commit

Finish ==
    \/ ApplyFail \/ RestoreStart \/ RestoreDone \/ RestoreModules
    \/ RestoreIdentity \/ RestoreSet \/ RestoreCopy \/ RestoreFail
    \/ SetFailed \/ SetFailedFails \/ Unmark \/ FailUnmark \/ Reboot

Next ==
    \/ Prepare \/ CancelUpdate \/ Killed \/ UserPackages
    \/ Apply \/ Finish
    \/ UserRestart \/ Boot \/ Crash

\* The offline runner is one process that nothing else competes with, and a
\* machine that is off is eventually started.
Spec == Init /\ [][Next]_vars /\ WF_vars(Apply \/ Finish) /\ WF_vars(Boot)
-----------------------------------------------------------------------------
(* Properties. *)

\* The boot images the tablet ran when the update was prepared are never
\* lost: they are on the partitions, or in the completed backup, or among the
\* backups kept (update_core.py, the backup/complete protocol, and the
\* os.rename of completed backups by prepare and --cancel).
Recoverable ==
    \/ part = before.part
    \/ backup.done /\ backup.part = before.part
    \/ before.part \in archive

\* A recorded success is a whole one: boot chain, modules, installed-build
\* record and Ubuntu's saved boot set are all of the recorded release.
CommitMatched ==
    status = "complete" =>
        /\ identity \in Releases
        /\ part = Image(identity)
        /\ modules = identity
        /\ saved = identity

\* A failure recorded without a restore error left the system as it was
\* prepared: boot chain, modules, record, and the saved set if there was one.
RolledBack ==
    status = "failed" =>
        /\ part = before.part
        /\ modules = before.modules
        /\ identity = before.identity
        /\ before.saved # None => saved = before.saved

\* The runner restarts the machine only on the boot chain it found or on the
\* one it was asked to install, never on a mixture.
RebootWhole ==
    pc = "reboot" => part = before.part \/ part = Image(target)

\* Whatever refuses to prepare an update because one is pending lets the
\* user cancel it, once no runner is going to run.
NoLockout ==
    mode = "normal" /\ pc = "idle" /\ PrepareRefused => ~CancelRefused

\* A success is never undone: the record leaves "complete" only when the user
\* prepares another update or cancels, and the boot chain stays until then.
CommitIsFinal ==
    [][status = "complete" =>
        /\ status' \in {"complete", "preparing", "idle"}
        /\ part' = part]_vars

\* An update that has begun to be applied is settled, through any crash.
Settled == status = "applying" ~> status \in {"complete"} \cup Failed

\* docs/system-updates.md: "Detected failures restore the old boot images and
\* modules when possible".  It is possible in every state of a model in which
\* the restore's own writes never fail.
FailureRestores ==
    status \in Failed => part = before.part /\ modules = before.modules
=============================================================================
