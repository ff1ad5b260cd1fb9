---------------------------- MODULE TrustedSession ----------------------------
(***************************************************************************)
(* fprintd's session with the secure world (libfprint/el721-qtee.c), beside*)
(* the owner of the secure processor and under its lease.                  *)
(*                                                                         *)
(* systemd starts fprintd, and with it the supervisor if that does not run,*)
(* after at most a minute of waiting for the lease. Opening the reader     *)
(* loads the dualfp application, unless it is there, restores HwVault's    *)
(* credentials and prepares the sensor. An enrolment asks dualfp for a     *)
(* challenge and has skeymast, the Gatekeeper, sign it for a random secret *)
(* that is kept in a file together with the handle skeymast has given for  *)
(* it; skeymast knows a handle only until it is unloaded. Enrolling and    *)
(* matching are captures, each between an Init and a Final; the finger and *)
(* the light they need are FingerprintReader's. Closing the reader unloads *)
(* what the session has loaded itself.                                     *)
(*                                                                         *)
(* fprintd may be killed anywhere, and the tablet may be started again.    *)
(***************************************************************************)
EXTENDS SecureOwner

VARIABLES
    handle,   \* the handle in hand
    file,     \* the handle in the state file
    gate      \* the session holds skeymast's controller

sessionVars == <<handle, file, gate>>
allVars == <<vars, sessionVars>>

F == "fprintd"

\* Everything but where fprintd is.
Stays == UNCHANGED <<startVars, said, lendVars, vaultVars, sessionVars>>

SessionInit ==
    /\ Init
    /\ handle = "none"
    /\ file \in {"none", "stale"}
    /\ gate = FALSE

\* A handle skeymast has given is of no use when it is unloaded.
Spent(h, tas) == IF h = "live" /\ "skeymast" \in tas THEN "stale" ELSE h

\* What is resident loses whatever has been unloaded.
Handles(h) ==
    /\ handle' = Spent(h, resident \ resident')
    /\ file' = Spent(file, resident \ resident')

------------------------------------------------------------------------------
(* The service: fprintd.service.d/10-gts9u-el721.conf and wait_ready. *)

\* Requires= starts the supervisor too.
FprintdStarts ==
    /\ At(F, "out")
    /\ pc' = [pc EXCEPT ![F] = "waits",
                        ![Unit] = IF @ = "out" THEN "preflight" ELSE @]
    /\ Stays

\* ready_record, and the owner exists.
Admitted == Admits

\* A failure is told, and the minute may be over.
FprintdWaits ==
    /\ At(F, "waits")
    /\ \/ Admitted /\ Goto(F, "closed")
       \/ Goto(F, "out")
    /\ Stays

\* Stopped with the reader closed, or killed anywhere.
FprintdDies ==
    /\ pc[F] # "out"
    /\ Goto(F, "out")
    /\ Bury({F})
    /\ Handles("none")
    /\ gate' = FALSE
    /\ UNCHANGED <<startVars, said, lent>>

------------------------------------------------------------------------------
(* el721_qtee_open, el721_qtee_prepare and el721_qtee_close. *)

\* The root object with its supplicant, the client environment and the services
\* come first, each of which may be refused.
Refused == Goto(F, "closes")

OpenLooks ==
    /\ At(F, "closed")
    /\ Refused \/ Finds(F, "dualfp", "vault", "loads", "closes")
    /\ Stays

OpenLoads ==
    /\ At(F, "loads")
    /\ Loads(F, "dualfp", "vault", "closes")
    /\ UNCHANGED <<startVars, said, lendVars, creds, restored, k250a, sessionVars>>

OpenRestores ==
    /\ \/ Restores(F)
       \/ RestoreFails(F, "closes") \/ RestoreEnds(F, "prepares")
    /\ UNCHANGED <<startVars, said, lendVars, sessionVars>>

\* A command reaches dualfp, whose verdict is its caller's to judge, or the
\* transport fails.
Command(next, failed) ==
    \/ "dualfp" \in resident /\ Goto(F, next)
    \/ Goto(F, failed)

\* The same through one of the numbered control operations.
Control(next, failed) == Command(next, failed)

\* A file of the firmware: missing, empty and too long are the same.
RuntimeFiles == {"read", "unusable"}

\* The reset of the sensor needs its device, which may not answer.
SensorReset(next, failed) == Goto(F, next) \/ Goto(F, failed)

\* The calibration is sent again, six times at most, after what the application
\* has asked for in its answer: a reset of the sensor, or the idle transition.
Prepare ==
    /\ At(F, "prepares")
    /\ \E calibration \in RuntimeFiles :
         IF calibration = "unusable" THEN Goto(F, "closes")
         ELSE \/ Command("configures", "closes")
              \/ SensorReset("prepares", "closes")
              \/ Control("prepares", "closes")
    /\ Stays

\* The matcher's bootstrap and the model.
Configure == At(F, "configures") /\ Control("uploads", "closes") /\ Stays

\* The optical data, in at most four pieces after a reset.
LoadBds ==
    /\ At(F, "uploads")
    /\ \E optics \in RuntimeFiles :
         IF optics = "unusable" THEN Goto(F, "closes") ELSE Control("open", "closes")
    /\ Stays

\* Mutant: everything the session uses is unloaded.
CloseUnloadsAll ==
    /\ At(F, "closes")
    /\ Unload(F, resident)
    /\ Handles("none")
    /\ gate' = FALSE
    /\ Goto(F, "closed")
    /\ UNCHANGED <<startVars, said, lendVars, restored, k250a>>

\* The Gatekeeper, dualfp and HwVault, if the session has loaded them.
Close ==
    /\ At(F, "closes")
    /\ Unload(F, mine[F])
    /\ Handles("none")
    /\ gate' = FALSE
    /\ Goto(F, "closed")
    /\ UNCHANGED <<startVars, said, lendVars, restored, k250a>>

\* The device is closed between two operations.
Closing == At(F, "open") /\ Goto(F, "closes") /\ Stays

------------------------------------------------------------------------------
(* el721_qtee_authorize_enrollment. Whatever fails leaves the session open. *)

Fails == Goto(F, "open") /\ handle' = "none"

\* skeymast answers, if it is there.
Asked(next) == "skeymast" \in resident /\ Goto(F, next)

\* HAT_ENABLE and the challenge.
Authorize ==
    /\ At(F, "open")
    /\ Goto(F, IF gate THEN "state" ELSE "gatekeeper")
    /\ Stays

GatekeeperLooks ==
    /\ At(F, "gatekeeper")
    /\ Finds(F, "skeymast", "state", "gatekeeperLoads", "open")
    /\ gate' = (pc'[F] = "state")
    /\ UNCHANGED <<startVars, said, lendVars, vaultVars, handle, file>>

GatekeeperLoads ==
    /\ At(F, "gatekeeperLoads")
    /\ Loads(F, "skeymast", "state", "open")
    /\ gate' = (pc'[F] = "state")
    /\ UNCHANGED <<startVars, said, lendVars, creds, restored, k250a, handle, file>>

\* The secret and the handle come from the file, or there is none yet and the
\* secret is a new one.
ReadState ==
    /\ At(F, "state")
    /\ \/ Goto(F, "enrolls") /\ handle' = file
       \/ Fails
    /\ UNCHANGED <<startVars, said, lendVars, vaultVars, file, gate>>

\* The secret is enrolled anew, whether or not there was a handle.
EnrollSecret ==
    /\ At(F, "enrolls")
    /\ \/ Asked("writes") /\ handle' = "live"
       \/ Fails
    /\ UNCHANGED <<startVars, said, lendVars, vaultVars, file, gate>>

\* A file of its own, written and synced, takes the place of the old one.
WriteState ==
    /\ At(F, "writes")
    /\ \/ file' = handle /\ Goto(F, "wraps") /\ UNCHANGED handle
       \/ Fails /\ UNCHANGED file
    /\ UNCHANGED <<startVars, said, lendVars, vaultVars, gate>>

\* skeymast wraps its key for the tokens for dualfp,
GetKey ==
    /\ At(F, "wraps")
    /\ \/ Asked("unwraps") /\ UNCHANGED handle
       \/ Fails
    /\ UNCHANGED <<startVars, said, lendVars, vaultVars, file, gate>>

\* which unwraps and takes it.
Decap ==
    /\ At(F, "unwraps")
    /\ \/ Goto(F, "verifies") /\ UNCHANGED handle
       \/ Fails
    /\ UNCHANGED <<startVars, said, lendVars, vaultVars, file, gate>>

\* The token for the challenge,
VerifySecret ==
    /\ At(F, "verifies")
    /\ \/ handle = "live" /\ Asked("token") /\ UNCHANGED handle
       \/ Fails
    /\ UNCHANGED <<startVars, said, lendVars, vaultVars, file, gate>>

\* and dualfp's verdict on it.
HatOp ==
    /\ At(F, "token")
    /\ Command("enrollInit", "open")
    /\ handle' = "none"
    /\ UNCHANGED <<startVars, said, lendVars, vaultVars, file, gate>>

Authorization ==
    \/ Authorize \/ GatekeeperLooks \/ GatekeeperLoads \/ ReadState \/ EnrollSecret
    \/ WriteState \/ GetKey \/ Decap \/ VerifySecret \/ HatOp

------------------------------------------------------------------------------
(* Enrolling and matching: an Init, a Do that arms the sensor, the Do calls   *)
(* of one touch, and a Final. What fails in between skips the Final.          *)

\* The panel's driver knows the cell, or a file among the firmware does.
CellIds == {"panel", "file", "unusable"}

\* The Init, whose result is looked at, and the Do.
Begins(next, failed) ==
    \E cell \in CellIds :
        IF cell = "unusable" THEN Goto(F, failed) ELSE Command(next, failed)

EnrollInit == At(F, "enrollInit") /\ Begins("enrollWait", "open") /\ Stays

EnrollDo == At(F, "enrollWait") /\ Command("enrollFinal", "open") /\ Stays

\* The template is complete, or another sample begins with an Init of its own.
EnrollFinal ==
    /\ At(F, "enrollFinal")
    /\ Command("enrollInit", "open")
    /\ Stays

\* One print of the gallery is loaded.
IdentifyInit(next, failed) == Begins(next, failed)

\* Only a start that fails sends a Final of its own.
StartIdentify == At(F, "open") /\ IdentifyInit("matchWait", "matchAbort") /\ Stays

IdentifyAborts == At(F, "matchAbort") /\ Goto(F, "open") /\ Stays

IdentifyDo == At(F, "matchWait") /\ Command("matchFinal", "open") /\ Stays

\* The action has its result, or the next print is loaded.
IdentifyFinal ==
    /\ At(F, "matchFinal")
    /\ \/ Command("open", "open")
       \/ IdentifyInit("matchWait", "open")
    /\ Stays

\* dualfp is told of a cancellation, whatever it answers.
Cancel ==
    /\ pc[F] \in {"enrollWait", "matchWait"}
    /\ Goto(F, "open")
    /\ Stays

Captures ==
    \/ EnrollInit \/ EnrollDo \/ EnrollFinal
    \/ StartIdentify \/ IdentifyAborts \/ IdentifyDo \/ IdentifyFinal
    \/ Cancel

------------------------------------------------------------------------------
\* A handle is lost with the secure world, and the last file with a name that
\* has not reached the disk.
Reboot ==
    /\ pc' = [p \in Processes |-> "out"]
    /\ marker' = FALSE
    /\ status' = [state |-> "none", fresh |-> FALSE]
    /\ daemons' = [s \in Starters |-> "none"]
    /\ ownerOf' = Nobody
    /\ spss' = "offline" /\ logged' = FALSE
    /\ said' = "nothing"
    /\ pins' = {} /\ lent' = FALSE
    /\ resident' = {} /\ creds' = {}
    /\ mine' = [u \in Users |-> {}]
    /\ restored' = [u \in Users |-> {}]
    /\ k250a' = Nobody
    /\ handle' = "none" /\ gate' = FALSE
    /\ \/ file' = IF file = "none" THEN "none" ELSE "stale"
       \/ file = "live" /\ file' = "none"

\* The other processes' steps may take skeymast away, but never do.
OwnerSteps ==
    /\ SecureNext
    /\ Handles(handle)
    /\ UNCHANGED gate

Next ==
    \/ OwnerSteps
    \/ FprintdStarts \/ FprintdWaits \/ FprintdDies
    \/ OpenLooks \/ OpenLoads \/ OpenRestores
    \/ Prepare \/ Configure \/ LoadBds \/ Close \/ Closing
    \/ Authorization \/ Captures
    \/ Reboot

Spec == SessionInit /\ [][Next]_allVars /\ SecureFairness

------------------------------------------------------------------------------
\* Every variable has a value of its type.
TypeOK ==
    /\ marker \in BOOLEAN /\ lent \in BOOLEAN /\ logged \in BOOLEAN /\ gate \in BOOLEAN
    /\ status \in [state : {"none", "starting", "ready", "failed"}, fresh : BOOLEAN]
    /\ daemons \in [Starters -> {"none", "up", "dead"}]
    /\ ownerOf \in Starters \union {Nobody}
    /\ spss \in {"offline", "running", "crashed"}
    /\ said \in {"nothing", "ready", "failed"}
    /\ pins \subseteq {"owner", "spcom"}
    /\ resident \subseteq {"hwvault", "dualfp", "skeymast"}
    /\ mine \in [Users -> SUBSET resident]
    /\ creds \in SUBSET Credentials /\ restored \in [Users -> SUBSET Credentials]
    /\ k250a \in Users \union {Nobody}
    /\ {handle, file} \subseteq {"none", "live", "stale"}

\* What the owner has restored stays: as long as it keeps the vault, fprintd's
\* sessions come, fail, close and are killed without taking the application or
\* a credential away (el721-qtee.c:791, :1273).
VaultKept ==
    pc["owner"] = "ready" => "hwvault" \in resident /\ creds = Credentials

\* The owner and fprintd never restore the vault at the same time, so neither
\* finds the secure element's node open (fingerprint-secure:84).
OneRestorer == ~(Restoring("owner") /\ Restoring(F))

\* The Gatekeeper is asked to verify with a handle of its present life, after
\* whatever unloading, crash and reboot (el721-qtee.c:2235).
HandleUsable == At(F, "verifies") => handle = "live"
=============================================================================
