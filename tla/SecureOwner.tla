------------------------------ MODULE SecureOwner ------------------------------
(***************************************************************************)
(* The start of the secure processor, once in a boot, and the process that *)
(* keeps what has been lent to it                                          *)
(* (libexec/ubuntu-gts9u-fingerprint-secure and its unit,                  *)
(* libfprint/el721-secure-owner.c).                                        *)
(*                                                                         *)
(* The supervisor starts the two daemons that boot the processor, waits    *)
(* until its applications are loaded, starts the owner and then renews a   *)
(* lease of five seconds as long as all of them live. Whoever wants the    *)
(* fingerprint reader waits for that lease. The owner lends a buffer to    *)
(* the keymaster application, and restores the credentials of the HwVault  *)
(* application from the secure element.                                    *)
(*                                                                         *)
(* A supervisor is started by systemd, again with every start of fprintd   *)
(* when it does not run any more, and may be started by hand. When         *)
(* systemd's ends, systemd kills what it has started. A step of a process  *)
(* ends where it looks at something another one changes.                   *)
(***************************************************************************)
EXTENDS Naturals, FiniteSets

CONSTANTS
    Others,       \* supervisors started by hand
    Credentials   \* the credentials of HwVault: 0, 1 and 11, in their order

Unit == "unit"
Starters == {Unit} \union Others
Users == {"owner", "fprintd"}
Processes == Starters \union Users
Nobody == "nobody"

ASSUME CredentialsAssumption == Credentials \subseteq {0, 1, 11}
ASSUME OthersAssumption == Others \intersect ({Unit, Nobody} \union Users) = {}

VARIABLES
    pc,        \* where each process is
    marker,    \* STATE/attempt exists
    status,    \* STATE/status.json, and whether the five seconds of a ready one last
    daemons,   \* sec_nvm and spdaemon, by the supervisor that started them
    ownerOf,   \* the supervisor that started the owner
    spss,      \* the remote processor's state
    logged,    \* spdaemon has logged that the applications are loaded
    said,      \* what the owner has printed last
    pins,      \* who holds a reference to the buffer for the keymaster
    lent,      \* the keymaster may have the buffer's address
    resident,  \* the applications loaded in the secure world
    mine,      \* the ones a process has loaded itself
    creds,     \* the credentials HwVault has in its cache
    restored,  \* the ones a process has restored this time
    k250a      \* who has the secure element's node open

startVars == <<marker, status, daemons, ownerOf, spss, logged>>
lendVars == <<pins, lent>>
vaultVars == <<resident, mine, creds, restored, k250a>>
vars == <<pc, startVars, said, lendVars, vaultVars>>

Goto(p, label) == pc' = [pc EXCEPT ![p] = label]
At(p, label) == pc[p] = label

Init ==
    /\ pc = [p \in Processes |-> "out"]
    /\ marker = FALSE
    /\ status = [state |-> "none", fresh |-> FALSE]
    /\ daemons = [s \in Starters |-> "none"]
    /\ ownerOf = Nobody
    /\ spss = "offline" /\ logged = FALSE
    /\ said = "nothing"
    /\ pins = {} /\ lent = FALSE
    /\ resident = {}
    /\ mine = [u \in Users |-> {}]
    /\ creds = {}
    /\ restored = [u \in Users |-> {}]
    /\ k250a = Nobody

OwnerAlive == pc["owner"] \notin {"out", "dead"}

------------------------------------------------------------------------------
(* A process that is gone. *)

\* The kernel closes its files, and the secure world may unload what it had
\* loaded.
Bury(users) ==
    /\ k250a' = IF k250a \in users THEN Nobody ELSE k250a
    /\ \E gone \in SUBSET UNION {mine[u] : u \in users} :
         /\ resident' = resident \ gone
         /\ creds' = IF "hwvault" \in gone THEN {} ELSE creds
    /\ mine' = [u \in Users |-> IF u \in users THEN {} ELSE mine[u]]
    /\ restored' = [u \in Users |-> IF u \in users THEN {} ELSE restored[u]]
    /\ pins' = pins \ users

\* A supervisor ends; with systemd's ends its control group.
Ends(s) ==
    LET owners == IF s = Unit /\ ownerOf = s /\ OwnerAlive THEN {"owner"} ELSE {}
    IN  /\ pc' = [p \in Processes |-> IF p \in owners THEN "dead"
                                      ELSE IF p = s THEN "out" ELSE pc[p]]
        /\ daemons' = IF s = Unit /\ daemons[s] = "up" THEN [daemons EXCEPT ![s] = "dead"] ELSE daemons
        /\ Bury(owners)

------------------------------------------------------------------------------
(* The supervisor: boot. *)

SupStarts(s) ==
    /\ At(s, "out")
    /\ Goto(s, "preflight")
    /\ UNCHANGED <<startVars, said, lendVars, vaultVars>>

\* The files may be wrong, the start already tried, the daemons there or the
\* processor not cold.
SupPreflight(s) ==
    /\ At(s, "preflight")
    /\ \/ /\ ~marker
          /\ \A t \in Starters : daemons[t] # "up"
          /\ spss = "offline"
          /\ Goto(s, "marks")
          /\ UNCHANGED <<daemons, lendVars, vaultVars>>
       \/ Ends(s) /\ UNCHANGED lent
    /\ UNCHANGED <<marker, status, ownerOf, spss, logged, said>>

\* O_CREAT | O_EXCL.
SupMarks(s) ==
    /\ At(s, "marks")
    /\ marker' = TRUE
    /\ IF marker
         THEN Ends(s) /\ UNCHANGED lent
         ELSE Goto(s, "begins") /\ UNCHANGED <<daemons, lendVars, vaultVars>>
    /\ UNCHANGED <<status, ownerOf, spss, logged, said>>

Publish(state) == status' = [state |-> state, fresh |-> state = "ready"]

\* The first status is written before the try: a failure ends the process.
SupBegins(s) ==
    /\ At(s, "begins")
    /\ \/ Publish("starting") /\ Goto(s, "loads") /\ UNCHANGED <<daemons, lendVars, vaultVars>>
       \/ Ends(s) /\ UNCHANGED <<status, lent>>
    /\ UNCHANGED <<marker, ownerOf, spss, logged, said>>

\* The modules are loaded and the processor is looked at once more.
SupLoads(s) ==
    /\ At(s, "loads")
    /\ \/ spss = "offline" /\ Goto(s, "spawns")
       \/ Goto(s, "fails")
    /\ UNCHANGED <<startVars, said, lendVars, vaultVars>>

SupSpawns(s) ==
    /\ At(s, "spawns")
    /\ daemons' = [daemons EXCEPT ![s] = "up"]
    /\ logged' = FALSE
    /\ Goto(s, "apps")
    /\ UNCHANGED <<marker, status, ownerOf, spss, said, lendVars, vaultVars>>

\* One turn of waiting for the applications ends it, or the deadline does.
SupApps(s) ==
    /\ At(s, "apps")
    /\ \/ /\ daemons[s] = "up" /\ logged
          /\ ownerOf' = s
          /\ said' = "nothing"
          /\ pc' = [pc EXCEPT ![s] = "polls", !["owner"] = "begins"]
       \/ Goto(s, "fails") /\ UNCHANGED <<ownerOf, said>>
    /\ UNCHANGED <<marker, status, daemons, spss, logged, lendVars, vaultVars>>

ChildrenLive(s) == daemons[s] = "up" /\ OwnerAlive

\* Mutant: only the children are looked at.
HealthyChildren(s) == ChildrenLive(s)

Healthy(s) == ChildrenLive(s) /\ spss = "running"

SupPolls(s) ==
    /\ At(s, "polls")
    /\ Goto(s, IF Healthy(s) THEN "reads" ELSE "fails")
    /\ UNCHANGED <<startVars, said, lendVars, vaultVars>>

\* The owner's output is read and the lease renewed.
SupReads(s) ==
    /\ At(s, "reads")
    /\ \/ /\ status.state = "ready" \/ said = "ready"
          /\ Publish("ready")
          /\ Goto(s, "polls")
       \/ status.state # "ready" /\ said = "nothing" /\ Goto(s, "polls") /\ UNCHANGED status
       \/ said = "failed" /\ Goto(s, "fails") /\ UNCHANGED status
    /\ UNCHANGED <<marker, daemons, ownerOf, spss, logged, said, lendVars, vaultVars>>

\* Mutant: an owner that says nothing is waited for.
SupWaitsOn(s) == FALSE /\ UNCHANGED vars

\* Forty-five seconds without a word.
SupDeadline(s) ==
    /\ At(s, "reads")
    /\ status.state # "ready" /\ said = "nothing"
    /\ Goto(s, "fails")
    /\ UNCHANGED <<startVars, said, lendVars, vaultVars>>

\* Everything is kept until the reboot, unless the status cannot be written.
SupFails(s) ==
    /\ At(s, "fails")
    /\ \/ Publish("failed") /\ Goto(s, "keeps") /\ UNCHANGED <<daemons, lendVars, vaultVars>>
       \/ Ends(s) /\ UNCHANGED <<status, lent>>
    /\ UNCHANGED <<marker, ownerOf, spss, logged, said>>

SupDies(s) ==
    /\ ~At(s, "out")
    /\ Ends(s)
    /\ UNCHANGED <<marker, status, ownerOf, spss, logged, said, lent>>

Sup(s) ==
    \/ SupPreflight(s) \/ SupMarks(s) \/ SupBegins(s) \/ SupLoads(s) \/ SupSpawns(s)
    \/ SupApps(s) \/ SupPolls(s) \/ SupReads(s) \/ SupDeadline(s) \/ SupFails(s)

\* Five seconds pass.
LeaseEnds ==
    /\ status.fresh
    /\ status' = [status EXCEPT !.fresh = FALSE]
    /\ UNCHANGED <<pc, marker, daemons, ownerOf, spss, logged, said, lendVars, vaultVars>>

------------------------------------------------------------------------------
(* The daemons and the secure processor. *)

\* spdaemon has the processor booted, which nobody restarts when it crashes.
SpssBoots ==
    /\ \E s \in Starters : daemons[s] = "up"
    /\ spss = "offline"
    /\ spss' = "running"
    /\ UNCHANGED <<pc, marker, status, daemons, ownerOf, logged, said, lendVars, vaultVars>>

AppsLoaded ==
    /\ \E s \in Starters : daemons[s] = "up"
    /\ spss = "running" /\ ~logged
    /\ logged' = TRUE
    /\ UNCHANGED <<pc, marker, status, daemons, ownerOf, spss, said, lendVars, vaultVars>>

\* Mutant: every channel that goes away lets go of its buffers.
UnlockedAll == {"spcom"}

\* The buffers locked on a channel are let go of when it is removed only if
\* it is sp_kernel, which sp_keymaster is not.
Unlocked == {}

SpssCrashes ==
    /\ spss = "running"
    /\ spss' = "crashed"
    /\ pins' = pins \ Unlocked
    /\ UNCHANGED <<pc, marker, status, daemons, ownerOf, logged, said, lent, vaultVars>>

DaemonDies(s) ==
    /\ daemons[s] = "up"
    /\ daemons' = [daemons EXCEPT ![s] = "dead"]
    /\ UNCHANGED <<pc, marker, status, ownerOf, spss, logged, said, lendVars, vaultVars>>

------------------------------------------------------------------------------
(* The applications of the secure world and HwVault's credentials:           *)
(* el721_qtee_restore_hwvault, which the owner and fprintd both use.         *)

\* The application is found, or the process has to load it; the lookup may
\* fail.
Finds(u, ta, found, missing, failed) ==
    \/ ta \in resident /\ Goto(u, found)
    \/ ta \notin resident /\ Goto(u, missing)
    \/ Goto(u, failed)

\* Somebody else may have loaded it since, and then it is refused.
Loads(u, ta, loaded, failed) ==
    \/ /\ ta \notin resident
       /\ resident' = resident \union {ta}
       /\ mine' = [mine EXCEPT ![u] = @ \union {ta}]
       /\ Goto(u, loaded)
    \/ Goto(u, failed) /\ UNCHANGED <<resident, mine>>

Left(u) == Credentials \ restored[u]
FirstLeft(u) == CHOOSE c \in Left(u) : \A d \in Left(u) : c <= d

RestoreLooks(u) ==
    /\ At(u, "vault")
    /\ Finds(u, "hwvault", "restores", "vaultLoads", "vaultFails")
    /\ UNCHANGED vaultVars

RestoreLoads(u) ==
    /\ At(u, "vaultLoads")
    /\ Loads(u, "hwvault", "restores", "vaultFails")
    /\ UNCHANGED <<creds, restored, k250a>>

\* One of the calls for a credential fails: the node is closed.
Broken(u) ==
    /\ k250a' = IF k250a = u THEN Nobody ELSE k250a
    /\ Goto(u, "vaultFails")
    /\ UNCHANGED <<creds, restored>>

\* The node can be opened once. The secure element gives a nonce.
RestoreOpens(u) ==
    /\ At(u, "restores")
    /\ Left(u) # {}
    /\ \/ k250a = Nobody /\ k250a' = u /\ Goto(u, "signs") /\ UNCHANGED <<creds, restored>>
       \/ Broken(u)
    /\ UNCHANGED <<resident, mine>>

\* HwVault signs the request with the nonce.
RestoreSigns(u) ==
    /\ At(u, "signs")
    /\ \/ "hwvault" \in resident /\ Goto(u, "fetches") /\ UNCHANGED <<creds, restored, k250a>>
       \/ Broken(u)
    /\ UNCHANGED <<resident, mine>>

\* The secure element hands out the credential, in as many pieces as it takes.
RestoreFetches(u) ==
    /\ At(u, "fetches")
    /\ \/ Goto(u, "caches") /\ UNCHANGED <<creds, restored, k250a>>
       \/ Broken(u)
    /\ UNCHANGED <<resident, mine>>

\* HwVault verifies and keeps it.
RestoreCaches(u) ==
    /\ At(u, "caches")
    /\ \/ /\ "hwvault" \in resident
          /\ restored' = [restored EXCEPT ![u] = @ \union {FirstLeft(u)}]
          /\ creds' = creds \union {FirstLeft(u)}
          /\ k250a' = Nobody
          /\ Goto(u, "restores")
       \/ Broken(u)
    /\ UNCHANGED <<resident, mine>>

Unload(u, tas) ==
    /\ resident' = resident \ tas
    /\ mine' = [mine EXCEPT ![u] = @ \ tas]
    /\ creds' = IF "hwvault" \in tas THEN {} ELSE creds

\* What the restoring process has loaded is unloaded again.
RestoreFails(u, label) ==
    /\ At(u, "vaultFails")
    /\ Unload(u, mine[u] \intersect {"hwvault"})
    /\ restored' = [restored EXCEPT ![u] = {}]
    /\ Goto(u, label)
    /\ UNCHANGED k250a

RestoreEnds(u, label) ==
    /\ At(u, "restores")
    /\ Left(u) = {}
    /\ restored' = [restored EXCEPT ![u] = {}]
    /\ Goto(u, label)
    /\ UNCHANGED <<resident, mine, creds, k250a>>

Restores(u) ==
    \/ RestoreLooks(u) \/ RestoreLoads(u) \/ RestoreOpens(u) \/ RestoreSigns(u)
    \/ RestoreFetches(u) \/ RestoreCaches(u)

Restoring(u) ==
    pc[u] \in {"vault", "vaultLoads", "restores", "signs", "fetches", "caches", "vaultFails"}

------------------------------------------------------------------------------
(* The owner: main and bind_spu_buffer. *)

\* What goes wrong is printed, and the process ends unless the buffer may
\* have been lent.
OwnerFails ==
    /\ said' = "failed"
    /\ IF lent
         THEN Goto("owner", "held") /\ UNCHANGED pins
         ELSE Goto("owner", "dead") /\ pins' = pins \ {"owner"}

\* Sessions with the secure world, the listener and the keymaster's version.
OwnerOpens ==
    /\ At("owner", "begins")
    /\ \/ marker /\ Goto("owner", "allocates") /\ UNCHANGED <<said, pins>>
       \/ OwnerFails
    /\ UNCHANGED <<startVars, lent, vaultVars>>

OwnerAllocates ==
    /\ At("owner", "allocates")
    /\ \/ pins' = pins \union {"owner"} /\ Goto("owner", "connects") /\ UNCHANGED said
       \/ OwnerFails
    /\ UNCHANGED <<startVars, lent, vaultVars>>

\* Five seconds for the channel to be connected.
OwnerConnects ==
    /\ At("owner", "connects")
    /\ \/ spss = "running" /\ Goto("owner", "locks") /\ UNCHANGED <<said, pins>>
       \/ OwnerFails
    /\ UNCHANGED <<startVars, lent, vaultVars>>

OwnerLocks ==
    /\ At("owner", "locks")
    /\ \/ pins' = pins \union {"spcom"} /\ Goto("owner", "binds") /\ UNCHANGED said
       \/ OwnerFails
    /\ UNCHANGED <<startVars, lent, vaultVars>>

\* From here on the address may be out, whatever the answer is.
OwnerLends ==
    /\ At("owner", "binds")
    /\ lent' = TRUE
    /\ Goto("owner", "configures")
    /\ UNCHANGED <<startVars, said, pins, vaultVars>>

\* The answer to it, leaving the channel, and the commands that configure.
OwnerConfigures ==
    /\ At("owner", "configures")
    /\ \/ Goto("owner", "vault") /\ UNCHANGED <<said, pins>>
       \/ OwnerFails
    /\ UNCHANGED <<startVars, lent, vaultVars>>

OwnerRestores ==
    \/ Restores("owner") /\ UNCHANGED <<startVars, said, lendVars>>
    \/ RestoreFails("owner", "held") /\ said' = "failed" /\ UNCHANGED <<startVars, lendVars>>
    \/ RestoreEnds("owner", "ready") /\ said' = "ready" /\ UNCHANGED <<startVars, lendVars>>

OwnerDies ==
    /\ OwnerAlive
    /\ Goto("owner", "dead")
    /\ Bury({"owner"})
    /\ UNCHANGED <<startVars, said, lent>>

Owner ==
    \/ OwnerOpens \/ OwnerAllocates \/ OwnerConnects \/ OwnerLocks \/ OwnerLends
    \/ OwnerConfigures \/ OwnerRestores

------------------------------------------------------------------------------
\* Bound: by hand only while the start has not been claimed. Later it ends at
\* the preflight, as systemd's does.
SecureNext ==
    \/ \E s \in Starters : Sup(s) \/ SupDies(s) \/ DaemonDies(s)
    \/ \E s \in Others : ~marker /\ SupStarts(s)
    \/ LeaseEnds
    \/ SpssBoots \/ AppsLoaded \/ SpssCrashes
    \/ Owner \/ OwnerDies

\* A supervisor goes on, and a deadline is met however often the loop turns
\* before. Nothing is asked of its children.
SecureFairness ==
    /\ \A s \in Starters : WF_vars(Sup(s))
    /\ SF_vars(\E s \in Starters : SupDeadline(s))
    /\ WF_vars(LeaseEnds)

------------------------------------------------------------------------------
\* The daemons are started by one supervisor in a boot: the processor is never
\* initialised a second time (fingerprint-secure:2, :119).
OneStart == Cardinality({s \in Starters : daemons[s] # "none"}) <= 1

\* Memory whose address the keymaster may have stays allocated, even when the
\* owner is killed and the secure processor has crashed (el721-secure-owner.c:95).
LentPinned == lent => pins # {}

\* Waiting for the lease can succeed.
Admits == status.state = "ready" /\ status.fresh /\ OwnerAlive

Lost == ~OwnerAlive \/ spss # "running" \/ \A s \in Starters : daemons[s] # "up"

\* The loss of the processor or of a daemon does not go unseen: there comes a
\* moment when the failure is published, or the lease has ended and nobody is
\* renewing it, or the owner is gone, whom fprintd asks for as well
\* (fingerprint-secure:166, :104).
LossSeen ==
    Lost ~> \/ status.state # "ready"
            \/ ~OwnerAlive
            \/ ~status.fresh /\ \A s \in Starters : pc[s] \in {"out", "preflight", "marks"}

\* Once the boot's start has been claimed, the lease is given or refused, or
\* the supervisor is gone, though the owner's calls into the secure world may
\* never return (fingerprint-secure:151, :183).
StartSettles ==
    marker ~> \/ status.state \in {"ready", "failed"}
              \/ \A s \in Starters : pc[s] \in {"out", "preflight", "marks"}
=============================================================================
