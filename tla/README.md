# Verification of the Galaxy Tab S9 Ultra port

TLA+ models of the parts of this repository in which several actors, crashes and failures meet, the TLC runs that check
them on small instances, and TLAPS proofs of what matters most for every instance. Paths below are relative to `src/`.

Contents: [inventory](#inventory) · [modules and the code](#modules-and-the-code) · [runs](#runs) · [fairness](#fairness)
· [proofs](#proofs) · [where code and documentation disagree](#where-code-and-documentation-disagree) ·
[not modelled](#not-modelled) · [plan](#plan)

Running it: `tlc -config <run>.cfg <module>` for a run of the table below, `tlapm <module>Proofs.tla` for the proofs.

## Inventory

The repository turns the tablet into a machine with two systems, Samsung's Android (One UI) and Ubuntu 24.04 on a mainline
kernel. Both live on the internal storage and share one boot chain. Around that there are kernel drivers ported or written
for the tablet, packages with the services Ubuntu needs on it, an Android app, and the scripts that build it all.

| Part | State it keeps | Operations | Talks to | What is hard |
|---|---|---|---|---|
| **System updater** (`tab_companion/update_core.py`, `update_bundle.py`) | `status.json`, the `/system-update` marker, the transaction directory with its backup, `backups/`, the installed-build record | `prepare`, `--cancel`, `--apply-offline`, `--status` | the four boot partitions, dpkg/apt, `/usr/lib/modules`, Ubuntu's saved boot set, systemd's offline update | a power loss or failure at any step, retry after it, rollback that can fail as well, one step of several written |
| **Charging** (`kernel/drivers/sm5440_direct.c`, `sm5714_battery.c`) | pump and watchdog registers, `active`, `pps_ticks`; Q4, boost, `direct_charging`, `thermal_state`, `last_online` | pump work item, one-second poll, PD contract, OTG on/off, suspend, resume, unbind | each other, the port controller through TCPM, the battery pack | four threads, shared registers, locks dropped between read and use, failing I2C transfers |
| **USB-PD port controller** (`sm5714_usbpd.c`) | CC state, message FIFOs, VBUS role, swap latches | TCPM's callbacks, interrupt | TCPM, the charger | message retry and role swaps |
| **Dual boot, Android side** (`android/bootswitcher`: `BootSets.kt`, `BootMaintenance.kt`, `BootState.kt`, `SwitcherViewModel.kt`, `BootSwitchTile.kt`, `BootRefreshJob.kt`, `refresh-android.sh`) | what the app and the tile show (`nextBoot`, `sets`, `staged`), the stored Android set, `.previous` and `.pending` | read, stage, undo, restart, tile tap, job after boot, refresh of the backup | the boot partitions, Ubuntu's filesystem | three callers, state read before a dialog, two renames that a power loss can separate, a journal Android may not replay |
| **Dual boot, Ubuntu side** (`boot_core.py`, `boot_sets.py`, `tab-companion-boot-switch`, GNOME toggle) | the boot lock, the stored sets | switch with or without restart | the boot partitions, the updater's `status.json` and lock | a restart ordered after the lock is released |
| **Secure element** (`kernel/drivers/snvm`) | T=1 sequence numbers, chain buffers, the answer of the last command, the supply | open, write a chain of commands, read, reset, close; send, receive, waiting-time extension, retransmission | SPI, its one user in libfprint | lost, damaged and repeated blocks, a card that stays powered after its session |
| **Secure processor** (`qcom_spss.c`, `qcom_glink_spss.c`, `spss_utils.c`, `qcom_spss_irq.c`, `qcom_sp_hlos_heap.c`, `spcom.c`) | remoteproc state and start completion, ring indices, signalled events, shared pages, channels with their transactions, buffer locks | start, attach, stop, crash; write and read a pipe; allocate and release a buffer; register, send, get a response, leave | remoteproc core, GLINK, the hypervisor, user processes that die | interrupt threads beside a start, subdevices that fail half-way, a ring that wraps, hypervisor calls that are refused, channels shared by processes, a restart in the middle of a call |
| **Fingerprint** (`egis_el721.c`, `packaging/libfprint/el721*`, secure supervisor and owner, broker, overlay extension) | sensor power, secure session and credentials, gallery, light request, lease and presented token | enrol, match, cancel, touch, suspend; start of the secure processor once a boot | secure world, screen, touch controller, GNOME Shell | touch and light handed between four processes, lent memory whose owner may die, leases that lapse |
| **Keyboard cover** (`samsung_stm32_pogo.c`) | connection, firmware state, pressed keys, the power of the cover | attach, detach, packets, initialisation, firmware update | I2C, GPIOs, input | a bouncing line, power cut by an interrupt beside work items, an update cut by the power |
| **Pen digitizer** (`samsung_wacom_w90xx.c`) | range, reported tool and touch, option, dock; charge stage of the garage | frame, timer of silence, option, dock interrupt, charge work, reset of the bond | I2C, GPIOs, input, the touch controller | a controller that falls silent, a timer within a frame, a work item cancelled by a reset that a dock overtakes |
| **Installer and repartitioning** (`configs/twrp`, `scripts/repartition-ufs.sh`, `swap-boot-set.sh`) | the partition table, the boot chain | install, repartition | TWRP | a point of no return |
| **Drivers with little control** (panel, cameras, focus motor, redriver, DSP) | register tables | probe, on, off | | |
| **Device services, companion, desktop extensions** (`packaging/ubuntu-gts9u-*`) | settings | one-shot scripts, D-Bus daemon | | |
| **Build, release and test scripts, kernel patches** | none on the tablet | | | |

How the modelled parts meet: the updater and the two switchers all write the boot chain `boot`, `init_boot`, `vendor_boot`,
`dtbo`. On Ubuntu the updater and the switch helper take the same lock file, and the switch looks at the updater's status.
On Android everything runs under the monitor of one object. Only one of the two systems is ever up, so what one side
leaves on storage is all the other ever sees of it. The secure processor is started by the fingerprint reader's supervisor
through a command of `spcom`, its owner process restores credentials from the secure element and lends it memory, and
fprintd's session with the secure world goes by the supervisor's lease; the reader's driver then meets the desktop in three
files under `/run`. Charging, the keyboard cover and the pen are independent of these.

What makes each of them correct, in short. *Updater*: the old boot chain can always be had back; a recorded success is
whole and final; a recorded failure left the old system; every update settles. *Charging*: the pump, the USB boost and the
switching charger never drive the battery path against each other; no failure leaves the pump without an owner; the battery is
not stranded between the chargers and a hot pack is not charged. *Dual boot*: a complete set of Android's boot images always
exists and never contains an image of Ubuntu; nobody goes on to a restart from a chain no stored set accounts for. *Secure element*: a
command runs at most once and an answer is its command's. *Secure processor*: nobody gets another's response; a pipe delivers
whole messages in order; no page the secure world can access is given to anybody else; an announced processor is there; no
interrupt is slept through. *Fingerprint*: a press is read once for each print, a match is the finger's own, light comes only
behind its shade, nothing stays on but what refused to go off, the processor is started once, what is lent stays; a sensor nobody can switch off any
more is off. *Keyboard cover*: no key stays pressed, a cover that stays is attached, an update ends. *Pen*: a
pen that has gone is not reported, one that stays in its garage is charged. `PROJECT.json` lists the hazards line by line.

## Modules and the code

| Module | Models | Lines it is about |
|---|---|---|
| `UpdateTransaction` (`MC...`, `...Proofs`) | the updater | `update_core.py` 70-514 |
| `DirectCharge` (`...Proofs`) | pump, charger, the port's calls into it | `sm5440_direct.c`, `sm5714_battery.c`, `sm5714_usbpd.c` 609-623 |
| `BootChain` | partitions, stored sets, the write-and-verify loop | `BootSets.write`, `write_set` |
| `AndroidSwitcher` | app, tile, job, backup transaction | `android/bootswitcher` |
| `UbuntuSwitcher` | the switch helper | `tab-companion-boot-switch` |
| `DualBoot` (`MC...`, `...Proofs`) | both switchers on one machine: power, starts, updates of both systems | |
| `Exchange` | abstract: what is promised of one command to the secure element | |
| `IsoT1` | the block protocol, host and card over a line that fails | `ese_iso7816_t1.c` |
| `SecureElement` (`...Proofs`) | the device node, its chains of commands, the supply; implements `Exchange` | `sec_star.c`, `sec_k250a.c` |
| `SpcomChannel` (`...Proofs`) | channels, transactions, the work item that delivers | `spcom.c` |
| `SpssLoader` | starting, attaching, stopping, crashing, the events for user space | `qcom_spss.c`, `spss_utils.c` |
| `ByteStream` | abstract: messages in, the same messages out | |
| `GlinkPipe` | one pipe of the GLINK edge; implements `ByteStream` | `qcom_glink_spss.c` |
| `SharedHeap` | the memory shared with the secure processor | `qcom_sp_hlos_heap.c` |
| `SplListener` | waiting for its interrupt | `qcom_spss_irq.c`, `el721-spl-wire.h`, `el721-qtee.c` |
| `SensorDevice` | the fingerprint sensor's supply, rail, node, files | `egis_el721.c` |
| `SecureProcessor` (`MC...`, `...Proofs`) | the five together | |
| `SecureOwner` (`...Proofs`) | supervisor, daemons, owner, the lent buffer, credentials | `ubuntu-gts9u-fingerprint-secure`, `el721-secure-owner.c`, `spcom.c` |
| `TrustedSession` | fprintd's session beside them | `el721-qtee.c`, `10-gts9u-el721.conf` |
| `FingerprintReader` | the driver's poll, captures, light, touch and power | `el721.c`, `el721-touch-light.h`, `el721-match-retry.h`, `egis_el721.c` |
| `FingerprintPrompt` (`MCFingerprint`, `FingerprintProofs`) | with the overlay and the broker | `extension.js`, `ubuntu-gts9u-fingerprint-ui` |
| `PogoKeyboard` | the keyboard cover | `samsung_stm32_pogo.c` |
| `PenHover` | the pen over the panel | `samsung_wacom_w90xx.c` 510-859 |
| `PenGarage` | the pen in its garage | `samsung_wacom_w90xx.c` 376-624 |
| `InputDevices` | cover and pen in one specification | |

### UpdateTransaction

One action per step of `prepare()`, `--cancel` and `apply_offline()` after which a power loss leaves something different
on storage. The boot lock admits one operation at a time, so one program counter serves the three. On storage: the boot
partitions, the modules, the installed-build record (`identity`), Ubuntu's saved boot set, the transaction directory
(`target`, `backup`, `oldSet`), the kept backups (`archive`), `status` and `marker`. In the process: `resumed` for
`previous["state"] == "applying"`, `devices` for whether `partitions()` has been assigned, `recovery` for the restore's
error. `before` is a history variable, the system at the time of `prepare`.

`PrepareStage` is lines 257-332 in one step: download, checks, extraction and dependency resolution either produce a
complete transaction or raise (`PrepareFail`), and nothing they leave behind is looked at again. Partitions and modules hold
the release they came from, or `Torn` while they are being overwritten. `ApplyFail` may follow any step of the try block,
`RestoreFail` any of the restore's (`RestoreMayFail`), and status writes may fail (`StatusMayFail`). A crash stops
anything; what was written stays. `RestoreModules` has every file of the old modules back; `cp -a` (441) leaves beside them what
only the new release has, which the model does not tell apart. `FailUnmark` leaves out that `systemctl start emergency.target` (457)
may itself fail: the exception leaves through the same `finally`, and there is no restart either way.

### DirectCharge

Four threads: the pump's work item, the charger's poll, TCPM's worker and the thread that suspends or unbinds the pump's
driver. A step is a stretch of code between two points where another thread can see or change something shared. What runs
under `chg_lock` or the driver's global lock is one step, because every other writer of what it touches takes the lock too.
The one exception, the poll's clearing of Q4 on unplugging and its store to `thermal_state`, are steps of their own.
`seen` holds the poll's local variables, which is how a stale reading gets used.

Voltages, currents and capacity appear only as checks that may pass or fail. Transfers to the SM5440 may fail while
starting and monitoring (`BusFails`) and in the restore (`RestoreFails`), the fuel gauge and the SM5714 always answer;
`set_otg(false)` always succeeds. `Plug` waits until TCPM has dropped the old contract. `RetryTooSoon` is the one timing
assumption: a work item that has just given up comes back after 30 s (`SM5440_RETRY_MS`), and no restore takes that long.

### BootChain, AndroidSwitcher, UbuntuSwitcher, DualBoot

An image is the release it came from or one of `Torns` while half written. The write loop is the same in both programs;
`BootChain` has it once, with opening, closing and verifying a partition as separate steps. `AndroidSwitcher` has the
callers (`AppRefresh`, `AppWrite`, `AppRestart`, `TileRead`, `TileSwitch`, `JobStart`), and what runs under the monitor:
`Recover` for `recoverInterrupted`, the decision of `backupDecision` (`Ambiguous`, `LinuxStaged`, `Mixed`, `Unchanged`),
and `refresh-android.sh` command by command (`CopyPartitions`, `DiscardPrevious`, `SetAside`, `Install`, `ScriptFails`).
Leaving the monitor and ordering a restart are steps apart wherever they are in the code: the tile, the app and Ubuntu's helper
order theirs when the lock is free (`SetsOut`, then `Order`; the app tells its screen in between, `AppWrote`), so another writer may be
half-way by then; only the restart that skips the write is ordered inside the monitor (`NextEnd`). What each caller leaves behind is
`RestartKnown`; that the chain need not be there any more when the restart is ordered or happens is
[below](#where-code-and-documentation-disagree). The app appears as two actors, `app` and `restart`: the path of `apply` for a chain that is already written does not set
`busy`, so the other buttons stay alive under it. `UbuntuSwitcher` has the helper and, of the updater, only what the helper
looks at. `DualBoot` adds starts, restarts, power losses, an Android that updates itself, the updater's offline run in one
step (`UpdateTransaction` has its steps), and TWRP's installer as the way out of a torn chain.

A restart that was ordered takes effect some time later (`Shutdown`): `systemctl reboot` and `svc power reboot` return
before the machine goes down, so a lock that is held while ordering it protects nothing. Which system starts is decided by
the kernel in the first partition alone. Linux's set is complete, there is one Android set, and neither is overridden
under `/sdcard/BootSets`.

### Exchange, IsoT1, SecureElement

`IsoT1` takes turns between host and card. A block is what the program can tell of a frame (kind, sequence bit, whether more
follow, which piece of which command or answer), and between a sender and its receiver the line may damage or lose it
(`MaxFaults`). The host's counters (`frame_retry`, `timeout_retry`, `rnack_retry`) and its reactions are the driver's, line for
line; the card is external and does what the reactions are written for. `SecureElement` adds the node: open, the write of a
chain of commands each with the status it wants, read, reset, close, and a supply that may refuse to go on or off. The
abstract `Exchange` knows only whether a command was asked, how often the card ran it and how it ended; `KeepsPromise` is its
specification under the mapping in `SecureElement`. What it does not promise is said there as well: an answer may be cut
short (`"prefix"`), and over a card that an earlier session left powered nothing holds.

### SpcomChannel

One action for each stretch of an ioctl under the channel's lock; a step ends where the driver lets the lock go (the check that
the channel is connected, the pause between two attempts to send, the wait, the hand-over of `shared_sync_lock`).
`rpmsg_rx_consumer` is one work item for all channels, apart from the callback that queues. A process may die at any point;
its file is then released. The secure processor answers in order or not at all, and may go away and come back
(`MaxRestarts`).

### SpssLoader, GlinkPipe, SharedHeap, SplListener, SensorDevice, SecureProcessor

`SpssLoader` runs one remoteproc operation at a time (the core holds its lock), step by step with every error path, beside the
interrupt thread (read, then act), the crash work and the processor itself. `GlinkPipe` has the ring cell by cell; copying a
message and moving the index are two steps, as in the code, and the reader may run between them. `SharedHeap` has the
allocation and its unwinding step by step, with a hypervisor that may refuse every change. `SplListener` is the wait for
an interrupt, with the poll's two looks and the handler's two steps apart. `SensorDevice` takes what `el721_power_on_locked` does
under its mutex apart into the calls that can fail (publishing the rail in the device tree, handles, lines, supply), beside
probes, removals, files that outlive them, suspends and the module's exit, which takes no lock. `SecureProcessor` composes them: the loader
registers the pipe's edge and unregisters it. `ByteStream` is what the pipe is for; `KeepsOrder` says that the
pipe implements it when the stream is what has been published and not dropped, and the messages are `Whole(m)`: the
messages that come out are those that went in, whole, in order, none twice.

### SecureOwner, TrustedSession

`Starters` are systemd's supervisor and those started by hand, each with its own program counter from the check of the marker
to the renewed lease. Daemons and owner belong to the supervisor that started them and die with systemd's. `lent` says that
the keymaster may have the buffer's address, `pins` who holds a reference to it: the kernel's lock is one, and it does not go with
the process. `TrustedSession` adds fprintd, which loads and unloads applications, restores HwVault's credentials and
authorises an enrolment with the Gatekeeper. Every process may be killed anywhere; the processor may crash; the tablet may be
started again.

### FingerprintReader, FingerprintPrompt

`Poll` is the driver's 45 ms timer with all its branches, one of which is taken at a time; a capture blocks it and ends on its
own (`CaptureEnds`). `touch`, `panel` and `sensor` are the three devices' state behind their sysfs files, `lightFile`, `lease` and
`presented` the files between driver and desktop. `captured` is a history variable. `FingerprintPrompt` adds the
extension and the broker, with the calls between them in flight, and what may go wrong around them (`MaxMishaps`): a keyboard
over the target, a refused call, a lost lease, a restarted Shell, a crashed fprintd, a blanked display, a suspend.

The cleanup of an action (`el721.c:239-285`) writes light, touch mode and supply without looking at the results, and each write may
fail (`SwitchOff`), at every end of an action, of a failed start and in the script that runs before fprintd starts again. A light whose
command failed is worse off than one whose write did not arrive: the panel's driver books the mode as left although its command
failed (`panel-samsung-ana38407.c:237-241`), so neither a second write nor its watchdog sends it again (`FodModeFails`: `hbm` is what is booked,
`lit` what is shown). `refused` is a history variable, what is on because of such a write; `DarkWhenIdle` says that nothing else is
ever on without an action. A switch-off that fails counts as one of the mishaps.

### PogoKeyboard, PenHover, PenGarage, InputDevices

Five threads of the cover's driver: the interrupt of the connection line, the debouncing work, the data interrupt, the initialisation work and the
manual update. All but the first take `pogo->lock`; the first cuts the power without it. The controller is external: only
a whole application speaks the protocol, and it forgets what it reported when it loses power.

`PenHover` has the interrupt thread with its frame, the timer that takes silence for leaving, and the two callers of
`update_digitizer`. A frame is four steps, because the command that sets the rate waits for the bus in the middle of it; the timer
fires at any time after it was armed. `PenGarage` has the dock interrupt's thread, `charge_work` and the writer of `pen_ble_reset`,
which no lock orders. Each looks at its own copy of the dock line: nothing the one half changes is read by the other. Where a
property has an exception (`crossed`, `refused`, `overtaken`) a history variable says exactly when; see
[below](#where-code-and-documentation-disagree). `InputDevices` is one specification for the three devices, one running per behaviour.

## Runs

| Run | Module | Properties | What it asks |
|---|---|---|---|
| `UpdateSafety` | `MCUpdateTransaction` | `Recoverable`, `CommitMatched`, `RolledBack` | is the old chain always to be had, is a success whole and final, did a failure leave the old system |
| `UpdateSettles` | `MCUpdateTransaction` | `RebootWhole`, `Settled` | does every update settle, is there a restart on a mixed chain |
| `ChargeSafety` | `DirectCharge` | `BoostExclusive`, `NoOrphanPump` | pump and boost under all interleavings and failures, suspends and an unbinding |
| `ChargeLive` | `DirectCharge` | `ChargingResumes`, `PumpCools` | is the battery charged again and again, does the pump stop on a hot pack |
| `DualBootApp` | `MCDualBoot` | `BackupReachable`, `LinuxNeverBackup`, `AndroidKept`, `RestartKnown` | Android's boot images survive everything the app, the job and Ubuntu's page can do; nobody goes on to a restart from a chain no set accounts for |
| `DualBootLive` | `MCDualBoot` | `BackupReturns`, `BackupFollows` | an interrupted set comes back, and the set follows an Android that updated itself |
| `SecureElement` | `SecureElement` | `KeepsPromise`, `EveryAnswered` | the node implements `Exchange`; a command of one block is answered, and whole when nothing fails any more |
| `Spcom` | `SpcomChannel` | `OwnAnswer`, `LockComes`, `TransactionEnds` | whose response a process gets, and whether the shared lock and the response come |
| `SecureProcessor` | `MCSecureProcessor` | `PowerUpTrue`, `PoolPrivate`, `WakeKept`, `SensorQuiet`, `RailKept`, `KeepsOrder` | announced only when reachable; shared pages; no lost interrupt; a sensor out of reach is off; no rail goes before its use; the pipe implements `ByteStream` |
| `FingerprintSecure` | `TrustedSession` | `LentPinned`, `VaultKept`, `LossSeen`, `StartSettles` | lent memory stays, the vault is the owner's, a loss is seen, a start ends |
| `Fingerprint` | `MCFingerprint` | `MatchIsOwn`, `DarkWhenIdle`, `OncePerPress`, `LitWhenPainted`, `RequestEnds` | a match is the finger's own, light behind its shade, everything off afterwards |
| `InputDevices` | `InputDevices` | `HereForGood`, `NoStuckKey`, `UpdateSettled`, `PenForgotten`, `CoilFollows` | an attached cover works, keys are released, an update ends; a pen that left is not reported, one that stays is charged |

Every property has a mutant, a one-line mistake in the code's place (marked as such in the modules), under which the same
run finds it violated.

### Bounds, and why they are enough

*Updater.* Two partitions: the copy loop has a first, a last and a half-done state, and every mixture of old and new needs
only two. Two releases, because only "the old one" and "the new one" are compared. Two updates in `UpdateSafety`, so that
a second `prepare` meets what a failed or committed first one left (kept backups, saved sets). Two crashes: the second one
interrupts the retry or the restore the first one caused. `UpdateSettles` has one update, as liveness is about one run and
its retries, and there status writes succeed: see below.

*Charging.* Nothing is counted but the PPS tick, so the state is finite and the runs are complete for their temperatures.
41.5 and 50.5 C lie on the two sides of every threshold of the code (42, 45, 46, 50); the reduced states in between differ
only in currents. `ChargeSafety` has suspending and unbinding, one of each kind of ending at a time.

*Dual boot.* Three partitions in `DualBootApp`, so that a chain can be neither at its first nor at its last image, two in
`DualBootLive`. Two releases of each system: one that is installed and the one an update brings. Two torn contents, so that a
torn partition can be overwritten and torn again. Three starts reach Android, Ubuntu and Android again, four allow one
interrupted in between. One write that ends half way (`MaxTears`), one power loss, one update of each system. The actors
are split over the two runs, `{app, restart, job, page}` with every failure and `{tile, job, page, toggle}` when only the power fails: with
app and tile together the first has more than thirteen million states. `RestartKnown` is proved for every set of actors.

*Secure element.* Commands and answers of up to two blocks, so that chaining happens in both directions and sequence bits turn
over; the driver's own retry limits for frames and timeouts (3) and a limit of two for requests to repeat; five failures, more
than any of the limits; two commands in a write.

*Spcom.* Two processes on one sharable channel, three requests (an answer that comes late, one sent after it, and the other
process's), one restart of the processor. A channel of its own is the same code with one client.

*Secure processor.* Two boots or attaches, so that what the first left is there for the second; a ring of eight units, the
smallest that holds a message beside the reserve of four, with messages of two units and of three (one with padding, and one
cut by the ring's end); three pages and buffers of up to two, so that an allocation can fail for want of pages. `client`, chosen at the start, says
what is used beside the loader: events, pipe, heap, listener or sensor; they share nothing but the edge that the loader registers for the
pipe, which is why the product is left out. While the pipe is used there are no events and no second start command. Two
probes of the sensor (a removed object that a file still holds, beside its successor) and two files of each; which node and
lines the firmware describes is chosen at the start while the sensor is the client, and fixed otherwise.

*Secure owner.* systemd's supervisor and one by hand, which starts only while nobody has claimed the boot; two of three
credentials, the first and the last. Each may be killed at every step, as often as it is started again.

*Fingerprint.* Two prints that share a slot, so that a match for one could be taken for the other; two presses, two light
requests and two mishaps: the second of each meets what the first one left.

*Keyboard cover.* One key, two pages with the version in the first, so that an update can be cut before and after it; two queued
packets; one failing power-up on attaching; one start more. The line may bounce for ever.

*Pen.* Nothing but failing commands is counted (`MaxErrors`, one); pen and dock move for ever. The three input devices share no
variable, so a run in which one moves and two rest in an initial state shows of each what the product would.

Deadlock is checked in the runs that say nothing else. Three of them may stop: `Spcom` (nobody need register, and requests
are bounded), `Fingerprint` (presses and requests are bounded) and `SecureProcessor` (boots are bounded).

## Fairness

*Updater*: the offline runner goes on until it ends, and a machine that is off is started again. The runner is one process
that nothing competes with, and systemd starts it on every boot as long as the marker is there. Commands of a running
system get no fairness: they can be killed.

*Charging*: the kernel runs a scheduled work item (`WorkMonitors` apart from `WorkStep`: nothing says the pump is ever
eligible), each thread leaves the stretch it is in, TCPM notices that the source is gone. Cables, temperatures,
suspending and OTG are free.

*Dual boot* (`LiveSpec`): a machine that is down starts, the job that Android schedules runs, and who holds or wants the monitor
goes on. Nobody has to tap, answer a dialog or restart, and an update need not come.

*Secure element*: the writing process goes on, and the card answers in the end, if only with silence (the driver's timeout).

*Spcom*: a wait for a response ends (its timeout), another attempt to send comes after its pause, and a process that waits for
the shared lock gets it if it is released again and again (strong fairness: a Linux mutex hands over to a waiter). The
work item runs. No process need ask for anything.

*Fingerprint*: the poll's timer fires (GLib's main loop) and a capture returns (the secure world bounds it). Finger, Shell and broker are free.

*Secure owner*: a supervisor goes on, its deadline passes (`SF`: it is found passed the next time it is looked at) and a
lease that nobody renews lapses. Owner, daemons and fprintd are free: they may hang for ever, which is what the deadline and
the lease are for.

*Keyboard cover*: interrupt threads, queued work items and an update that was begun go on. Lines, fingers and packets are free.

*Pen*: an interrupt thread with a frame or an edge goes on, an armed timer fires, a queued work item runs, a reset of the bond that
has looked goes on. No frame need come: silence is what the timer is for. The writer of the option may stop anywhere.

## Proofs

All proofs are for any number of partitions, releases, actors, temperatures, pages and messages, any ring and any bounds. They assume of
the constants only what the modules' `ASSUME` says, but for two things: the theorems of `DirectChargeProofs` other than `TypeCorrect`
assume `~RestoreFails`, without which `NoOrphanPump` does not hold, and `RestartIsWhole` assumes `~StatusMayFail`. Both are needed:
without them TLC refutes the property.

Every invariant, action property and refinement of a run is the subject of a theorem; what is left to TLC is liveness.

**Updater.** `Recoverable`, `CommitMatched` and `CommitIsFinal` are not inductive. `IInv` adds `Control` (a runner is at work
only with a marker and a target, the try block only in status "applying", preparing only without a marker), `Covered` (a
completed backup *is* the old chain, and as long as there is none the partitions are) and `Progress` (the partitions before
`k` hold the target, and each later step's predecessors have been done). `Covered` is the heart of it: it survives a
crash because `Check` skips the backup whenever `backup/complete` exists, and it survives `prepare` and `--cancel` because both
move a completed backup away before they delete the transaction. From `IInv`: `TypeCorrect`, `BackupSafe`,
`SuccessIsWhole`, `SuccessIsFinal`. `RInv` adds what a rollback rests on: `Sealed` (the old saved set is in its place until it has
been put aside, and a second run does not put its own in place of it), `Untouched` (without a completed backup nothing has been
changed) and `Restored` (how far the restore has come); from it `FailureIsRolledBack`. `RestartIsWhole` assumes
`~StatusMayFail`: a status write that raises in the handler restarts the machine on a chain that could not be restored.

**Charging.** `Ownership` says which program counters may have the pump: while a start is under way `direct_charging` is set and
`active` is not; a restoring power thread excludes a start; a running pump implies `direct_charging` and a work item that
is monitoring or about to. From it: `PumpAndBoost`, `HandedBack`, and, of properties no run has room for, `Watched` (a running
pump has its watchdog), `VoltageGuarded` (the programmable voltage is only requested for the pump), `AsleepGuarded` (a pump that
runs in a sleeping system is watched) and `UnboundClean` (nothing is left of an unbound driver).

**Dual boot.** `Lock` ties the holder to its program counter and the loop index to the write loop. `Chain` says that the
partitions before `idx` already hold the set being written, which is complete and does not change: for that nobody else
may write, refresh or replace the set, so it rests on `Lock`. `Backup` follows the two renames: while a refresh has the set
aside, `.previous` is a complete one. `Linux` strengthens `LinuxNeverBackup` with what makes `backupDecision` sufficient: a
Linux image on a partition is always the one of the stored Linux set at that place (so `Mixed` finds it), and a chain that is
being copied has none. `Held` says that nobody holds the lock of an Ubuntu that has an update prepared. From it:
`TypeCorrect`, `BackupSafe`, `LinuxKeptOut`, `SuccessIsWhole`, `PreparedHolds`.

`AndroidStaysKept` is `[](AndroidKept \/ (tears > 1 /\ TornBackup))`, for any number of torn writes. An update leaves the only copy of the
new Android on the partitions, so until a refresh has copied them, either they hold it untorn (`Live`), or nothing but what the
switchers have put there lies over the stored one. `Kept` says where the copy is while at most one write has been torn: the
predecessor covers the renames, and keeps the copy for good once a torn chain was taken for a changed Android. A second torn
write can then push it out of `.previous`. `Traced` says what is true after any number: the current set (or the predecessor that recovery would
bring back) is the installed Android's, or it holds a torn image. So the copy is lost in no other way than the one described
[below](#where-code-and-documentation-disagree), and what is then in its place is not another release but a chain with a tear in it.

`RestartIsKnown`: `Known` says that a refresh that lets its caller go on has the partitions equal to one of the two stored sets, the
Android one having just been made so if need be; `Chain` says it for the caller that wrote. Neither depends on what the tile or the
app was told before, which is why it holds for every set of actors.

**Secure element.** `SEInv` is an alternating-bit argument over one command at a time. In a session the card was powered up for, host and card
agree on both sequence bits when nothing is under way (`InStep`). While one is, `Phase` names its four stages: pieces of the
command on their way (`Sending`), the piece before acknowledged (`Chained`), the whole command with the card (`Thinking`), pieces of the
answer on their way (`Telling`). In each, the host's and the card's bits and offsets differ by what one lost or repeated block can explain,
and a block that fits no stage is rejected by the code's own check. `Settling` is how it may end. From it: `TypeCorrect`,
`ChainStaysInside` (the offset `iso7816_t1_next_iframe` does not check never passes the command), `AnswerWholeUnlessGivenUp` (a short
answer was given up by the recovery, never taken for whole), and the refinement `ImplementsExchange`, `SecureElement` =>
`Exchange`, step by step. The proof found that `ExpectStatus` had been modelled by a CASE with overlapping guards, of which TLC had
always taken the first; it follows the order of the code's conditions now.

**Secure processor.** `AnnouncedReachable`: `LInv` says for each point of a start, an attach and a stop whether the edge is
registered and what the driver itself has signalled (`vouched`); the order of the subdevices (edge before events on the way up, events before edge on the way
down) is what makes it inductive. `InterruptNotLost`: `SInv` keeps a listener that sleeps on the queue, and a pending interrupt
that has not woken it has a handler that is about to. `PoolStaysPrivate`: `CallOwns` says which pages belong to the
allocation in progress at each of its points and whether the hypervisor has shared them.

`SensorStaysQuiet`, `RailOutlivesUse` and `ObjectFreedLast` come from `SensorInv`: the use count is one exactly while the sensor is powered or
a power-on is past enabling it (`SupplyBalanced`), which takes a bound device that is not being removed, because removal, suspend and shutdown
wait for the lock and a call does not begin behind them; whose node the device has at each stage of the module's start and
exit (`NodesInOrder`), from which a handle on the rail means a rail that is published (`RailServes`); and how many references an object has
(`FilesInOrder`).

`PipeKeepsOrder` is the refinement `GlinkPipe` => `ByteStream`. `PInv` has the arithmetic: both indices are even, `Room` (what is
free exceeds the copied message and its padding by two units, and by four as long as the request to be told has not been
written: the reserve of four is for that request and for keeping a full ring from looking empty) and `Copied` (the copied message lies behind the index, in its
order). From these: copying changes no unread unit, publishing appends the message and at most one unit, dropping removes the
first. `FInv` has the framing: some set of places, beginning at 0 and ending at the end, divides the unread into messages
(`Framing`), so the size the reader finds in a header is that of a message that was written. Appending adds its end to the set;
dropping the first message shifts it.

**Spcom.** `Members` ties a channel's clients, its active process and the holder of its lock to the program counters, from
which a channel has one transaction at a time (`ServesOne`). `Numbers` is about what travels: in one life of the secure
processor a channel's number only grows, every number sent is at least 2, a disconnected channel stands at 0, and one not
connected has no packet of this life under way. From these two `Answers`: whatever `spcom_rx` would accept, in the buffer, on
the list or still at the processor, is the answer to what the waiting process asked, or of another life (`AnswersAreOwn`).

**Secure owner and session.** `StartInv`: a supervisor past the marker has made it, and `O_EXCL` lets one do so in a boot
(`ProcessorStartsOnce`). `OwnerInv` says what owner and supervisor have told each other at each point: only an owner that has
restored everything makes the lease ready, and only a ready lease lets fprintd in (`OneRestoresAtATime`). `LendInv`: the buffer
is locked before its address leaves the process, and no death undoes that (`LentStaysPinned`). `VaultInv`: fprintd has loaded the
vault's application itself only if the owner is dead, so while the owner lives fprintd's end takes nothing from it
(`VaultStaysKept`). `HandleInv`: from its enrolment on the handle in hand is the one the application knows (`HandleStaysUsable`).

**Fingerprint.** `Power` says when touch mode, light and supply may be on, and that whatever is on beyond that is `refused`
(`NothingStaysOn`); what makes it inductive is that a touch mode that is off has no press, and that a panel asleep has no light. `Once` follows a press: the entries it is still to be captured for are
those at and after the loaded one, so none of them has been captured, and a contact the driver has yet to see has been captured
for none; the end of a capture keeps `finger` set, and whatever clears it switches the touch mode off, which forgets the press
(`PressReadOnce`). `Lit`: a request on file is the latest token, and what the broker holds presented is at most what was painted,
which is at most the latest token; equal to the request, all three are (`LightOnlyBehindShade`). `ReportsOnce` and
`MatchIsTheFingers` follow from `Jobs` and `Own`.

Only model-checked, because liveness, fairness and ENABLED are beyond the prover: `Settled`, `ChargingResumes`, `PumpCools`, `BackupReturns`, `BackupFollows`,
`EveryAnswered`, `LockComes`, `TransactionEnds`, `LossSeen`, `StartSettles`, `RequestEnds` and the five properties of
`InputDevices`, whose modules have no theorem yet. `OneResult`, `OneStart`, `CommitIsFinal`, `PendingHeld`, `WrittenWhole`, `ObjectKept`, `NoOverrun` and
`WholeUnlessGivenUp` are proved for all constants and have no run of their own.

## Where code and documentation disagree

None of these is the subject of a run that is kept; each was found as a counterexample of the module named, whose definitions still
have the property in brackets.

*Updater (`UpdateTransaction`).*

* `docs/system-updates.md:85` says detected failures restore the old images when possible. When a retry after a power
  loss fails at an earlier check (the battery is low now), `devices` is still `{}`, the restore's first index raises
  (`update_core.py:440`), and the old images are not restored although the backup is complete (`FailureRestores`).
* If the failed status cannot be written, the marker goes and the status stays "applying", which both `prepare` and
  `--cancel` refuse (`NoLockout`, in `UpdateSettles` with `StatusMayFail = TRUE`).

*Charging (`DirectCharge`).*

* The poll looks at `direct_charging` without the lock (`sm5714_battery.c:1097`) and closes Q4 after the pump took the battery,
  which the comment at 484 excludes (`Q4OpenUnderPump`).
* `sm5440_suspend` looks at `active` before it cancels the work item; a start that is still settling is then waited for and
  succeeds, and the system sleeps with the pump on, contrary to `sm5440_direct.c:751` (`AsleepPumpOff`). `AsleepWatched`, which
  holds and is proved, is the fallback: the pump's watchdog is armed.
* The poll stores a `thermal_state` computed from an old temperature over the one `configure_charging` has just acted on
  (1083); the change that would open Q4 is then not seen, though 406 reserves "the hard cutoff for 50 C" (`HotStops`).
* `sm5440_restore_switching` looks at no result: a pump that did not take the order to stop runs on while the watchdog is
  taken away (`NoOrphanPump` in `ChargeSafety` with `RestoreFails = TRUE`).

*Dual boot (`DualBoot`).*

* `docs/dual-boot.md:73`, a failure never reboots: after a staged switch, an undo that fails inside a later partition leaves
  `nextBoot` as it was (`SwitcherViewModel.kt:124`, 179); the restart button skips the write, the refresh takes the torn chain for
  a changed Android, and the app restarts on it (`RestartWhole`).
* Ubuntu's helper orders the restart after it let the lock go (`tab-companion-boot-switch:40`), as do the tile and the app
  (`BootSwitchTile.kt:146`, `SwitcherViewModel.kt:184`): a second switch may be in mid-write when it is ordered (`RestartChecked`) and is
  killed by it (`RestartLands`).
* `refresh-android.sh` asks only whether `boot` holds the running kernel: a chain torn in a later partition becomes the Android
  set, and a second one pushes the last complete copy out of `.previous` (`AndroidKept` in `DualBootApp` with `MaxTears = 2`).
* The tile reads `staged` before its dialog and uses it after: when the app has undone the switch in between, the restart goes to
  Android (`RestartChecked` in `DualBootLive` with the actors `{app, tile}`). What it restarts on is a stored set all the same (`RestartKnown`).
* A `noload` mount blocks recovery and, with it, every switch (`BackupReturns` in `DualBootLive` with `ReplayFails = TRUE`).

*Secure element.* A card that a failed power-off left on gives the next session answers to the last one's blocks (hence
`fresh`). A command of two blocks can be repeated for ever under the node's lock (the "ToDo : error handling" near
`ese_iso7816_t1.c:309`), so `EveryAnswered` speaks of one block. A recovery that ends reports success with what has arrived so
far. The last answer survives a close and can be read by the next session.

*Spcom.* `spcom.c:275` calls a transaction number unique, but a probe after a restart starts again at 1, and a packet of the
last life can answer (`SameSession`). An aborted receive returns from the work item and leaves what comes after it until the
next packet. A client of a shared channel that deregisters discards the other one's unread response. A transmission that
failed is reported as sent. On an abort with an unread response the work item frees the buffer and keeps its pointer (3660-3667);
`buf` is what `actual_rx_size` says of it, the freed memory is outside the model. A buffer's lock outlives its process until the owner of `sp_kernel` leaves.

*Secure processor.* When the power domain is refused, `spss_start` unwinds with `ret = 0`: a start that did not happen is a
success. A start that timed out neither resets `start_done` nor stops the processor; a late interrupt completes the next one. The
interrupt thread reads the error register before the status, so a watchdog bite in between is taken for an initialisation
that is done. An attach to a processor whose watchdog has bitten stops it and still returns 0, though the comment says
it propagates the error. `spss_stop` says offline even when the shutdown was refused; a restart command then only counts one user
more. User events that are signalled after a stop are still there in the next session. `spss_utils.c:138` accepts any event's number, so user
space may signal POWER_UP or POWER_DOWN itself, with the processor offline and no edge (`Signals` in `SpssLoader` allows it), and a
signalled POWER_UP means nothing then. `PowerUpTrue` is about the driver's own announcement: `vouched` is a history of the events
that are signalled because the driver said so, from its first saying to the reset that takes the event back.

*Fingerprint.* Failures before the Final leave a capture open, though the comment at `el721.c:517` explains why every one has to be
closed. After a resume the poll may enable the touch mode it has inhibited and capture with the sensor's supply off, contrary to
828 (`CapturePowered`). A Presented call that the broker ignores leaves the driver waiting for its second to pass. A finger
that leaves and returns between two polls is one press. Errors of the cleanup's writes are dropped (`el721.c:239-285`), and nothing repeats
a write that failed before the next action, a suspend or a blanked display, but for the watchdog of the light, which a failed panel command
defeats (`FodModeFails`).

*Fingerprint sensor (`SensorDevice`).* A module exit that takes the node away between publishing the rail and asking for the supply leaves
the sensor with the regulator core's dummy: powered in the driver's eyes, without a supply (`"dummy"`). A rail whose first
device could not be attached stays published for the next attempt. A node the firmware describes without a supply can never be given one:
attaching refuses a device that has a node. The module's exit changes the globals of a power-on that runs beside it without its lock.

*Secure owner.* `el721-secure-owner.c:95` says even a failure must retain the process. When publishing that failure fails, or the
supervisor is killed, systemd kills the owner's group; the memory stays lent and, by the kernel's lock, pinned (`LentPinned`),
the process does not. fprintd waits 60 s where the supervisor may take 90. A failure between the marker and the `try` leaves
no status, and everybody waits their time out.

*Keyboard cover.* A firmware update that was cut after the first pages have been written reads as V37 at the next start and is taken for
complete, though `ubuntu-gts9u-pogo-firmware-update:16` says it is completed then (`CompletedNextBoot`). A stale high reading
may leave the cover's supply on after an update (`GoneForGood`). A power-up that fails in the restore after an update is not
retried (`HereForGood` with `PowerFails = {"attach", "restore"}`).

*Pen (`PenHover`, `PenGarage`).* The comment at `samsung_wacom_w90xx.c:78` says why a pen must not stay reported; it does when the timer fires,
or the digitizer is disabled, while its last frame is between the check and the report: the tool is then reported after it has left,
and the controller is silent from then on (`crossed`). `update_digitizer` reads option and dock before it takes its lock (722), so two
callers may leave the digitizer in the older one's state. A KEEP_OFF that fails is not repeated (397): the coil of an empty
garage stays on (`refused`). A reset of the bond that overlaps a pen taken out and put back stores `charge_stage = 1` over the
new insertion's 0, which then gets neither ENABLE nor START (`overtaken`). The reset and the work item say "charging" of a pen that has been
taken out meanwhile, and a garage reply read before that exposes an orientation, contrary to 524. `probe` looks at the dock before it asks for
the interrupt: a move between the two goes unnoticed. The handlers are registered before `pen_supply` is checked for an error pointer.

## Not modelled

Content and format of everything: images, hashes, manifests, JSON, labels, translations, progress messages. The download
and verification of a payload (one step that may fail). The regulation of voltage and current, the fuel gauge and its
scaling, the MUIC. `/sdcard/BootSets` overrides, more than one Android set, the app's preferences. `gts9u-upgrade`, which
replaces the system in place without transaction, lock or backup. In the modelled parts: the secure element's
`EXPECTED_RESPONSE_AGAIN` and resynchronisation requests, which nobody sends; spcom's older per-channel nodes and modified
messages; unbinding the secure processor's drivers by hand; the fingerprint driver's self-test; caps lock and waking of the
keyboard cover; what the pen's driver only shows (charge status, orientation, the cover's switches) and its unbinding; what the
sensor's ioctls only store or read.

The port controller's own protocol (`sm5714_usbpd.c`) is TCPM's state machine seen through registers: only what it asks of
the charger is in `DirectCharge`. Reading it showed two things a model of TCPM could pursue: the watch for a change of CC
that the chip did not announce (168-215) does not see a cable put back within four seconds of a detach, and the latch of a role
swap is set by any PR_SWAP received, even one that is rejected (593-607, 760-772).

Panel, cameras and redriver are register sequences without concurrent actors of their own. The installer's scripts
are run by hand. The other parts with status `not_modelled` in `PROJECT.json` have their reason there.

## Plan

Done: `UpdateTransaction`, `DirectCharge`, `DualBoot`; the secure element; `SpcomChannel`, the secure processor with the sensor's driver,
secure owner and session, fingerprint reader and prompt; all of these with their proofs, the refinements of `Exchange` and
`ByteStream` among them. The keyboard cover and the pen, model-checked.

Next:

1. The safety cores under the properties of `InputDevices`, as theorems: no key down without an attached cover, no frame reported
   by a disabled digitizer but a crossed one, no charging pattern without a dock but an overtaken one.
2. A set overridden under `/sdcard`, and a second Android set.
3. The port controller's role swaps and transmit retries in front of `DirectCharge`, with TCPM as their environment.
4. The repartitioning's point of no return.
