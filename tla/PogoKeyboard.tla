----------------------------- MODULE PogoKeyboard -----------------------------
(***************************************************************************)
(* The driver of the keyboard cover's controller                           *)
(* (kernel/drivers/samsung_stm32_pogo.c), an STM32 of the tablet to which  *)
(* the cover is attached: connection interrupt, debouncing work, data      *)
(* interrupt, initialisation work, manual poll and firmware update.        *)
(*                                                                         *)
(* Whatever is done under pogo->lock is one step, except that a first      *)
(* attachment pauses after it powered the cover and that an update is      *)
(* made of its flash commands: the connection interrupt cuts the power     *)
(* without that lock.  A delayed work item may run at any later time.      *)
(* The touchpad's contacts and button count as keys.                       *)
(*                                                                         *)
(* Of the controller: only a whole V37 application speaks the protocol; it *)
(* forgets its packets when it restarts and when the cover loses power,    *)
(* and then reports the release of no key it reported down before.         *)
(* Bounds: MaxQueue packets, MaxFaults failing power-ups, MaxBoots starts. *)
(***************************************************************************)
EXTENDS Naturals, Sequences

CONSTANTS
    Keys,
    Pages,          \* the application is written in 256-byte pages 1 .. Pages
    VersionPage,    \* the page with the version (STM32_FW_VERSION_OFFSET)
    PowerFails,     \* power-ups that may fail: "attach", "restore"
    MaxQueue, MaxFaults, MaxBoots

ASSUME PogoAssumption ==
    /\ Pages \in Nat \ {0} /\ VersionPage \in 1 .. Pages
    /\ PowerFails \subseteq {"attach", "restore"}
    /\ MaxQueue \in Nat /\ MaxFaults \in Nat /\ MaxBoots \in Nat

VARIABLES
    line,       \* the connection GPIO
    edge,       \* an edge of it the interrupt thread has not seen
    held,       \* keys a finger is on
    mcu,        \* [mode, down: keys it reported down, queue: packets to read]
    flash,      \* what each page of the application holds
    drv,        \* struct samsung_pogo
    keys,       \* keys_down: what the input device reports as pressed
    cut,        \* the connection thread has cut the power, not released the keys
    work,       \* connection_work: [queued, pc, connected]
    app,        \* application_work is queued
    upd,        \* firmware_update: [pc, page]
    faults, boots

pogoVars == <<line, edge, held, mcu, flash, drv, keys, cut, work, app, upd, faults, boots>>
outside == <<line, edge, held>>
counters == <<faults, boots>>

Whole == \A p \in 1 .. Pages : flash[p] = "V37"
Speaks == mcu.mode = "app" /\ Whole
Packets == {[kind |-> "attach"], [kind |-> "hall"]}
             \union [kind : {"down", "up"}, key : Keys]

PogoTypeOK ==
    /\ line \in BOOLEAN /\ edge \in BOOLEAN /\ held \subseteq Keys
    /\ mcu.mode \in {"app", "boot"} /\ mcu.down \subseteq Keys
    /\ mcu.queue \in Seq(Packets) /\ Len(mcu.queue) <= MaxQueue
    /\ flash \in [1 .. Pages -> {"V34", "V37", "bad"}]
    /\ drv \in [attached : BOOLEAN, powered : BOOLEAN, input : BOOLEAN, lid : BOOLEAN,
                irq : BOOLEAN, version : {"none", "V34", "V37", "bad"}]
    /\ keys \subseteq Keys /\ cut \in BOOLEAN /\ app \in BOOLEAN
    /\ work \in [queued : BOOLEAN, pc : {"idle", "locking", "powered"}, connected : BOOLEAN]
    /\ upd \in [pc : {"none", "done", "quieting", "locking", "erase", "write", "verify",
                     "start"},
                page : 1 .. Pages]
    /\ faults \in 0 .. MaxFaults /\ boots \in 0 .. MaxBoots

Silent(m) == [m EXCEPT !.down = {}, !.queue = <<>>]

\* samsung_pogo_probe: flash_version is that of the bootloader's answer, if it
\* answers, and the connection is looked at.
Probed(version) ==
    [attached |-> FALSE, powered |-> FALSE, input |-> FALSE, lid |-> FALSE,
     irq |-> FALSE, version |-> version]
ProbedWork == [queued |-> TRUE, pc |-> "idle", connected |-> FALSE]
Started == [mode |-> "app", down |-> {}, queue |-> <<>>]
Answers == {"none", flash[VersionPage]}

PogoInit ==
    /\ line \in BOOLEAN /\ edge = FALSE /\ held = {}
    /\ \E v \in {"V34", "V37"} : flash = [p \in 1 .. Pages |-> v]
    /\ drv \in {Probed(v) : v \in Answers}
    /\ keys = {} /\ cut = FALSE /\ app = FALSE
    /\ work = ProbedWork /\ mcu = Started
    /\ upd = [pc |-> "none", page |-> 1]
    /\ faults = 0 /\ boots = 0

\* The power fails, or the tablet is started anew.
Reboot ==
    /\ boots < MaxBoots
    /\ boots' = boots + 1
    /\ drv' \in {Probed(v) : v \in Answers}
    /\ edge' = FALSE /\ keys' = {} /\ cut' = FALSE /\ app' = FALSE
    /\ work' = ProbedWork /\ mcu' = Started
    /\ upd' = [pc |-> "none", page |-> 1]
    /\ UNCHANGED <<line, held, flash, faults>>

------------------------------------------------------------------------------
(* The cover and the controller. *)

LineMoves ==
    /\ line' = ~line
    /\ edge' = TRUE
    /\ UNCHANGED <<held, mcu, flash, drv, keys, cut, work, app, upd, counters>>

CanReport == Speaks /\ drv.powered /\ Len(mcu.queue) < MaxQueue

Announce ==
    /\ CanReport
    /\ \E kind \in {"attach", "hall"} : mcu' = [mcu EXCEPT !.queue = Append(@, [kind |-> kind])]
    /\ UNCHANGED <<outside, flash, drv, keys, cut, work, app, upd, counters>>

Press(k) ==
    /\ k \notin held
    /\ CanReport
    /\ held' = held \union {k}
    /\ mcu' = [mcu EXCEPT !.down = @ \union {k},
                          !.queue = Append(@, [kind |-> "down", key |-> k])]
    /\ UNCHANGED <<line, edge, flash, drv, keys, cut, work, app, upd, counters>>

Lift(k) ==
    /\ k \in held
    /\ held' = held \ {k}
    /\ \/ /\ k \in mcu.down
          /\ CanReport
          /\ mcu' = [mcu EXCEPT !.down = @ \ {k},
                                !.queue = Append(@, [kind |-> "up", key |-> k])]
       \/ k \notin mcu.down /\ UNCHANGED mcu
    /\ UNCHANGED <<line, edge, flash, drv, keys, cut, work, app, upd, counters>>

------------------------------------------------------------------------------
(* samsung_pogo_connection_irq_thread and samsung_pogo_connection_work. *)

Updating == upd.pc \notin {"none", "done"}
Flashing == upd.pc \in {"erase", "write", "verify", "start"}

\* Mutant: the update takes the lock before it waits for the other threads.
LockFreeEarly == work.pc # "powered" /\ ~Updating

LockFree == work.pc # "powered" /\ ~Flashing

\* A low line is acknowledged at once by cutting the cover's power.
ConnectionIrq ==
    /\ edge /\ ~cut
    /\ ~Updating
    /\ edge' = FALSE
    /\ IF line
         THEN work' = [work EXCEPT !.queued = TRUE] /\ UNCHANGED <<drv, mcu, cut>>
         ELSE /\ drv' = [drv EXCEPT !.powered = FALSE]
              /\ mcu' = Silent(mcu)
              /\ cut' = TRUE
              /\ UNCHANGED work
    /\ UNCHANGED <<line, held, flash, keys, app, upd, counters>>

ReleaseKeys ==
    /\ cut /\ LockFree
    /\ cut' = FALSE
    /\ keys' = {}
    /\ work' = [work EXCEPT !.queued = TRUE]
    /\ UNCHANGED <<outside, mcu, flash, drv, app, upd, counters>>

\* The line is read without the lock; if it is low, the data interrupt is
\* switched off and the initialisation cancelled, still without the lock.
WorkStarts ==
    /\ work.queued /\ work.pc = "idle"
    /\ work' = [queued |-> FALSE, pc |-> "locking", connected |-> line]
    /\ drv' = [drv EXCEPT !.irq = @ /\ line]
    /\ app' = (app /\ line)
    /\ UNCHANGED <<outside, mcu, flash, keys, cut, upd, counters>>

Locks == work.pc = "locking" /\ LockFree
WorkIdle == work' = [work EXCEPT !.pc = "idle"]
PowerFault(where) == where \in PowerFails /\ faults < MaxFaults /\ faults' = faults + 1

\* Nothing has changed, but a short pulse has cost the cover its power.
WorkRestores ==
    /\ Locks
    /\ work.connected /\ drv.attached
    /\ WorkIdle
    /\ \/ drv' = [drv EXCEPT !.powered = TRUE] /\ UNCHANGED faults
       \/ ~drv.powered /\ PowerFault("restore") /\ UNCHANGED drv
    /\ UNCHANGED <<outside, mcu, flash, keys, cut, app, upd, boots>>

WorkIgnores ==
    /\ Locks
    /\ ~work.connected /\ ~drv.attached
    /\ WorkIdle
    /\ UNCHANGED <<outside, mcu, flash, drv, keys, cut, app, upd, counters>>

WorkPowers ==
    /\ Locks
    /\ work.connected /\ ~drv.attached
    /\ work' = [work EXCEPT !.pc = "powered"]
    /\ drv' = [drv EXCEPT !.powered = TRUE]
    /\ UNCHANGED <<outside, mcu, flash, keys, cut, app, upd, counters>>

\* Mutant: no second attempt.
WorkRetriesNot ==
    /\ Locks
    /\ work.connected /\ ~drv.attached /\ ~drv.powered
    /\ PowerFault("attach")
    /\ WorkIdle
    /\ UNCHANGED <<outside, mcu, flash, drv, keys, cut, app, upd, boots>>

\* A second later once more.
WorkRetries ==
    /\ Locks
    /\ work.connected /\ ~drv.attached /\ ~drv.powered
    /\ PowerFault("attach")
    /\ work' = [work EXCEPT !.pc = "idle", !.queued = TRUE]
    /\ UNCHANGED <<outside, mcu, flash, drv, keys, cut, app, upd, boots>>

WorkAttaches ==
    /\ work.pc = "powered"
    /\ WorkIdle
    /\ drv' = [drv EXCEPT !.attached = TRUE, !.irq = TRUE]
    /\ UNCHANGED <<outside, mcu, flash, keys, cut, app, upd, counters>>

Detached(d) ==
    [d EXCEPT !.attached = FALSE, !.powered = FALSE, !.input = FALSE, !.lid = FALSE]

WorkDetaches ==
    /\ Locks
    /\ ~work.connected /\ drv.attached
    /\ WorkIdle
    /\ drv' = Detached(drv)
    /\ keys' = {}
    /\ mcu' = Silent(mcu)
    /\ UNCHANGED <<outside, flash, cut, app, upd, counters>>

------------------------------------------------------------------------------
(* samsung_pogo_read_event, from the data interrupt's thread or by hand.    *)

Packet == Head(mcu.queue)
Consumed == mcu' = [mcu EXCEPT !.queue = Tail(@)]
Readable == LockFree /\ drv.attached /\ mcu.mode = "app" /\ mcu.queue # <<>>

\* A read that is answered at once leaves the keys alone; one that is answered
\* at the second or third attempt has released every key before.
AfterRetries == {keys, {}}

\* The attach event: its version is read, the initialisation scheduled and
\* the input device registered.
ReadAttach ==
    /\ Packet.kind = "attach"
    /\ Consumed
    /\ app' = TRUE
    /\ drv' = [drv EXCEPT !.input = TRUE]
    /\ keys' \in AfterRetries

\* The version cannot be read, or it is that of no supported cover.
ReadUnknown ==
    /\ Packet.kind = "attach"
    /\ Consumed
    /\ keys' \in AfterRetries
    /\ UNCHANGED <<app, drv>>

ReadKey ==
    /\ Packet.kind \in {"down", "up"}
    /\ Consumed
    /\ \E kept \in AfterRetries :
         keys' = IF ~drv.input THEN kept
                 ELSE IF Packet.kind = "down" THEN kept \union {Packet.key}
                 ELSE kept \ {Packet.key}
    /\ UNCHANGED <<app, drv>>

ReadHall ==
    /\ Packet.kind = "hall"
    /\ Consumed
    /\ keys' = {}
    /\ \E closed \in BOOLEAN : drv' = [drv EXCEPT !.lid = IF drv.input THEN closed ELSE @]
    /\ UNCHANGED app

\* Three times without an answer. A read that fails releases every key, a
\* request that fails does not, nor does it cost a packet.
ReadFails ==
    /\ \/ UNCHANGED <<keys, mcu>>
       \/ keys' = {} /\ (Consumed \/ UNCHANGED mcu)
    /\ UNCHANGED <<app, drv>>

\* Mutant: the application is reset with the keys as they are.
RecoverKeysDown ==
    /\ app' = FALSE
    /\ mcu' = Silent(mcu)
    /\ UNCHANGED <<drv, keys>>

\* A failure with the cover in place: the application is reset.
Recover ==
    /\ app' = FALSE
    /\ keys' = {}
    /\ mcu' = Silent(mcu)
    /\ UNCHANGED drv

\* DATA is a level: the thread runs until the controller has no packet left.
DataIrq ==
    /\ drv.irq
    /\ Readable
    /\ \/ ReadAttach \/ ReadUnknown \/ ReadKey \/ ReadHall
       \/ IF drv.powered /\ line THEN Recover ELSE ReadFails
    /\ UNCHANGED <<outside, flash, cut, work, upd, counters>>

EventPoll ==
    /\ Readable
    /\ ReadAttach \/ ReadUnknown \/ ReadKey \/ ReadHall \/ ReadFails
    /\ UNCHANGED <<outside, flash, cut, work, upd, counters>>

\* samsung_pogo_application_work: a read of it that fails releases the keys.
ApplicationWork ==
    /\ app /\ LockFree
    /\ app' = FALSE
    /\ keys' \in IF drv.attached /\ drv.input THEN AfterRetries ELSE {keys}
    /\ UNCHANGED <<outside, mcu, flash, drv, cut, work, upd, counters>>

------------------------------------------------------------------------------
(* firmware_update_store, which the service runs once per start.            *)

Goto(pc) == upd' = [pc |-> pc, page |-> 1]

\* An unknown version means that the bootloader did not answer.
UpdateStarts ==
    /\ upd.pc = "none"
    /\ drv.version \notin {"none", "V37"}
    /\ Goto("quieting")
    /\ UNCHANGED <<outside, mcu, flash, drv, keys, cut, work, app, counters>>

\* The connection interrupt is off and its thread done, the work is cancelled.
UpdateQuiets ==
    /\ upd.pc = "quieting"
    /\ ~cut /\ work.pc = "idle"
    /\ work' = [work EXCEPT !.queued = FALSE]
    /\ drv' = [drv EXCEPT !.irq = FALSE]
    /\ app' = FALSE
    /\ Goto("locking")
    /\ UNCHANGED <<outside, mcu, flash, keys, cut, counters>>

UpdateConnects ==
    /\ upd.pc = "locking" /\ LockFree
    /\ mcu' = [Silent(mcu) EXCEPT !.mode = "boot"]
    /\ Goto("erase") \/ Goto("start")
    /\ UNCHANGED <<outside, flash, drv, keys, cut, work, app, counters>>

UpdateErases ==
    /\ upd.pc = "erase"
    /\ flash' \in {flash, [p \in 1 .. Pages |-> "bad"]}
    /\ \/ flash'[1] = "bad" /\ Goto("write")
       \/ Goto("start")
    /\ UNCHANGED <<outside, mcu, drv, keys, cut, work, app, counters>>

NextPage == upd.page < Pages

\* A page may be written wrongly although the bootloader accepts it.
UpdateWrites ==
    /\ upd.pc = "write"
    /\ flash' \in {[flash EXCEPT ![upd.page] = v] : v \in {"V37", "bad"}}
    /\ \/ NextPage /\ upd' = [upd EXCEPT !.page = @ + 1]
       \/ ~NextPage /\ Goto("verify")
       \/ Goto("start")
    /\ UNCHANGED <<outside, mcu, drv, keys, cut, work, app, counters>>

UpdateVerifies ==
    /\ upd.pc = "verify"
    /\ \/ /\ flash[upd.page] = "V37" /\ NextPage
          /\ upd' = [upd EXCEPT !.page = @ + 1]
          /\ UNCHANGED drv
       \/ /\ flash[upd.page] = "V37" /\ ~NextPage
          /\ Goto("start")
          /\ drv' = [drv EXCEPT !.version = "V37"]
       \/ Goto("start") /\ UNCHANGED drv
    /\ UNCHANGED <<outside, mcu, flash, keys, cut, work, app, counters>>

\* Whatever happened, the application is started, and the connection looked at.
UpdateEnds ==
    /\ upd.pc = "start"
    /\ Goto("done")
    /\ mcu' = [mcu EXCEPT !.mode = "app"]
    /\ drv' = [drv EXCEPT !.attached = FALSE]
    /\ work' = [work EXCEPT !.queued = TRUE]
    /\ UNCHANGED <<outside, flash, keys, cut, app, counters>>

------------------------------------------------------------------------------
Cover == LineMoves \/ Announce \/ \E k \in Keys : Press(k) \/ Lift(k)
Connection == ConnectionIrq \/ ReleaseKeys
Work == \/ WorkStarts \/ WorkRestores \/ WorkIgnores \/ WorkPowers \/ WorkRetries
        \/ WorkAttaches \/ WorkDetaches
Update == \/ UpdateQuiets \/ UpdateConnects \/ UpdateErases \/ UpdateWrites
          \/ UpdateVerifies \/ UpdateEnds

PogoNext == \/ Cover \/ Connection \/ Work \/ DataIrq \/ EventPoll \/ ApplicationWork
        \/ UpdateStarts \/ Update \/ Reboot

------------------------------------------------------------------------------
\* A cover that is gone for good is detached and unpowered in the end,
\* whatever bounces and stale readings came before. (An update cancels the
\* work item that would have cut a power given on a stale reading, and clears
\* attached, so that the next one finds nothing to do.)
GoneForGood ==
    <>[]~line => <>[](~drv.attached /\ (drv.powered => upd.pc = "done"))

\* A cover that stays is powered, attached and listened to.
HereForGood ==
    <>[](line /\ ~Updating) => <>[](drv.attached /\ drv.powered /\ drv.irq)

\* No key stays down after its finger has left, although packets get lost in
\* resets, power cuts and failed reads.
NoStuckKey == \A k \in Keys : k \in keys /\ k \notin held ~> k \notin keys \/ k \in held

\* An update is never stuck on the threads it waits for.
UpdateSettled == Updating ~> ~Updating

\* ubuntu-gts9u-pogo-firmware-update:16: "An interrupted write leaves the
\* application invalid and this unit simply completes it on the next boot":
\* a controller that is not whole is never taken for one that is on V37.
CompletedNextBoot == ~Updating /\ drv.version = "V37" => Whole
==============================================================================
