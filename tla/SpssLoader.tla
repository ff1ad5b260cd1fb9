----------------------------- MODULE SpssLoader -----------------------------
(***************************************************************************)
(* Loading and stopping the secure processor: the remoteproc driver        *)
(* (qcom_spss.c), the events it gives to user space (spss_utils.c) and     *)
(* spcom's command to start it. The remoteproc core calls all of it with   *)
(* its lock held, so one operation is in progress at a time; the           *)
(* interrupt thread and the processor run beside it.                       *)
(***************************************************************************)
EXTENDS Naturals

CONSTANTS
    MaxBoots,     \* bound: operations that begin to boot or attach
    MaxPower      \* bound: commands counted as users of a running processor

ASSUME LoaderAssumption == MaxBoots \in Nat /\ MaxPower \in Nat \ {0}

VARIABLES
    node,       \* the node of the processor is in the device tree
    rproc,      \* the state of the remoteproc, "absent" before the probe
    power,      \* its users
    op,         \* the operation in progress: "none", "boot", "attach", "stop"
    at,         \* how far it is
    boots,      \* boots and attaches so far
    done,       \* start_done
    masked,     \* the interrupts are masked
    irqs,       \* the status register: "pbl", "ready"
    spare,      \* the error register: "ok", "error", "wdog"
    handler,    \* what the interrupt thread has read of it, or "idle"
    crash,      \* the crash work is queued
    image,      \* the processor: "off", "booting", "up", "dead"
    edge,       \* the GLINK edge is registered
    utils,      \* the events device is there
    events,     \* the events that are signalled
    vouched     \* history: those of them that the driver itself signalled

loaderVars == <<node, rproc, power, op, at, boots, done, masked, irqs, spare, handler,
                crash, image, edge, utils, events, vouched>>

coreVars == <<node, rproc, power, op, at, boots>>
irqVars == <<done, masked, irqs, spare, handler, crash>>
subVars == <<edge, utils, events, vouched>>

\* Every id below SPSS_NUM_EVENTS: user space may signal any of them, those of
\* the driver too.
UserEvents == {"pil", "nvm", "spu", "up", "down"}
Booted == {"running", "attached", "crashed"}

LoaderInit ==
    /\ node = FALSE
    /\ rproc = "absent" /\ power = 0 /\ op = "none" /\ at = "idle" /\ boots = 0
    /\ done = 0 /\ masked = TRUE /\ irqs = {} /\ spare = "ok" /\ handler = "idle"
    /\ crash = FALSE
    /\ image \in {"off", "booting"}
    /\ edge = FALSE /\ utils = FALSE /\ events = {} /\ vouched = {}

------------------------------------------------------------------------------
(* Probe. *)

\* A probe that fails leaves nothing. A processor that is not off is attached to.
Probed ==
    /\ rproc' = IF image = "off" THEN "offline" ELSE "detached"
    /\ masked' = TRUE

\* The board's tree does not have the node. With the node comes the device, and
\* its probe at once.
PublishNode ==
    /\ ~node /\ node' = TRUE
    /\ Probed \/ UNCHANGED <<rproc, masked>>
    /\ UNCHANGED <<power, op, at, boots, done, irqs, spare, handler, crash, image, subVars>>

UtilsProbe ==
    /\ rproc # "absent" /\ op = "none" /\ ~utils
    /\ utils' = TRUE /\ events' = {} /\ vouched' = {}
    /\ UNCHANGED <<coreVars, irqVars, image, edge>>

------------------------------------------------------------------------------
(* rproc_boot, called by spcom_handle_restart_sp_command, and spss_start. *)

RestartSp ==
    /\ rproc # "absent" /\ op = "none"
    /\ power < MaxPower
    /\ power' = power + 1
    /\ IF power > 0 THEN UNCHANGED <<op, at, boots>>
       ELSE /\ boots < MaxBoots /\ boots' = boots + 1
            /\ op' = IF rproc = "detached" THEN "attach" ELSE "boot"
            /\ at' = IF rproc = "detached" THEN "check" ELSE "load"
    /\ UNCHANGED <<node, rproc, irqVars, image, subVars>>

\* The end of an operation that failed: one user less.
GivesUp ==
    /\ op' = "none" /\ at' = "idle"
    /\ power' = power - 1
    /\ UNCHANGED <<node, rproc, boots>>

GoesOn(next) == at' = next /\ UNCHANGED <<node, rproc, power, op, boots>>

StartLoads ==
    /\ at = "load"
    /\ GoesOn("signal") \/ GivesUp
    /\ UNCHANGED <<irqVars, image, subVars>>

\* The clock or the regulator fails; or the AOP is told. If it refuses, "ret"
\* is still zero, and the start succeeds without a boot.
StartSignals ==
    /\ at = "signal"
    /\ GoesOn("unprepare") \/ GoesOn("start_edge") \/ GoesOn("reset")
    /\ UNCHANGED <<irqVars, image, subVars>>

StartResets ==
    /\ at = "reset"
    /\ \/ GoesOn("unprepare") /\ UNCHANGED <<image, masked, spare>>
       \/ GoesOn("await") /\ image' = "booting" /\ masked' = FALSE /\ spare' = "ok"
    /\ UNCHANGED <<done, irqs, handler, crash, subVars>>

\* spss_attach: an error of the processor's first loader is returned, as is a
\* refusal of the AOP; a bite of its watchdog is not.
AttachChecks ==
    /\ at = "check"
    /\ LET bitten == spare = "wdog" /\ "ready" \in irqs
       IN  \/ GoesOn("abort") /\ UNCHANGED <<irqs, masked>>
           \/ bitten /\ GoesOn("stop_blind") /\ irqs' = irqs \ {"ready"} /\ UNCHANGED masked
           \/ ~bitten /\ GoesOn("await") /\ masked' = FALSE /\ UNCHANGED irqs
    /\ UNCHANGED <<done, spare, handler, crash, image, subVars>>

\* The completion, or the time is over: the processor is left as it is.
StartWaits ==
    /\ at = "await"
    /\ \/ done > 0 /\ done' = done - 1 /\ GoesOn("start_edge")
       \/ UNCHANGED done /\ GoesOn("unprepare")
    /\ UNCHANGED <<masked, irqs, spare, handler, crash, image, subVars>>

\* rproc_start_subdevices: the GLINK edge, then the events.
StartsEdge ==
    /\ at = "start_edge"
    /\ \/ GoesOn("start_events") /\ edge' = TRUE
       \/ GoesOn("abort") /\ UNCHANGED edge
    /\ UNCHANGED <<irqVars, image, utils, events, vouched>>

\* spss_utils_signal_kernel_event for one, spss_utils_reset_event for the other.
Announces(e, other) ==
    /\ events' = (events \cup {e}) \ {other}
    /\ vouched' = (vouched \cup {e}) \ {other}

StartsEvents ==
    /\ at = "start_events"
    /\ rproc' = IF op = "boot" THEN "running" ELSE "attached"
    /\ op' = "none" /\ at' = "idle"
    /\ IF utils THEN Announces("up", "down") ELSE UNCHANGED <<events, vouched>>
    /\ UNCHANGED <<node, power, boots, irqVars, image, edge, utils>>

------------------------------------------------------------------------------
(* rproc_shutdown, and spss_stop. *)

Shutdown ==
    /\ rproc \in {"running", "attached"} /\ op = "none"
    /\ power' = power - 1
    /\ IF power = 1 THEN op' = "stop" /\ at' = "stop_events" ELSE UNCHANGED <<op, at>>
    /\ UNCHANGED <<node, rproc, boots, irqVars, image, subVars>>

\* Mutant: the driver's own events are not reset.
StopsUserEvents ==
    /\ at = "stop_events"
    /\ events' = events \ {"pil", "nvm", "spu"} /\ UNCHANGED vouched
    /\ GoesOn("stop_edge")
    /\ UNCHANGED <<irqVars, image, edge, utils>>

\* In the reverse order: the events, then the edge.
StopsEvents ==
    /\ at = "stop_events"
    /\ events' = {} /\ vouched' = {}
    /\ GoesOn("stop_edge")
    /\ UNCHANGED <<irqVars, image, edge, utils>>

StopsEdge ==
    /\ at = "stop_edge"
    /\ edge' = FALSE
    /\ GoesOn("stop")
    /\ UNCHANGED <<irqVars, image, utils, events, vouched>>

\* The monitor shuts the processor down, or does not; the rest is done anyway.
SpssStop ==
    /\ image' \in {"off", image}
    /\ masked' = TRUE /\ done' = 0
    /\ rproc' = "offline"
    /\ UNCHANGED <<node, boots, irqs, spare, handler, crash, subVars>>

Aborts ==
    /\ at \in {"abort", "stop_blind"}
    /\ SpssStop
    /\ at' = IF at = "abort" THEN "unprepare" ELSE "start_edge"
    /\ UNCHANGED <<power, op>>

\* A failed shutdown leaves the remoteproc with its user.
Stops ==
    /\ at = "stop"
    /\ SpssStop
    /\ \/ image' = "off" /\ at' = "unprepare" /\ UNCHANGED <<power, op>>
       \/ image # "off" /\ image' = image /\ at' = "idle" /\ op' = "none" /\ power' = power + 1

Unprepares ==
    /\ at = "unprepare"
    /\ IF utils THEN Announces("down", "up") ELSE UNCHANGED <<events, vouched>>
    /\ op' = "none" /\ at' = "idle"
    /\ power' = IF op \in {"boot", "attach"} THEN power - 1 ELSE power
    /\ UNCHANGED <<node, rproc, boots, irqVars, image, edge, utils>>

------------------------------------------------------------------------------
(* The interrupt thread, and the work it queues. *)

\* spss_generic_handler reads the error register first, then the status.
HandlerReads ==
    /\ ~masked /\ irqs # {} /\ handler = "idle" /\ rproc # "absent"
    /\ handler' = spare
    /\ UNCHANGED <<coreVars, done, masked, irqs, spare, crash, image, subVars>>

HandlerActs ==
    /\ handler # "idle"
    /\ irqs' = {} /\ handler' = "idle"
    /\ done' = IF "ready" \in irqs /\ handler = "ok" THEN done + 1 ELSE done
    /\ crash' = (crash \/ ("ready" \in irqs /\ handler = "wdog"))
    /\ UNCHANGED <<coreVars, masked, spare, image, subVars>>

\* rproc_report_crash's work, with recovery disabled: only the state changes.
CrashWork ==
    /\ crash /\ op = "none"
    /\ crash' = FALSE
    /\ rproc' = IF rproc \in {"running", "attached", "detached"} THEN "crashed" ELSE rproc
    /\ UNCHANGED <<node, power, op, at, boots, done, masked, irqs, spare, handler, image, subVars>>

------------------------------------------------------------------------------
(* The processor, and user space. *)

PblDone ==
    /\ image = "booting" /\ "pbl" \notin irqs
    /\ irqs' = irqs \cup {"pbl"}
    /\ UNCHANGED <<coreVars, done, masked, spare, handler, crash, image, subVars>>

InitDone ==
    /\ image = "booting"
    /\ irqs' = irqs \cup {"ready"}
    /\ \E result \in {"ok", "error"} :
         spare' = result /\ image' = IF result = "ok" THEN "up" ELSE "dead"
    /\ UNCHANGED <<coreVars, done, masked, handler, crash, subVars>>

WatchdogBites ==
    /\ image = "up"
    /\ image' = "dead" /\ spare' = "wdog" /\ irqs' = irqs \cup {"ready"}
    /\ UNCHANGED <<coreVars, done, masked, handler, crash, subVars>>

\* spss_utils_signal_event refuses what is signalled already, and nothing else.
Signals(e) ==
    /\ utils /\ e \notin events
    /\ events' = events \cup {e}
    /\ UNCHANGED <<coreVars, irqVars, image, edge, utils, vouched>>

LoaderNext ==
    \/ PublishNode \/ UtilsProbe
    \/ RestartSp \/ StartLoads \/ StartSignals \/ StartResets \/ AttachChecks
    \/ StartWaits \/ StartsEdge \/ StartsEvents
    \/ Shutdown \/ StopsEvents \/ StopsEdge \/ Aborts \/ Stops \/ Unprepares
    \/ HandlerReads \/ HandlerActs \/ CrashWork
    \/ PblDone \/ InitDone \/ WatchdogBites
    \/ \E e \in UserEvents : Signals(e)

LoaderSpec == LoaderInit /\ [][LoaderNext]_loaderVars

------------------------------------------------------------------------------
FlagsOK ==
    /\ node \in BOOLEAN /\ masked \in BOOLEAN /\ crash \in BOOLEAN
    /\ edge \in BOOLEAN /\ utils \in BOOLEAN

LoaderTypeOK ==
    /\ FlagsOK
    /\ rproc \in {"absent", "offline", "detached"} \cup Booted
    /\ power \in 0 .. MaxPower
    /\ op \in {"none", "boot", "attach", "stop"}
    /\ op = "none" <=> at = "idle"
    /\ boots \in 0 .. MaxBoots /\ done \in Nat
    /\ irqs \subseteq {"pbl", "ready"} /\ spare \in {"ok", "error", "wdog"}
    /\ handler \in {"idle", "ok", "error", "wdog"}
    /\ image \in {"off", "booting", "up", "dead"}
    /\ events \subseteq UserEvents /\ vouched \subseteq events

\* Whoever the driver told that the processor is powered can reach it: a
\* POWER_UP of the driver's stays signalled only while the edge is registered
\* and never beside a POWER_DOWN of the driver's, whichever step of a start, an
\* attach or a stop fails and whatever user space signals meanwhile; and at rest
\* there is an edge for what runs, and none for what was never booted or stopped
\* (spss_utils.c:78, qcom_spss.c:366). It says nothing of a POWER_UP that user
\* space signalled by itself: the ioctl takes it from anyone (spss_utils.c:138).
PowerUpTrue ==
    /\ "up" \in vouched => edge /\ "down" \notin vouched
    /\ op = "none" /\ rproc \in {"running", "attached"} => edge
    /\ op = "none" /\ edge => rproc \in Booted
=============================================================================
