---------------------------- MODULE DirectCharge ----------------------------
(***************************************************************************)
(* Who owns the battery path: the SM5440 2:1 charge pump (sm5440_direct.c),*)
(* the SM5714 switching charger and USB boost (sm5714_battery.c), and the  *)
(* TCPM port that negotiates the contract (sm5714_usbpd.c).                *)
(*                                                                         *)
(* Four threads run at once: the pump's work item, the charger's one-second*)
(* poll, TCPM's worker, and the thread that suspends or unbinds the pump   *)
(* driver.  A step of the model is a stretch of code between two points    *)
(* where another thread can see or change shared state.  What runs under   *)
(* sm5714_global_lock or chg_lock is one step: every writer of Q4 but the  *)
(* poll's clear on unplugging holds chg_lock.                              *)
(*                                                                         *)
(* Abstractions.  Voltages, currents and capacity appear only as checks    *)
(* that may pass or fail.  The fuel gauge and the SM5714 always answer on  *)
(* the bus; the SM5440 may not (BusFails, RestoreFails).  A request to     *)
(* TCPM is answered at once.  Timers may fire at any time.                 *)
(***************************************************************************)
EXTENDS Integers, FiniteSets

CONSTANTS
    Temps,         \* pack temperatures, in tenths of a degree
    BusFails,      \* an SM5440 transfer may fail while starting or monitoring
    RestoreFails,  \* one may fail in sm5440_restore_switching as well
    Endings        \* how the pump driver may be stopped

ASSUME ChargeAssumption ==
    /\ Temps \subseteq Int
    /\ Temps # {}
    /\ BusFails \in BOOLEAN
    /\ RestoreFails \in BOOLEAN
    /\ Endings \subseteq {"suspend", "unload"}

VARIABLES
    \* The SM5714: Q4, the boost, and what the driver remembers.
    q4,          \* ENQ4FET: the switching path to the battery is closed
    otg,         \* the boost drives VBUS, and otg_active
    direct,      \* direct_charging
    thermal,     \* thermal_state
    lastOnline,  \* last_online, as the poll saw it
    \* The SM5440.
    pump,        \* CHG_ON
    wdt,         \* WDT_EN
    active,      \* sm->active
    ticks,       \* pps_ticks
    \* The world outside.
    vbus,        \* an external source drives VBUS (VBUS_POK)
    contract,    \* the sink contract TCPM holds
    temp,        \* the pack's temperature
    \* The threads.
    pc,          \* where each one is
    queued,      \* the work items that are scheduled
    ending,      \* what the power thread is doing
    seen         \* the poll's local variables

switcher == <<q4, thermal>>
flags == <<otg, direct, lastOnline>>
charger == <<switcher, flags>>
chip == <<pump, wdt>>
driver == <<active, ticks>>
world == <<vbus, contract, temp>>
vars == <<charger, chip, driver, world, pc, queued, ending, seen>>

Threads == {"work", "poll", "tcpm", "power"}
ThermalStates == {"normal", "reduced", "stop"}
Contracts == {"none", "fixed", "pps"}
Statuses == {"discharging", "charging", "not_charging"}

StartPcs == {"opening", "init", "request", "settle", "enable", "arm", "verify"}
MonitorPcs == {"check", "service"}
RestorePcs == {"pump_off", "wdt_off", "pps_off", "hand_back", "mark"}
PollPcs == {"thermal", "reconfigure", "decide", "recover", "notice"}
PowerPcs == {"stop", "cancel", "cancel_poll", "down", "gone"}
Pcs == {"idle", "otg_restore"} \cup StartPcs \cup MonitorPcs \cup RestorePcs
         \cup PollPcs \cup PowerPcs

\* What a poll pass has read.
Reading == [online : BOOLEAN, status : Statuses, old : ThermalStates,
            temp : Temps]
NoReading == [online |-> FALSE, status |-> "discharging", old |-> "normal",
              temp |-> CHOOSE t \in Temps : TRUE]

Queue == {"work", "poll"}

TypeOK ==
    /\ q4 \in BOOLEAN /\ otg \in BOOLEAN /\ direct \in BOOLEAN
    /\ thermal \in ThermalStates
    /\ lastOnline \in BOOLEAN
    /\ pump \in BOOLEAN /\ wdt \in BOOLEAN /\ active \in BOOLEAN
    /\ ticks \in {0, 1}
    /\ vbus \in BOOLEAN
    /\ contract \in Contracts
    /\ temp \in Temps
    /\ pc \in [Threads -> Pcs]
    /\ queued \subseteq Queue
    /\ ending \in {"none", "suspend", "unload"}
    /\ seen \in Reading

Init ==
    /\ q4 \in BOOLEAN          \* the bootloader leaves it either way
    /\ otg = FALSE /\ direct = FALSE
    /\ thermal = "normal"
    /\ lastOnline = FALSE
    /\ pump = FALSE /\ wdt = FALSE /\ active = FALSE /\ ticks = 0
    /\ vbus = FALSE /\ contract = "none"
    /\ temp \in Temps
    /\ pc = [t \in Threads |-> "idle"]
    /\ queued = Queue
    /\ ending = "none"
    /\ seen = NoReading

Step(t, here, next) ==
    /\ pc[t] = here
    /\ pc' = [pc EXCEPT ![t] = next]

----------------------------------------------------------------------------
(* Operations of the switching charger, each under its lock. *)

\* Hysteresis: 50.0 C stops, 46.0 C reduces, only 42.0 C restores.
ChargeThermalState(state, t) ==
    IF state = "stop" /\ t >= 460 THEN "stop"
    ELSE IF state \in {"stop", "reduced"} /\ t > 420 /\ t < 500
    THEN "reduced"
    ELSE IF t >= 500 THEN "stop"
    ELSE IF t >= 460 THEN "reduced"
    ELSE "normal"

ConfigureCharging ==
    LET state == ChargeThermalState(thermal, temp)
    IN  IF otg THEN UNCHANGED switcher
        ELSE thermal' = state /\ q4' = (state # "stop")

GetOnline == vbus /\ ~otg

GetStatus ==
    IF ~GetOnline THEN "discharging"
    ELSE IF direct \/ q4 THEN "charging"
    ELSE "not_charging"

\* sm5714_battery_set_pd_contract: charge, unless the pump has the battery.
SetPdContract(online) ==
    IF online /\ ~otg /\ ~direct THEN ConfigureCharging ELSE UNCHANGED switcher

----------------------------------------------------------------------------
(* The pump's work item, sm5440_work. *)

\* Capacity and pack voltage may forbid it; temperature and contract must not.
Eligible == contract # "none" /\ temp >= 100 /\ temp < 420

\* A cancelled work item does not start again.
CanRun(w) ==
    /\ w \in queued
    /\ pc["power"] # (IF w = "work" THEN "cancel" ELSE "cancel_poll")

\* If the work item has left active FALSE behind the power thread's back, it is
\* back after SM5440_RETRY_MS, 30 s; no transfer or TCPM call waits that long.
RetryTooSoon == pc["power"] \in RestorePcs

WorkEligible ==
    /\ CanRun("work") /\ ~active /\ Eligible /\ ~RetryTooSoon
    /\ Step("work", "idle", "opening")
    /\ queued' = queued \ {"work"}
    /\ UNCHANGED <<charger, chip, driver, world, ending, seen>>

\* Every second pass refreshes the PPS request, which TCPM may refuse.
WorkMonitors ==
    /\ CanRun("work") /\ active
    /\ \/ ticks = 0 /\ ticks' = 1 /\ Step("work", "idle", "check")
       \/ /\ ticks = 1 /\ ticks' = 0
          /\ \/ Step("work", "idle", "check") /\ contract = "pps" /\ vbus
             \/ Step("work", "idle", "pump_off")
    /\ queued' = queued \ {"work"}
    /\ UNCHANGED <<charger, chip, active, world, ending, seen>>

\* sm5714_battery_set_direct_charge(true).
SetDirectTrue ==
    IF temp >= 100 /\ temp < 420
    THEN /\ Step("work", "opening", "init")
         /\ direct' = TRUE /\ q4' = FALSE
         /\ UNCHANGED queued
    ELSE /\ Step("work", "opening", "idle")
         /\ queued' = queued \cup {"work"}
         /\ UNCHANGED <<direct, q4>>

Open ==
    /\ SetDirectTrue
    /\ UNCHANGED <<thermal, otg, lastOnline, chip, driver, world, ending, seen>>

\* The software reset comes first, so even a failed sm5440_hw_init may have
\* cleared the registers.
HwInit ==
    /\ \/ /\ Step("work", "init", "request")
          /\ pump' = FALSE /\ wdt' = FALSE
       \/ /\ BusFails
          /\ Step("work", "init", "pump_off")
          /\ pump' = FALSE \/ UNCHANGED pump
          /\ wdt' = FALSE \/ UNCHANGED wdt
    /\ UNCHANGED <<charger, driver, world, queued, ending, seen>>

\* TCPM accepts only as a sink with a contract, and reports the new one.
RequestPps ==
    /\ \/ /\ contract # "none" /\ vbus /\ pc["tcpm"] = "idle"
          /\ Step("work", "request", "settle")
          /\ contract' = "pps"
          /\ SetPdContract(vbus)
       \/ /\ Step("work", "request", "pump_off")
          /\ contract' = IF contract = "none" THEN "none" ELSE "fixed"
          /\ UNCHANGED switcher
    /\ UNCHANGED <<flags, chip, driver, vbus, temp, queued, ending, seen>>

Settle ==
    /\ \/ Step("work", "settle", "enable") /\ vbus
       \/ Step("work", "settle", "pump_off")
    /\ UNCHANGED <<charger, chip, driver, world, queued, ending, seen>>

Enable ==
    /\ \/ Step("work", "enable", "arm") /\ pump' = TRUE
       \/ BusFails /\ Step("work", "enable", "pump_off") /\ UNCHANGED pump
    /\ UNCHANGED <<charger, wdt, driver, world, queued, ending, seen>>

Arm ==
    /\ \/ Step("work", "arm", "verify") /\ wdt' = TRUE
       \/ BusFails /\ Step("work", "arm", "pump_off") /\ UNCHANGED wdt
    /\ UNCHANGED <<charger, pump, driver, world, queued, ending, seen>>

Requeue == queued' = queued \cup {"work"}

Verify ==
    /\ \/ /\ vbus
          /\ Step("work", "verify", "idle")
          /\ active' = TRUE /\ ticks' = 0
          /\ Requeue
       \/ /\ Step("work", "verify", "pump_off")
          /\ UNCHANGED <<driver, queued>>
    /\ UNCHANGED <<charger, chip, world, ending, seen>>

\* Mistake, for the mutants: the pack's temperature is not looked at.
CheckForgetsTemperature ==
    /\ \/ Step("work", "check", "service") /\ pump /\ vbus
       \/ /\ Step("work", "check", "pump_off") /\ ~(pump /\ vbus)
    /\ UNCHANGED <<charger, chip, driver, world, queued, ending, seen>>

\* Capacity, die temperature and the ADC readings may stop it as well.
Check ==
    /\ \/ Step("work", "check", "service") /\ pump /\ vbus /\ temp < 450
       \/ Step("work", "check", "pump_off")
    /\ UNCHANGED <<charger, chip, driver, world, queued, ending, seen>>

Service ==
    /\ \/ Step("work", "service", "idle") /\ wdt' = TRUE /\ Requeue
       \/ /\ BusFails
          /\ Step("work", "service", "pump_off")
          /\ UNCHANGED <<wdt, queued>>
    /\ UNCHANGED <<charger, pump, driver, world, ending, seen>>

----------------------------------------------------------------------------
(* sm5440_restore_switching, in the work item or in the power thread.  It   *)
(* looks at no result.                                                      *)

PumpOff(t) ==
    /\ Step(t, "pump_off", "wdt_off")
    /\ \/ pump' = FALSE
       \/ RestoreFails /\ UNCHANGED pump
    /\ UNCHANGED <<charger, wdt, driver, world, queued, ending, seen>>

WdtOff(t) ==
    /\ Step(t, "wdt_off", "pps_off")
    /\ \/ wdt' = FALSE
       \/ RestoreFails /\ UNCHANGED wdt
    /\ UNCHANGED <<charger, pump, driver, world, queued, ending, seen>>

\* ONLINE = 1: back to the fixed contract, which TCPM reports too.  Without a
\* source TCPM refuses, and it may refuse in the middle of a message sequence.
PpsOff(t) ==
    /\ Step(t, "pps_off", "hand_back")
    /\ \/ /\ contract = "pps" /\ vbus /\ pc["tcpm"] = "idle"
          /\ contract' = "fixed"
          /\ SetPdContract(vbus)
       \/ /\ contract # "pps" \/ ~vbus \/ RestoreFails
          /\ UNCHANGED <<contract, switcher>>
    /\ UNCHANGED <<flags, chip, driver, vbus, temp, queued, ending, seen>>

\* Mistake, for the mutants: direct_charging is left set.
HandBackKeepsDirect(t) ==
    /\ Step(t, "hand_back", "mark")
    /\ UNCHANGED <<charger, chip, driver, world, queued, ending, seen>>

\* sm5714_battery_set_direct_charge(false).
HandBack(t) ==
    /\ Step(t, "hand_back", "mark")
    /\ direct' = FALSE
    /\ IF GetOnline THEN ConfigureCharging ELSE UNCHANGED switcher
    /\ UNCHANGED <<otg, lastOnline, chip, driver, world, queued, ending, seen>>

AfterRestore(t) ==
    IF t = "work" THEN "idle"
    ELSE IF ending = "suspend" THEN "cancel" ELSE "gone"

Mark(t) ==
    /\ Step(t, "mark", AfterRestore(t))
    /\ active' = FALSE /\ ticks' = 0
    /\ queued' = IF t = "work" THEN queued \cup {"work"} ELSE queued
    /\ UNCHANGED <<charger, chip, world, ending, seen>>

Restore(t) == PumpOff(t) \/ WdtOff(t) \/ PpsOff(t) \/ HandBack(t) \/ Mark(t)

WorkStep ==
    \/ Open \/ HwInit \/ RequestPps \/ Settle \/ Enable \/ Arm \/ Verify
    \/ Check \/ Service \/ Restore("work")

----------------------------------------------------------------------------
(* The charger's poll, sm5714_poll_work. *)

PollBegin ==
    /\ CanRun("poll")
    /\ seen' = [online |-> GetOnline, status |-> GetStatus, old |-> thermal,
                temp |-> temp]
    /\ Step("poll", "idle", IF GetOnline THEN "thermal" ELSE "notice")
    /\ queued' = queued \ {"poll"}
    /\ UNCHANGED <<charger, chip, driver, world, ending>>

PollThermal ==
    LET state == ChargeThermalState(thermal, seen.temp)
    IN  /\ thermal' = state
        /\ Step("poll", "thermal",
                IF state # seen.old THEN "reconfigure" ELSE "decide")
        /\ UNCHANGED <<q4, flags, chip, driver, world, queued, ending, seen>>

PollReconfigure ==
    /\ Step("poll", "reconfigure", "decide")
    /\ ConfigureCharging
    /\ UNCHANGED <<flags, chip, driver, world, queued, ending>>
    /\ seen' = [seen EXCEPT !.status = GetStatus']

\* Mistake, for the mutants: an open Q4 is never recovered.
PollDecideNever ==
    /\ Step("poll", "decide", "notice")
    /\ UNCHANGED <<charger, chip, driver, world, queued, ending, seen>>

\* Recover a Q4 left open, but only on the switching charger.
PollDecide ==
    /\ Step("poll", "decide",
            IF /\ seen.online /\ ~direct
               /\ seen.status = "not_charging"
               /\ thermal # "stop" /\ ~q4
            THEN "recover" ELSE "notice")
    /\ UNCHANGED <<charger, chip, driver, world, queued, ending, seen>>

PollRecover ==
    /\ Step("poll", "recover", "notice")
    /\ ConfigureCharging
    /\ UNCHANGED <<flags, chip, driver, world, queued, ending, seen>>

\* Unplugging opens Q4, without the lock.
PollNotice ==
    /\ Step("poll", "notice", "idle")
    /\ lastOnline' = seen.online
    /\ q4' = (q4 /\ (seen.online \/ ~lastOnline))
    /\ seen' = NoReading
    /\ queued' = queued \cup {"poll"}
    /\ UNCHANGED <<thermal, otg, direct, chip, driver, world, ending>>

PollStep == \/ PollBegin \/ PollThermal \/ PollReconfigure \/ PollDecide
            \/ PollRecover \/ PollNotice

----------------------------------------------------------------------------
(* The port: cables, contracts, and the source role. *)

\* TCPM lets go of one source before it sees the next.
Plug ==
    /\ ~vbus /\ ~otg /\ contract = "none"
    /\ vbus' = TRUE
    /\ UNCHANGED <<charger, chip, driver, contract, temp, pc, queued, ending,
                   seen>>

Unplug ==
    /\ vbus
    /\ vbus' = FALSE
    /\ UNCHANGED <<charger, chip, driver, contract, temp, pc, queued, ending,
                   seen>>

\* TCPM selects a fixed contract, or the source leaves the programmable one.
SetCurrentLimit ==
    /\ pc["tcpm"] = "idle" /\ vbus /\ ~otg /\ contract # "fixed"
    /\ contract' = "fixed"
    /\ SetPdContract(vbus)
    /\ UNCHANGED <<flags, chip, driver, vbus, temp, pc, queued, ending, seen>>

LoseContract ==
    /\ pc["tcpm"] = "idle" /\ ~vbus /\ contract # "none"
    /\ contract' = "none"
    /\ UNCHANGED <<charger, chip, driver, vbus, temp, pc, queued, ending, seen>>

\* Mistake, for the mutants: direct_charging is not looked at.
SetOtgOnBehindPump ==
    /\ pc["tcpm"] = "idle" /\ contract = "none"
    /\ ~otg /\ ~vbus
    /\ otg' = TRUE /\ q4' = FALSE
    /\ UNCHANGED <<thermal, direct, lastOnline, chip, driver, world, pc, queued,
                   ending, seen>>

SetOtgOn ==
    /\ pc["tcpm"] = "idle" /\ contract = "none"
    /\ ~otg /\ ~direct /\ ~vbus
    /\ otg' = TRUE /\ q4' = FALSE
    /\ UNCHANGED <<thermal, direct, lastOnline, chip, driver, world, pc, queued,
                   ending, seen>>

\* VBUS may be there at once: the partner's, or what the boost left.
SetOtgOff ==
    /\ otg
    /\ otg' = FALSE
    /\ \/ Step("tcpm", "idle", "idle") /\ UNCHANGED vbus
       \/ Step("tcpm", "idle", "otg_restore") /\ vbus' = TRUE
    /\ UNCHANGED <<switcher, direct, lastOnline, chip, driver, contract, temp,
                   queued, ending, seen>>

OtgRestore ==
    /\ Step("tcpm", "otg_restore", "idle")
    /\ ConfigureCharging
    /\ UNCHANGED <<flags, chip, driver, world, queued, ending, seen>>

Port == \/ Plug \/ Unplug \/ SetCurrentLimit \/ LoseContract
        \/ SetOtgOn \/ SetOtgOff \/ OtgRestore

----------------------------------------------------------------------------
(* Suspend, resume and unbinding of the pump driver. *)

Suspend ==
    /\ "suspend" \in Endings
    /\ Step("power", "idle", "stop")
    /\ ending' = "suspend"
    /\ UNCHANGED <<charger, chip, driver, world, queued, seen>>

\* sm5440_suspend looks at active first and cancels the work item second.
SuspendStop ==
    /\ Step("power", "stop", IF active THEN "pump_off" ELSE "cancel")
    /\ UNCHANGED <<charger, chip, driver, world, queued, ending, seen>>

\* sm5440_cancel_work goes the other way round.
Unload ==
    /\ "unload" \in Endings
    /\ Step("power", "idle", "cancel")
    /\ ending' = "unload"
    /\ UNCHANGED <<charger, chip, driver, world, queued, seen>>

AfterCancel ==
    IF ending = "suspend" THEN "cancel_poll"
    ELSE IF active THEN "pump_off" ELSE "gone"

Cancel ==
    /\ pc["work"] = "idle"
    /\ Step("power", "cancel", AfterCancel)
    /\ queued' = queued \ {"work"}
    /\ UNCHANGED <<charger, chip, driver, world, ending, seen>>

CancelPoll ==
    /\ pc["poll"] = "idle"
    /\ Step("power", "cancel_poll", "down")
    /\ queued' = queued \ {"poll"}
    /\ UNCHANGED <<charger, chip, driver, world, ending, seen>>

Resume ==
    /\ Step("power", "down", "idle")
    /\ queued' = Queue
    /\ ending' = "none"
    /\ UNCHANGED <<charger, chip, driver, world, seen>>

PowerStep == SuspendStop \/ Cancel \/ CancelPoll \/ Resume \/ Restore("power")

----------------------------------------------------------------------------
(* The pack and the pump itself. *)

TempMoves ==
    /\ temp' \in Temps \ {temp}
    /\ \A t \in Temps : ~(temp < t /\ t < temp') /\ ~(temp' < t /\ t < temp)
    /\ UNCHANGED <<charger, chip, driver, vbus, contract, pc, queued, ending,
                   seen>>

\* A protection or the watchdog clears CHG_ON.
PumpDrops ==
    /\ pump
    /\ pump' = FALSE
    /\ UNCHANGED <<charger, wdt, driver, world, pc, queued, ending, seen>>

Next ==
    \/ WorkEligible \/ WorkMonitors \/ WorkStep
    \/ PollStep \/ Port
    \/ Suspend \/ Unload \/ PowerStep
    \/ TempMoves \/ PumpDrops

\* The kernel runs a scheduled work item and lets a thread go on; TCPM notices
\* that the source is gone.  Cables, temperatures and users do as they please,
\* and nothing says the pump is ever eligible.
Fairness ==
    /\ WF_vars(WorkMonitors) /\ WF_vars(WorkStep)
    /\ WF_vars(PollStep)
    /\ WF_vars(OtgRestore) /\ WF_vars(LoseContract)
    /\ WF_vars(PowerStep)

Spec == Init /\ [][Next]_vars /\ Fairness

----------------------------------------------------------------------------
(* Properties. *)

\* The boost never feeds the connector while the switching path is closed or
\* the pump runs (sm5714_battery_set_otg: "Q4 must remain open").
BoostExclusive == otg => ~q4 /\ ~pump

\* Every failure of a start or of a monitored pass, and every refusal, ends
\* with the pump off and the battery path handed back.
NoOrphanPump == pc["work"] = "idle" /\ ~active => ~pump /\ ~direct

\* The pump runs without its watchdog only for as long as it takes to arm it
\* or, failing that, to switch the pump off.
PumpWatched == pump /\ ~wdt => pc["work"] \in {"arm", "pump_off"}

\* A source delivers a programmable voltage, which may exceed 9 V, only while
\* the SM5714 knows the pump has the battery.
PpsOnlyForPump == contract = "pps" /\ vbus => direct

\* Unbinding leaves nothing running and nothing scheduled.
UnloadedClean ==
    pc["power"] = "gone" => ~pump /\ ~direct /\ ~active /\ "work" \notin queued

\* With a source plugged in and a cool pack the battery is charged again and
\* again, by one charger or the other: no failure strands it between them.
ChargingResumes ==
    <>[](vbus /\ ~otg /\ temp < 460 /\ pc["power"] # "gone")
        => []<>(q4 \/ pump)

\* A pump on a pack that stays at 50 C or above does not run for long.
PumpCools == <>[](temp >= 500) => <>[]~pump

\* Whatever the work item was doing when the system went to sleep, a pump left on
\* has its watchdog armed (sm5440_suspend: "The pump's own watchdog would drop
\* it within thirty seconds anyway").
AsleepWatched == pc["power"] = "down" /\ pump => wdt

\* Q4 is open whenever the pump runs: the arbitration "prevents its one-second
\* recovery poll from closing Q4 behind the direct charger"
\* (sm5714_battery.c:484).
Q4OpenUnderPump == pump => ~q4

\* On external power a pack that stays at 50 C or above is not charged: the
\* switching charger has its "hard cutoff for 50 C" (sm5714_battery.c:406).
HotStops == <>[](temp >= 500 /\ vbus /\ ~otg) => <>[]~q4

\* The battery is back on the switching charger before the system sleeps
\* (sm5440_suspend: "the safe order").
AsleepPumpOff == pc["power"] = "down" => ~pump
=============================================================================
