------------------------- MODULE DirectChargeProofs -------------------------
(***************************************************************************)
(* Proofs about DirectCharge, for any set of pack temperatures, with       *)
(* SM5440 transfers failing at will while it starts and monitors, and with *)
(* suspends, resumes and an unbinding at any time.  The safety theorems    *)
(* assume that sm5440_restore_switching gets its requests through:         *)
(* otherwise NoOrphanPump does not hold.                                   *)
(***************************************************************************)
EXTENDS DirectCharge, TLAPS

Threading ==
    /\ pc["work"] \in {"idle"} \cup StartPcs \cup MonitorPcs \cup RestorePcs
    /\ pc["poll"] \in {"idle"} \cup PollPcs
    /\ pc["tcpm"] \in {"idle", "otg_restore"}
    /\ pc["power"] \in {"idle"} \cup PowerPcs \cup RestorePcs
    /\ pc["power"] = "stop" => ending = "suspend"
    /\ pc["power"] # "idle" => ending \in {"suspend", "unload"}

\* cancel_delayed_work_sync has returned, and resume has not been called.
Cancelled ==
    \/ pc["power"] \in {"cancel_poll", "down", "gone"}
    \/ pc["power"] \in RestorePcs /\ ending = "unload"

\* The power thread restores only while no start is under way, and after an
\* unbinding or in sleep there is no work item at all.
PowerOwns ==
    /\ pc["power"] \in RestorePcs => pc["work"] \notin StartPcs
    /\ Cancelled => pc["work"] = "idle" /\ "work" \notin queued
    /\ pc["power"] = "mark" => ~direct
    /\ pc["power"] = "gone" => ~active

\* Where the work item may own the pump, and what that means for the flags.
OpenPcs == {"init", "request", "settle", "enable", "arm", "verify"}
RunPcs == {"arm", "verify", "check", "service", "pump_off"}

WorkOwns ==
    /\ pc["work"] \in OpenPcs => direct
    /\ pc["work"] \in StartPcs => ~active
    /\ pc["work"] \in {"idle", "opening", "check", "service"} /\ ~active => ~direct
    /\ pc["work"] = "mark" => ~direct

PumpRuns ==
    pump => /\ direct
            /\ pc["work"] \in RunPcs \/ (pc["work"] = "idle" /\ active)
            /\ pc["power"] \notin {"wdt_off", "pps_off", "hand_back", "mark"}

Boost ==
    /\ otg => contract = "none" /\ ~q4 /\ ~pump
    /\ pc["work"] \in {"settle", "enable"} => ~otg

Voltage ==
    contract = "pps" /\ vbus =>
        direct /\ pc["work"] # "hand_back" /\ pc["power"] # "hand_back"

Ownership ==
    /\ Threading /\ WorkOwns /\ PowerOwns /\ PumpRuns
    /\ Boost /\ Voltage /\ PumpWatched

IInv == TypeOK /\ Ownership

\* The groups of variables and the move of a thread are unfolded everywhere.
USE DEF switcher, flags, charger, chip, driver, world, Step, Requeue

-----------------------------------------------------------------------------
(* Types. *)

LEMMA MoveType ==
    ASSUME pc \in [Threads -> Pcs], NEW t \in Threads, NEW next \in Pcs
    PROVE  [pc EXCEPT ![t] = next] \in [Threads -> Pcs]
OBVIOUS

LEMMA StateType == \A s, t : ChargeThermalState(s, t) \in ThermalStates
BY DEF ChargeThermalState, ThermalStates

\* Whatever it decides, configuring leaves Q4 and the thermal state typed.
LEMMA ConfigureType ==
    ASSUME TypeOK, ConfigureCharging \/ UNCHANGED switcher
    PROVE  q4' \in BOOLEAN /\ thermal' \in ThermalStates
BY StateType DEF TypeOK, ConfigureCharging

\* The flags apart from the rest.
FlagsTyped ==
    /\ q4 \in BOOLEAN /\ otg \in BOOLEAN /\ direct \in BOOLEAN
    /\ lastOnline \in BOOLEAN /\ vbus \in BOOLEAN
    /\ pump \in BOOLEAN /\ wdt \in BOOLEAN /\ active \in BOOLEAN

RestTyped ==
    /\ thermal \in ThermalStates
    /\ ticks \in {0, 1}
    /\ contract \in Contracts
    /\ temp \in Temps
    /\ pc \in [Threads -> Pcs]
    /\ queued \subseteq Queue
    /\ ending \in {"none", "suspend", "unload"}
    /\ seen \in Reading

LEMMA TypeStep == TypeOK /\ [Next]_vars => TypeOK'
<1> SUFFICES ASSUME TypeOK, [Next]_vars PROVE TypeOK'
  OBVIOUS
<1> USE StateType, ConfigureType
    DEF TypeOK, FlagsTyped, RestTyped, Threads, Pcs, StartPcs, MonitorPcs,
        RestorePcs, PollPcs, PowerPcs, Contracts, Queue
<1>1. CASE WorkEligible
  BY <1>1 DEF WorkEligible
<1>2. CASE WorkMonitors
  BY <1>2 DEF WorkMonitors
<1>3. CASE Open
  <2>1. FlagsTyped'
    BY <1>3, Zenon DEF Open, SetDirectTrue
  <2>2. pc' \in [Threads -> Pcs]
    BY <1>3 DEF Open, SetDirectTrue
  <2>3. queued' \subseteq Queue
    BY <1>3 DEF Open, SetDirectTrue
  <2>4. ticks' \in {0, 1}
    BY <1>3 DEF Open, SetDirectTrue
  <2> QED
    BY <1>3, <2>1, <2>2, <2>3, <2>4 DEF Open, SetDirectTrue
<1>4. CASE HwInit
  <2>1. FlagsTyped'
    BY <1>4, Zenon DEF HwInit
  <2>2. pc' \in [Threads -> Pcs]
    BY <1>4 DEF HwInit
  <2>3. queued' \subseteq Queue
    BY <1>4 DEF HwInit
  <2>4. ticks' \in {0, 1}
    BY <1>4 DEF HwInit
  <2> QED
    BY <1>4, <2>1, <2>2, <2>3, <2>4 DEF HwInit
<1>5. CASE RequestPps
  BY <1>5 DEF RequestPps, SetPdContract
<1>6. CASE Settle
  BY <1>6 DEF Settle
<1>7. CASE Enable
  <2>1. FlagsTyped'
    BY <1>7 DEF Enable
  <2>2. RestTyped'
    BY <1>7 DEF Enable
  <2> QED
    BY <2>1, <2>2
<1>8. CASE Arm
  <2>1. FlagsTyped'
    BY <1>8 DEF Arm
  <2>2. RestTyped'
    BY <1>8 DEF Arm
  <2> QED
    BY <2>1, <2>2
<1>9. CASE Verify
  <2>1. FlagsTyped'
    BY <1>9, Zenon DEF Verify
  <2>2. pc' \in [Threads -> Pcs]
    BY <1>9 DEF Verify
  <2>3. queued' \subseteq Queue
    BY <1>9 DEF Verify
  <2>4. ticks' \in {0, 1}
    BY <1>9 DEF Verify
  <2> QED
    BY <1>9, <2>1, <2>2, <2>3, <2>4 DEF Verify
<1>10. CASE Check
  BY <1>10 DEF Check
<1>11. CASE Service
  <2>1. FlagsTyped'
    BY <1>11, Zenon DEF Service
  <2>2. pc' \in [Threads -> Pcs]
    BY <1>11 DEF Service
  <2>3. queued' \subseteq Queue
    BY <1>11 DEF Service
  <2>4. ticks' \in {0, 1}
    BY <1>11 DEF Service
  <2> QED
    BY <1>11, <2>1, <2>2, <2>3, <2>4 DEF Service
<1>12. CASE Restore("work")
  <2>1. CASE PumpOff("work")
    <3>1. FlagsTyped'
      BY <2>1, Zenon DEF PumpOff
    <3> QED
      BY <2>1, <3>1 DEF PumpOff
  <2>2. CASE WdtOff("work")
    <3>1. FlagsTyped'
      BY <2>2, Zenon DEF WdtOff
    <3> QED
      BY <2>2, <3>1 DEF WdtOff
  <2>3. CASE PpsOff("work")
    BY <2>3 DEF PpsOff, SetPdContract
  <2>4. CASE HandBack("work")
    <3>1. q4' \in BOOLEAN
      BY <2>4 DEF HandBack
    <3>2. FlagsTyped'
      BY <2>4, <3>1, Zenon DEF HandBack
    <3> QED
      BY <2>4, <3>2 DEF HandBack
  <2>5. CASE Mark("work")
    <3>1. FlagsTyped'
      BY <2>5, Zenon DEF Mark
    <3> QED
      BY <2>5, <3>1 DEF Mark, AfterRestore
  <2> QED
    BY <1>12, <2>1, <2>2, <2>3, <2>4, <2>5 DEF Restore
<1>13. CASE PollBegin
  BY <1>13 DEF PollBegin, GetOnline, GetStatus, Reading, Statuses
<1>14. CASE PollThermal
  BY <1>14 DEF PollThermal
<1>15. CASE PollReconfigure
  BY <1>15 DEF PollReconfigure, GetOnline, GetStatus, Reading, Statuses
<1>16. CASE PollDecide
  BY <1>16 DEF PollDecide
<1>17. CASE PollRecover
  BY <1>17 DEF PollRecover
<1>18. CASE PollNotice
  BY <1>18 DEF PollNotice, NoReading, Reading, Statuses, ThermalStates
<1>19. CASE Plug
  BY <1>19 DEF Plug
<1>20. CASE Unplug
  BY <1>20 DEF Unplug
<1>21. CASE SetCurrentLimit
  BY <1>21 DEF SetCurrentLimit, SetPdContract
<1>22. CASE LoseContract
  BY <1>22 DEF LoseContract
<1>23. CASE SetOtgOn
  BY <1>23 DEF SetOtgOn
<1>24. CASE SetOtgOff
  <2>1. FlagsTyped'
    BY <1>24 DEF SetOtgOff
  <2>2. RestTyped'
    BY <1>24 DEF SetOtgOff
  <2> QED
    BY <2>1, <2>2
<1>25. CASE OtgRestore
  BY <1>25 DEF OtgRestore
<1>26. CASE Suspend
  BY <1>26 DEF Suspend
<1>27. CASE Unload
  BY <1>27 DEF Unload
<1>28. CASE SuspendStop
  BY <1>28 DEF SuspendStop
<1>29. CASE Cancel
  BY <1>29 DEF Cancel, AfterCancel
<1>30. CASE CancelPoll
  BY <1>30 DEF CancelPoll
<1>31. CASE Resume
  BY <1>31 DEF Resume
<1>32. CASE Restore("power")
  <2>1. CASE PumpOff("power")
    <3>1. FlagsTyped'
      BY <2>1, Zenon DEF PumpOff
    <3> QED
      BY <2>1, <3>1 DEF PumpOff
  <2>2. CASE WdtOff("power")
    <3>1. FlagsTyped'
      BY <2>2, Zenon DEF WdtOff
    <3> QED
      BY <2>2, <3>1 DEF WdtOff
  <2>3. CASE PpsOff("power")
    BY <2>3 DEF PpsOff, SetPdContract
  <2>4. CASE HandBack("power")
    <3>1. q4' \in BOOLEAN
      BY <2>4 DEF HandBack
    <3>2. FlagsTyped'
      BY <2>4, <3>1, Zenon DEF HandBack
    <3> QED
      BY <2>4, <3>2 DEF HandBack
  <2>5. CASE Mark("power")
    <3>1. FlagsTyped'
      BY <2>5, Zenon DEF Mark
    <3> QED
      BY <2>5, <3>1 DEF Mark, AfterRestore
  <2> QED
    BY <1>32, <2>1, <2>2, <2>3, <2>4, <2>5 DEF Restore
<1>33. CASE TempMoves
  BY <1>33 DEF TempMoves
<1>34. CASE PumpDrops
  BY <1>34 DEF PumpDrops
<1>35. CASE UNCHANGED vars
  BY <1>35 DEF vars
<1> QED
  BY <1>1, <1>2, <1>3, <1>4, <1>5, <1>6, <1>7, <1>8, <1>9, <1>10, <1>11,
     <1>12, <1>13, <1>14, <1>15, <1>16, <1>17, <1>18, <1>19, <1>20, <1>21,
     <1>22, <1>23, <1>24, <1>25, <1>26, <1>27, <1>28, <1>29, <1>30, <1>31,
     <1>32, <1>33, <1>34, <1>35 DEF Next, WorkStep, PollStep, Port, PowerStep

\* Every variable keeps its type, whatever fails and however the driver stops.
THEOREM TypeCorrect == Spec => []TypeOK
<1>1. NoReading \in Reading
  <2>1. PICK u \in Temps : TRUE
    BY ChargeAssumption
  <2>2. (CHOOSE t \in Temps : TRUE) \in Temps
    BY <2>1
  <2> QED
    BY <2>2 DEF NoReading, Reading, Statuses, ThermalStates
<1>2. Init => TypeOK
  BY <1>1 DEF Init, TypeOK, ThermalStates, Contracts, Threads, Pcs, Queue
<1> QED
  BY <1>2, TypeStep, PTL DEF Spec

-----------------------------------------------------------------------------
(* Who owns the pump, when restoring works. *)

\* What configuring does to Q4 and the boost.
LEMMA ConfigureBoost ==
    ASSUME otg => ~q4, ConfigureCharging \/ UNCHANGED switcher
    PROVE  otg => ~q4'
BY DEF ConfigureCharging

LEMMA OwnershipStep ==
    ASSUME ~RestoreFails
    PROVE  IInv /\ [Next]_vars => Ownership'
<1> SUFFICES ASSUME TypeOK, Ownership, [Next]_vars PROVE Ownership'
  BY DEF IInv
<1> USE ConfigureBoost
    DEF TypeOK, Ownership, Threading, WorkOwns, PowerOwns, PumpRuns, Boost,
        Voltage, PumpWatched, OpenPcs, RunPcs, Threads, StartPcs, MonitorPcs,
        RestorePcs, PollPcs, PowerPcs, CanRun, Cancelled,
        RetryTooSoon
<1>1. CASE WorkEligible
  BY <1>1 DEF WorkEligible
<1>2. CASE WorkMonitors
  BY <1>2 DEF WorkMonitors
<1>3. CASE Open
  BY <1>3 DEF Open, SetDirectTrue
<1>4. CASE HwInit
  BY <1>4 DEF HwInit
<1>5. CASE RequestPps
  BY <1>5 DEF RequestPps, SetPdContract
<1>6. CASE Settle
  BY <1>6 DEF Settle
<1>7. CASE Enable
  BY <1>7 DEF Enable
<1>8. CASE Arm
  BY <1>8 DEF Arm
<1>9. CASE Verify
  BY <1>9 DEF Verify
<1>10. CASE Check
  BY <1>10 DEF Check
<1>11. CASE Service
  BY <1>11 DEF Service
<1>12. CASE PumpOff("work")
  BY <1>12 DEF PumpOff
<1>13. CASE WdtOff("work")
  BY <1>13 DEF WdtOff
<1>14. CASE PpsOff("work")
  BY <1>14 DEF PpsOff, SetPdContract
<1>15. CASE HandBack("work")
  BY <1>15 DEF HandBack, GetOnline
<1>16. CASE Mark("work")
  BY <1>16 DEF Mark, AfterRestore
<1>17. CASE PollBegin
  BY <1>17 DEF PollBegin
<1>18. CASE PollThermal
  BY <1>18 DEF PollThermal
<1>19. CASE PollReconfigure
  BY <1>19 DEF PollReconfigure
<1>20. CASE PollDecide
  BY <1>20 DEF PollDecide
<1>21. CASE PollRecover
  BY <1>21 DEF PollRecover
<1>22. CASE PollNotice
  BY <1>22 DEF PollNotice
<1>23. CASE Plug
  BY <1>23 DEF Plug
<1>24. CASE Unplug
  BY <1>24 DEF Unplug
<1>25. CASE SetCurrentLimit
  BY <1>25 DEF SetCurrentLimit, SetPdContract
<1>26. CASE LoseContract
  BY <1>26 DEF LoseContract
<1>27. CASE SetOtgOn
  BY <1>27 DEF SetOtgOn
<1>28. CASE SetOtgOff
  BY <1>28 DEF SetOtgOff
<1>29. CASE OtgRestore
  BY <1>29 DEF OtgRestore
<1>30. CASE Suspend
  BY <1>30 DEF Suspend
<1>31. CASE Unload
  BY <1>31 DEF Unload
<1>32. CASE SuspendStop
  BY <1>32 DEF SuspendStop
<1>33. CASE Cancel
  BY <1>33 DEF Cancel, AfterCancel
<1>34. CASE CancelPoll
  BY <1>34 DEF CancelPoll
<1>35. CASE Resume
  BY <1>35 DEF Resume
<1>36. CASE PumpOff("power")
  BY <1>36 DEF PumpOff
<1>37. CASE WdtOff("power")
  BY <1>37 DEF WdtOff
<1>38. CASE PpsOff("power")
  BY <1>38 DEF PpsOff, SetPdContract
<1>39. CASE HandBack("power")
  BY <1>39 DEF HandBack, GetOnline
<1>40. CASE Mark("power")
  BY <1>40 DEF Mark, AfterRestore
<1>41. CASE TempMoves
  BY <1>41 DEF TempMoves
<1>42. CASE PumpDrops
  BY <1>42 DEF PumpDrops
<1>43. CASE UNCHANGED vars
  BY <1>43 DEF vars
<1> QED
  BY <1>1, <1>2, <1>3, <1>4, <1>5, <1>6, <1>7, <1>8, <1>9, <1>10, <1>11,
     <1>12, <1>13, <1>14, <1>15, <1>16, <1>17, <1>18, <1>19, <1>20, <1>21,
     <1>22, <1>23, <1>24, <1>25, <1>26, <1>27, <1>28, <1>29, <1>30, <1>31,
     <1>32, <1>33, <1>34, <1>35, <1>36, <1>37, <1>38, <1>39, <1>40, <1>41,
     <1>42, <1>43 DEF Next, WorkStep, PollStep, Port, PowerStep, Restore

THEOREM Invariant == ASSUME ~RestoreFails PROVE Spec => []IInv
<1>1. Init => Ownership
  BY DEF Init, Ownership, Threading, WorkOwns, PowerOwns, PumpRuns, Boost,
     Voltage, PumpWatched, OpenPcs, RunPcs, Threads, StartPcs, MonitorPcs,
     RestorePcs, Cancelled
<1>2. Ownership /\ TypeOK /\ [Next]_vars => Ownership'
  BY OwnershipStep DEF IInv
<1> QED
  BY <1>1, <1>2, TypeCorrect, PTL DEF Spec, IInv

\* sm5714_battery_set_otg never boosts into a closed Q4 or a running pump,
\* however the port, the poll and the work item interleave.
THEOREM PumpAndBoost == ASSUME ~RestoreFails PROVE Spec => []BoostExclusive
<1>1. IInv => BoostExclusive
  BY DEF IInv, Ownership, BoostExclusive, Boost
<1> QED
  BY <1>1, Invariant, PTL

\* Whenever sm5440_work is between passes without a session the pump is off
\* and direct_charging is clear.
THEOREM HandedBack == ASSUME ~RestoreFails PROVE Spec => []NoOrphanPump
<1>1. IInv => NoOrphanPump
  BY DEF IInv, Ownership, NoOrphanPump, WorkOwns, PumpRuns
<1> QED
  BY <1>1, Invariant, PTL

\* No interleaving leaves the pump running without its watchdog.
THEOREM Watched == ASSUME ~RestoreFails PROVE Spec => []PumpWatched
<1>1. IInv => PumpWatched
  BY DEF IInv, Ownership, PumpWatched
<1> QED
  BY <1>1, Invariant, PTL

\* The bus is at a programmable voltage only while direct_charging is set.
THEOREM VoltageGuarded == ASSUME ~RestoreFails PROVE Spec => []PpsOnlyForPump
<1>1. IInv => PpsOnlyForPump
  BY DEF IInv, Ownership, PpsOnlyForPump, Voltage
<1> QED
  BY <1>1, Invariant, PTL

\* A pump that a start left running across sm5440_suspend has its watchdog on.
THEOREM AsleepGuarded == ASSUME ~RestoreFails PROVE Spec => []AsleepWatched
<1>1. IInv => AsleepWatched
  BY DEF IInv, Ownership, AsleepWatched, PumpWatched, PowerOwns, Cancelled
<1> QED
  BY <1>1, Invariant, PTL

\* Once sm5440_cancel_work is done the pump is off and stays off.
THEOREM UnboundClean == ASSUME ~RestoreFails PROVE Spec => []UnloadedClean
<1>1. IInv => UnloadedClean
  BY DEF IInv, Ownership, UnloadedClean, WorkOwns, PowerOwns, PumpRuns,
     Cancelled
<1> QED
  BY <1>1, Invariant, PTL
=============================================================================
