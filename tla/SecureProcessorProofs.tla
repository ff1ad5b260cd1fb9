------------------------ MODULE SecureProcessorProofs ------------------------
(***************************************************************************)
(* Proofs about SecureProcessor, for any number of boots, users, pages,    *)
(* mappings and daemons, any messages and any ring that is longer than its *)
(* reserve, and any number of probes and files of the sensor: the loader,  *)
(* the heap, the listener, the sensor and the pipe each with an inductive  *)
(* invariant of its own, as they share nothing but the registration of the *)
(* edge.                                                                   *)
(***************************************************************************)
EXTENDS SecureProcessor, SequenceTheorems, TLAPS

------------------------------------------------------------------------------
(* The loader. *)

StartAts == {"load", "signal", "reset", "check", "await", "start_edge", "start_events",
             "abort", "stop_blind", "unprepare"}
StopAts == {"stop_events", "stop_edge", "stop", "unprepare"}

\* An operation and how far it is.
Operation ==
    /\ op \in {"boot", "attach"} =>
         /\ at \in StartAts
         /\ power = 1
         /\ rproc \in {"offline", "detached", "crashed"}
    /\ op = "stop" => at \in StopAts /\ power = 0
    /\ at = "unprepare" => rproc \notin {"running", "attached"}
    /\ ~node => rproc = "absent" /\ op = "none" /\ ~edge

\* Where there is an edge, and who has been told.
Edge ==
    /\ op = "none" =>
         /\ edge => power > 0 /\ rproc \in Booted
         /\ rproc \in {"running", "attached"} => edge
    /\ op \in {"boot", "attach"} => (edge <=> at = "start_events") /\ "up" \notin vouched
    /\ op = "stop" /\ at # "stop_events" => "up" \notin vouched
    /\ at \in {"stop", "unprepare"} => ~edge
    /\ at = "stop_events" => edge
    /\ "up" \in vouched => edge /\ "down" \notin vouched

LInv == LoaderTypeOK /\ Operation /\ Edge

\* LInv holds initially.
LEMMA LoaderStarts == LoaderInit => LInv
<1> SUFFICES ASSUME LoaderInit PROVE LInv
  OBVIOUS
<1>1. LoaderTypeOK
  <2>1. /\ node \in BOOLEAN /\ masked \in BOOLEAN /\ crash \in BOOLEAN
        /\ edge \in BOOLEAN /\ utils \in BOOLEAN
    BY DEF LoaderInit
  <2>2. power \in 0 .. MaxPower /\ boots \in 0 .. MaxBoots /\ done \in Nat
    BY LoaderAssumption DEF LoaderInit
  <2>3. op = "none" <=> at = "idle"
    BY DEF LoaderInit
  <2>4. image \in {"off", "booting", "up", "dead"} /\ irqs \subseteq {"pbl", "ready"}
    BY DEF LoaderInit
  <2> QED
    BY <2>1, <2>2, <2>3, <2>4 DEF LoaderInit, LoaderTypeOK, FlagsOK
<1>2. Operation
  BY DEF LoaderInit, Operation
<1>3. Edge
  BY DEF LoaderInit, Edge
<1> QED
  BY <1>1, <1>2, <1>3 DEF LInv

\* The flags stay flags.
LEMMA FlagsKept == FlagsOK /\ LoaderNext => FlagsOK'
<1> SUFFICES ASSUME FlagsOK, LoaderNext PROVE FlagsOK'
  OBVIOUS
<1> USE DEF FlagsOK, coreVars, irqVars, subVars
<1>1. RestartSp \/ Shutdown \/ UtilsProbe => FlagsOK'
  BY DEF RestartSp, Shutdown, UtilsProbe
<1>2. PublishNode => FlagsOK'
  BY DEF PublishNode, Probed
<1>3. StartLoads \/ StartSignals \/ StartWaits \/ AttachChecks => FlagsOK'
  BY DEF StartLoads, StartSignals, StartWaits, AttachChecks, GivesUp, GoesOn
<1>4. StartResets \/ StartsEdge \/ StartsEvents => FlagsOK'
  BY DEF StartResets, StartsEdge, StartsEvents, Announces, GoesOn
<1>5. StopsEvents \/ StopsEdge \/ Aborts \/ Stops \/ Unprepares => FlagsOK'
  BY DEF StopsEvents, StopsEdge, Aborts, Stops, Unprepares, Announces, SpssStop, GoesOn
<1>6. HandlerReads \/ HandlerActs \/ CrashWork => FlagsOK'
  BY DEF HandlerReads, HandlerActs, CrashWork
<1>7. PblDone \/ InitDone \/ WatchdogBites \/ (\E e \in UserEvents : Signals(e)) => FlagsOK'
  BY DEF PblDone, InitDone, WatchdogBites, Signals
<1> QED
  BY <1>1, <1>2, <1>3, <1>4, <1>5, <1>6, <1>7 DEF LoaderNext

\* The commands keep it,
LEMMA CommandKeepsLoader == LInv /\ (RestartSp \/ Shutdown) => LInv'
<1> SUFFICES ASSUME LInv, FlagsOK', RestartSp \/ Shutdown PROVE LInv'
  BY FlagsKept DEF LInv, LoaderTypeOK, LoaderNext
<1> USE LoaderAssumption DEF LInv, LoaderTypeOK, Operation, Edge, Booted, UserEvents, StartAts,
      StopAts, coreVars, irqVars, subVars
<1>1. CASE RestartSp
  BY <1>1 DEF RestartSp
<1>2. CASE Shutdown
  BY <1>2 DEF Shutdown
<1> QED
  BY <1>1, <1>2

\* so do the steps of a start or an attach,
LEMMA StartKeepsLoader ==
    LInv /\ (\/ StartLoads \/ StartSignals \/ StartResets \/ AttachChecks
             \/ StartWaits \/ StartsEdge \/ StartsEvents) => LInv'
<1> SUFFICES ASSUME LInv, FlagsOK',
                    \/ StartLoads \/ StartSignals \/ StartResets \/ AttachChecks
                    \/ StartWaits \/ StartsEdge \/ StartsEvents
             PROVE  LInv'
  BY FlagsKept DEF LInv, LoaderTypeOK, LoaderNext
<1> USE LoaderAssumption DEF LInv, LoaderTypeOK, Operation, Edge, Booted, UserEvents, StartAts,
      StopAts, coreVars, irqVars, subVars, GivesUp, GoesOn
<1>1. CASE StartLoads
  BY <1>1 DEF StartLoads
<1>2. CASE StartSignals
  BY <1>2 DEF StartSignals
<1>3. CASE StartResets
  BY <1>3 DEF StartResets
<1>4. CASE AttachChecks
  BY <1>4, ZenonT(30) DEF AttachChecks
<1>5. CASE StartWaits
  BY <1>5 DEF StartWaits
<1>6. CASE StartsEdge
  BY <1>6 DEF StartsEdge
<1>7. CASE StartsEvents
  <2>1. Operation' /\ op' = "none" /\ at' = "idle" /\ edge' /\ power' > 0
    BY <1>7 DEF StartsEvents
  <2>2. /\ events' \subseteq UserEvents /\ vouched' \subseteq events'
        /\ "up" \in vouched' => "down" \notin vouched'
    BY <1>7 DEF StartsEvents, Announces
  <2> QED
    BY <1>7, <2>1, <2>2 DEF StartsEvents
<1> QED
  BY <1>1, <1>2, <1>3, <1>4, <1>5, <1>6, <1>7

\* of a stop or a failure,
LEMMA StopKeepsLoader ==
    LInv /\ (StopsEvents \/ StopsEdge \/ Aborts \/ Stops \/ Unprepares) => LInv'
<1> SUFFICES ASSUME LInv, FlagsOK', StopsEvents \/ StopsEdge \/ Aborts \/ Stops \/ Unprepares
             PROVE  LInv'
  BY FlagsKept DEF LInv, LoaderTypeOK, LoaderNext
<1> USE LoaderAssumption DEF LInv, LoaderTypeOK, Operation, Edge, Booted, UserEvents, StartAts,
      StopAts, coreVars, irqVars, subVars, GoesOn, SpssStop
<1>1. CASE StopsEvents
  BY <1>1 DEF StopsEvents
<1>2. CASE StopsEdge
  BY <1>2 DEF StopsEdge
<1>3. CASE Aborts
  BY <1>3 DEF Aborts
<1>4. CASE Stops
  BY <1>4 DEF Stops
<1>5. CASE Unprepares
  <2>1. Operation' /\ op' = "none" /\ at' = "idle" /\ power' \in 0 .. MaxPower
    BY <1>5 DEF Unprepares
  <2>2. events' \subseteq UserEvents /\ vouched' \subseteq events' /\ "up" \notin vouched'
    BY <1>5 DEF Unprepares, Announces
  <2> QED
    BY <1>5, <2>1, <2>2 DEF Unprepares
<1> QED
  BY <1>1, <1>2, <1>3, <1>4, <1>5

\* and whatever happens beside them.
LEMMA OthersKeepLoader ==
    LInv /\ (\/ PublishNode \/ UtilsProbe \/ HandlerReads \/ HandlerActs \/ CrashWork
             \/ PblDone \/ InitDone \/ WatchdogBites \/ \E e \in UserEvents : Signals(e)) => LInv'
<1> SUFFICES ASSUME LInv, FlagsOK',
                    \/ PublishNode \/ UtilsProbe \/ HandlerReads \/ HandlerActs \/ CrashWork
                    \/ PblDone \/ InitDone \/ WatchdogBites \/ \E e \in UserEvents : Signals(e)
             PROVE  LInv'
  BY FlagsKept DEF LInv, LoaderTypeOK, LoaderNext
<1> USE LoaderAssumption DEF LInv, LoaderTypeOK, Operation, Edge, Booted, UserEvents, StartAts,
      StopAts, coreVars, irqVars, subVars
<1>1. CASE PublishNode
  BY <1>1 DEF PublishNode, Probed
<1>2. CASE UtilsProbe
  BY <1>2 DEF UtilsProbe
<1>3. CASE HandlerReads
  BY <1>3 DEF HandlerReads
<1>4. CASE HandlerActs
  BY <1>4 DEF HandlerActs
<1>5. CASE CrashWork
  BY <1>5 DEF CrashWork
<1>6. CASE PblDone
  BY <1>6 DEF PblDone
<1>7. CASE InitDone
  BY <1>7 DEF InitDone
<1>8. CASE WatchdogBites
  BY <1>8 DEF WatchdogBites
<1>9. CASE \E e \in UserEvents : Signals(e)
  BY <1>9 DEF Signals
<1> QED
  BY <1>1, <1>2, <1>3, <1>4, <1>5, <1>6, <1>7, <1>8, <1>9

\* So does a step of the whole.
LEMMA StepKeepsLoader == LInv /\ [Next]_vars => LInv'
<1> SUFFICES ASSUME LInv, [Next]_vars PROVE LInv'
  OBVIOUS
<1>1. CASE UNCHANGED loaderVars
  BY <1>1 DEF LInv, LoaderTypeOK, FlagsOK, Operation, Edge, loaderVars
<1>2. CASE LoaderStep
  BY <1>2, CommandKeepsLoader, StartKeepsLoader, StopKeepsLoader, OthersKeepLoader DEF LoaderStep
<1>3. CASE RegistersEdge
  BY <1>3, StartKeepsLoader DEF RegistersEdge
<1> QED
  BY <1>1, <1>2, <1>3 DEF Next, vars, PipeStep, HeapStep, ListenerStep, SensorStep

\* What the driver's events say is so, whatever user space signals beside them: a
\* processor that the driver announced has its edge, and no edge is left of one
\* that was never booted or was stopped, after any failures
\* (rproc_start_subdevices, spss_utils.c).
THEOREM AnnouncedReachable == Spec => []PowerUpTrue
<1>1. Init => LInv
  BY LoaderStarts DEF Init
<1>2. LInv => PowerUpTrue
  BY DEF LInv, LoaderTypeOK, FlagsOK, Operation, Edge, PowerUpTrue, Booted
<1> QED
  BY <1>1, <1>2, StepKeepsLoader, PTL DEF Spec

------------------------------------------------------------------------------
(* The listener. *)

\* Whoever asks, sleeps or asks again is on the queue of the device.
SInv ==
    /\ SplTypeOK
    /\ listener \in {"ask", "asleep", "again"} => queued
    /\ WakeKept

\* SInv holds initially, and every step of the listener and of the interrupt
\* keeps it.
LEMMA ListenerStarts == SplInit => SInv
BY DEF SplInit, SInv, SplTypeOK, WakeKept

LEMMA ListenerKept == SInv /\ SplNext => SInv'
<1> SUFFICES ASSUME SInv, SplNext PROVE SInv'
  OBVIOUS
<1> USE DEF SInv, SplTypeOK, WakeKept
<1>1. CASE IrqSets \/ IrqWakes
  BY <1>1 DEF IrqSets, IrqWakes
<1>2. CASE DeviceCloses \/ \E d \in Daemons : DeviceOpens(d)
  <2>1. registered' \in BOOLEAN /\ opened' \in Daemons \cup {"nobody"}
    BY <1>2 DEF DeviceOpens, DeviceCloses
  <2> QED
    BY <1>2, <2>1 DEF DeviceOpens, DeviceCloses
<1>3. CASE PollRegisters \/ PollAsks
  BY <1>3 DEF PollRegisters, PollAsks
<1>4. CASE PollResumes \/ PollBreaks
  BY <1>4 DEF PollResumes, PollBreaks
<1>5. CASE ListenerRegisters \/ SplWaits \/ SplUnknown
  <2>1. registered' \in BOOLEAN /\ late' \in BOOLEAN /\ woken' \in BOOLEAN
    BY <1>5 DEF ListenerRegisters, SplWaits, SplUnknown
  <2> QED
    BY <1>5, <2>1 DEF ListenerRegisters, SplWaits, SplUnknown
<1> QED
  BY <1>1, <1>2, <1>3, <1>4, <1>5 DEF SplNext

\* No interrupt is lost between the question and the sleep, whoever opens the
\* device and however often it is polled (qcom_spss_irq.c, the order of
\* poll_wait and the exchange of the flag).
THEOREM InterruptNotLost == Spec => []WakeKept
<1>1. Init => SInv
  BY ListenerStarts DEF Init
<1>2. SInv /\ [Next]_vars => SInv'
  <2> SUFFICES ASSUME SInv, [Next]_vars PROVE SInv'
    OBVIOUS
  <2>1. CASE UNCHANGED splVars
    BY <2>1 DEF SInv, SplTypeOK, WakeKept, splVars
  <2>2. CASE ListenerStep
    BY <2>2, ListenerKept DEF ListenerStep
  <2> QED
    BY <2>1, <2>2 DEF Next, vars, LoaderStep, RegistersEdge, PipeStep, HeapStep, SensorStep
<1>3. SInv => WakeKept
  BY DEF SInv
<1> QED
  BY <1>1, <1>2, <1>3, PTL DEF Spec

------------------------------------------------------------------------------
(* The sensor's companion. *)

\* A call of power_on has the lock and its part of the handles.
CallInOrder ==
    /\ step # "idle" => user # "none" /\ ~powered
    /\ step \in {"attach", "reattach"} =>
         ~Supplied /\ consumer # "rail" /\ (firmware = "none" => rail # "none")
    /\ step = "supply" => Supplied \/ HasSupply \/ consumer = "none"
    /\ step = "lines" \/ step \in {"ldo", "line"} \/ powered => Supplied
    /\ step \in {"ldo", "line"} \/ powered => board \subseteq got

\* The supply is enabled, and lines are high, for the time of such a call or
\* while the sensor is powered, which takes a device that is there.
SupplyBalanced ==
    /\ count = IF powered \/ step \in {"ldo", "line"} THEN 1 ELSE 0
    /\ high \subseteq got
    /\ ~powered => high \subseteq IF step = "line" THEN {"ldo"} ELSE {}
    /\ powered \/ user # "none" => stage \in {"probing", "bound"} /\ ~removing /\ ~asleep
    /\ got # {} => stage \in {"probing", "bound", "leaving"}
    /\ stage \in {"absent", "unbound", "leaving"} => removing

\* Whose node the device has, as the module starts and exits.
NodesInOrder ==
    /\ driver = "out" => stage = "absent"
    /\ stage = "absent" => consumer = "none"
    /\ firmware = "none" =>
         /\ consumer # "firmware"
         /\ driver \in {"unrail", "undriver"} => stage = "absent"
    /\ firmware # "none" =>
         /\ driver # "unregister" /\ "dummy" \notin got
         /\ stage # "absent" => consumer = "firmware"
    /\ driver \in {"in", "unregister"} => stage # "absent"

\* The rail is there for whom it serves, and only a device without a node in
\* the firmware is served by it.
RailServes ==
    /\ "vdd" \in got /\ firmware # "supplied" => firmware = "none" /\ rail = "device"
    /\ RailKept

\* The files of an object there has not been yet, and who uses the last one.
FilesInOrder ==
    /\ ObjectKept
    /\ \A o \in 1 .. Objects : o > object => files[o] = 0
    /\ object = 0 => stage \in {"absent", "unbound"}
    /\ user = "ioctl" => object > 0 /\ files[object] > 0

SensorInv ==
    /\ SensorTypeOK /\ CallInOrder /\ SupplyBalanced /\ NodesInOrder
    /\ RailServes /\ FilesInOrder


\* What is switched off under the lock is off.
LEMMA OffIsOff ==
    ASSUME SensorInv, step = "idle", SupplyOff
    PROVE  powered' = FALSE /\ count' = 0 /\ high' = {}
<1>1. CASE powered
  <2>1. count = 1 /\ high \subseteq got
    BY <1>1 DEF SensorInv, SupplyBalanced
  <2>2. powered' = FALSE
    BY <1>1 DEF SupplyOff
  <2>3. count' = 0
    BY <1>1, <2>1 DEF SupplyOff
  <2>4. high' = {}
    BY <1>1, <2>1 DEF SupplyOff
  <2> QED
    BY <2>2, <2>3, <2>4
<1>2. CASE ~powered
  <2>1. powered = FALSE
    BY <1>2 DEF SensorInv, SensorTypeOK
  <2> QED
    BY <1>2, <2>1 DEF SensorInv, SupplyOff, supply, SupplyBalanced
<1> QED
  BY <1>1, <1>2

\* Every step of the sensor's companion keeps its invariant.
LEMMA StepKeepsSensor == SensorInv /\ SensorNext => SensorInv'
<1> SUFFICES ASSUME SensorInv, SensorNext PROVE SensorInv'
  OBVIOUS
<1> USE SensorAssumption DEF SensorInv, fixed, core, objectVars, supply, tree
<1>1. CASE PowerOnBegins
  <2>1. SensorTypeOK'
    BY <1>1 DEF PowerOnBegins, Succeeds, SensorTypeOK
  <2>2. CallInOrder'
    BY <1>1 DEF PowerOnBegins, Succeeds, CallInOrder, Supplied, HasSupply
  <2>3. SupplyBalanced'
    BY <1>1 DEF PowerOnBegins, Succeeds, SupplyBalanced
  <2>4. NodesInOrder'
    BY <1>1 DEF PowerOnBegins, Succeeds, NodesInOrder
  <2>5. RailServes'
    BY <1>1 DEF PowerOnBegins, Succeeds, RailServes, RailKept
  <2>6. FilesInOrder'
    BY <1>1 DEF PowerOnBegins, Succeeds, FilesInOrder, ObjectKept
  <2> QED
    BY <2>1, <2>2, <2>3, <2>4, <2>5, <2>6
<1>2. CASE RailThere
  <2>1. SensorTypeOK'
    BY <1>2 DEF RailThere, SensorTypeOK
  <2>2. CallInOrder'
    BY <1>2 DEF RailThere, CallInOrder, Supplied, HasSupply
  <2>3. SupplyBalanced'
    BY <1>2 DEF RailThere, SupplyBalanced
  <2>4. NodesInOrder'
    BY <1>2 DEF RailThere, NodesInOrder
  <2>5. RailServes'
    BY <1>2 DEF RailThere, RailServes, RailKept
  <2>6. FilesInOrder'
    BY <1>2 DEF RailThere, FilesInOrder, ObjectKept
  <2> QED
    BY <2>1, <2>2, <2>3, <2>4, <2>5, <2>6
<1>3. CASE RailFails
  <2>1. SensorTypeOK'
    BY <1>3 DEF RailFails, Fails, SensorTypeOK
  <2>2. CallInOrder'
    BY <1>3 DEF RailFails, Fails, CallInOrder, Supplied, HasSupply
  <2>3. SupplyBalanced'
    BY <1>3 DEF RailFails, Fails, SupplyBalanced
  <2>4. NodesInOrder'
    BY <1>3 DEF RailFails, Fails, NodesInOrder
  <2>5. RailServes'
    BY <1>3 DEF RailFails, Fails, RailServes, RailKept
  <2>6. FilesInOrder'
    BY <1>3 DEF RailFails, Fails, FilesInOrder, ObjectKept
  <2> QED
    BY <2>1, <2>2, <2>3, <2>4, <2>5, <2>6
<1>4. CASE RailPublished
  <2>1. SensorTypeOK'
    BY <1>4 DEF RailPublished, SensorTypeOK
  <2>2. CallInOrder'
    BY <1>4 DEF RailPublished, CallInOrder, Supplied, HasSupply
  <2>3. SupplyBalanced'
    BY <1>4 DEF RailPublished, SupplyBalanced
  <2>4. NodesInOrder'
    BY <1>4 DEF RailPublished, NodesInOrder
  <2>5. RailServes'
    BY <1>4 DEF RailPublished, RailServes, RailKept
  <2>6. FilesInOrder'
    BY <1>4 DEF RailPublished, FilesInOrder, ObjectKept
  <2> QED
    BY <2>1, <2>2, <2>3, <2>4, <2>5, <2>6
<1>5. CASE RailAttached
  <2>1. SensorTypeOK'
    BY <1>5 DEF RailAttached, SensorTypeOK
  <2>2. CallInOrder'
    BY <1>5 DEF RailAttached, CallInOrder, Supplied, HasSupply
  <2>3. SupplyBalanced'
    BY <1>5 DEF RailAttached, SupplyBalanced
  <2>4. NodesInOrder'
    BY <1>5 DEF RailAttached, NodesInOrder, SensorTypeOK, SupplyBalanced, CallInOrder,
      Supplied, HasSupply
  <2>5. RailServes'
    BY <1>5 DEF RailAttached, RailServes, RailKept, SensorTypeOK, CallInOrder, NodesInOrder,
      SupplyBalanced, Supplied, HasSupply
  <2>6. FilesInOrder'
    BY <1>5 DEF RailAttached, FilesInOrder, ObjectKept
  <2> QED
    BY <2>1, <2>2, <2>3, <2>4, <2>5, <2>6
<1>6. CASE AttachFails
  <2>1. SensorTypeOK'
    BY <1>6 DEF AttachFails, Fails, SensorTypeOK
  <2>2. CallInOrder'
    BY <1>6 DEF AttachFails, Fails, CallInOrder, Supplied, HasSupply
  <2>3. SupplyBalanced'
    BY <1>6 DEF AttachFails, Fails, SupplyBalanced
  <2>4. NodesInOrder'
    BY <1>6 DEF AttachFails, Fails, NodesInOrder
  <2>5. RailServes'
    BY <1>6 DEF AttachFails, Fails, RailServes, RailKept, SensorTypeOK, CallInOrder,
      NodesInOrder, SupplyBalanced, Supplied, HasSupply
  <2>6. FilesInOrder'
    BY <1>6 DEF AttachFails, Fails, FilesInOrder, ObjectKept
  <2> QED
    BY <2>1, <2>2, <2>3, <2>4, <2>5, <2>6
<1>7. CASE SupplyFound
  <2>1. SensorTypeOK'
    BY <1>7 DEF SupplyFound, SensorTypeOK
  <2>2. CallInOrder'
    BY <1>7 DEF SupplyFound, CallInOrder, Supplied, HasSupply
  <2>3. SupplyBalanced'
    BY <1>7 DEF SupplyFound, SupplyBalanced, SensorTypeOK, CallInOrder, FilesInOrder,
      NodesInOrder, Supplied
  <2>4. NodesInOrder'
    BY <1>7 DEF SupplyFound, NodesInOrder, SensorTypeOK, SupplyBalanced, CallInOrder, Supplied,
      HasSupply
  <2>5. RailServes'
    BY <1>7 DEF SupplyFound, RailServes, RailKept, SensorTypeOK, CallInOrder, NodesInOrder,
      SupplyBalanced, Supplied, HasSupply
  <2>6. FilesInOrder'
    BY <1>7 DEF SupplyFound, FilesInOrder, ObjectKept
  <2> QED
    BY <2>1, <2>2, <2>3, <2>4, <2>5, <2>6
<1>8. CASE LineFound
  <2>1. SensorTypeOK'
    BY <1>8 DEF LineFound, SensorTypeOK
  <2>2. CallInOrder'
    BY <1>8 DEF LineFound, CallInOrder, Supplied, HasSupply
  <2>3. SupplyBalanced'
    BY <1>8 DEF LineFound, SupplyBalanced, SensorTypeOK, CallInOrder, FilesInOrder,
      NodesInOrder, Supplied
  <2>4. NodesInOrder'
    BY <1>8 DEF LineFound, NodesInOrder, SensorTypeOK, SupplyBalanced, CallInOrder, Supplied,
      HasSupply
  <2>5. RailServes'
    BY <1>8 DEF LineFound, RailServes, RailKept, SensorTypeOK, CallInOrder, NodesInOrder,
      SupplyBalanced, Supplied, HasSupply
  <2>6. FilesInOrder'
    BY <1>8 DEF LineFound, FilesInOrder, ObjectKept
  <2> QED
    BY <2>1, <2>2, <2>3, <2>4, <2>5, <2>6
<1>9. CASE HandlesMissing
  <2>1. SensorTypeOK'
    BY <1>9 DEF HandlesMissing, Fails, SensorTypeOK
  <2>2. CallInOrder'
    BY <1>9 DEF HandlesMissing, Fails, CallInOrder, Supplied, HasSupply
  <2>3. SupplyBalanced'
    BY <1>9 DEF HandlesMissing, Fails, SupplyBalanced
  <2>4. NodesInOrder'
    BY <1>9 DEF HandlesMissing, Fails, NodesInOrder
  <2>5. RailServes'
    BY <1>9 DEF HandlesMissing, Fails, RailServes, RailKept
  <2>6. FilesInOrder'
    BY <1>9 DEF HandlesMissing, Fails, FilesInOrder, ObjectKept
  <2> QED
    BY <2>1, <2>2, <2>3, <2>4, <2>5, <2>6
<1>10. CASE SupplyEnabled
  <2>1. SensorTypeOK'
    BY <1>10 DEF SupplyEnabled, Fails, SensorTypeOK, SupplyBalanced, CallInOrder
  <2>2. CallInOrder'
    BY <1>10 DEF SupplyEnabled, Fails, CallInOrder, Supplied, HasSupply
  <2>3. SupplyBalanced'
    BY <1>10 DEF SupplyEnabled, Fails, SupplyBalanced, SensorTypeOK, CallInOrder, FilesInOrder,
      NodesInOrder, Supplied
  <2>4. NodesInOrder'
    BY <1>10 DEF SupplyEnabled, Fails, NodesInOrder
  <2>5. RailServes'
    BY <1>10 DEF SupplyEnabled, Fails, RailServes, RailKept
  <2>6. FilesInOrder'
    BY <1>10 DEF SupplyEnabled, Fails, FilesInOrder, ObjectKept
  <2> QED
    BY <2>1, <2>2, <2>3, <2>4, <2>5, <2>6
<1>11. CASE LdoRaised
  <2>1. SensorTypeOK'
    <3>1. count = 1
      BY <1>11 DEF LdoRaised, SupplyBalanced
    <3>2. count' \in 0 .. 1 /\ high' \subseteq {"ldo", "enable"}
      <4>1. high' = high \union (got \intersect {"ldo"}) \/ high' = high
        BY <1>11 DEF LdoRaised
      <4>2. count' = 1 \/ count' = 0
        BY <1>11, <3>1 DEF LdoRaised
      <4>3. high \subseteq {"ldo", "enable"}
        BY DEF SensorTypeOK
      <4>4. high' \subseteq {"ldo", "enable"}
        BY <4>1, <4>3
      <4>5. count' \in 0 .. 1
        BY <4>2
      <4> QED
        BY <4>4, <4>5
    <3> QED
      BY <1>11, <3>2 DEF LdoRaised, Fails, SensorTypeOK
  <2>2. CallInOrder'
    BY <1>11 DEF LdoRaised, Fails, CallInOrder, Supplied, HasSupply
  <2>3. SupplyBalanced'
    <3>1. ~powered /\ count = 1 /\ high = {} /\ powered' = powered
      BY <1>11 DEF LdoRaised, SupplyBalanced, CallInOrder
    <3>2. \/ high' = got \intersect {"ldo"} /\ step' = "line" /\ user' = user /\ count' = 1
          \/ high' = {} /\ step' = "idle" /\ user' = "none" /\ count' = 0
      BY <1>11, <3>1 DEF LdoRaised, Fails
    <3> QED
      BY <1>11, <3>1, <3>2 DEF LdoRaised, SupplyBalanced, CallInOrder
  <2>4. NodesInOrder'
    BY <1>11 DEF LdoRaised, Fails, NodesInOrder
  <2>5. RailServes'
    BY <1>11 DEF LdoRaised, Fails, RailServes, RailKept
  <2>6. FilesInOrder'
    BY <1>11 DEF LdoRaised, Fails, FilesInOrder, ObjectKept
  <2> QED
    BY <2>1, <2>2, <2>3, <2>4, <2>5, <2>6
<1>12. CASE EnableRaised
  <2>1. SensorTypeOK'
    BY <1>12 DEF EnableRaised, Succeeds, SensorTypeOK, CallInOrder
  <2>2. CallInOrder'
    BY <1>12 DEF EnableRaised, Succeeds, CallInOrder, Supplied, HasSupply
  <2>3. SupplyBalanced'
    <3>1. "enable" \in got /\ count = 1
      BY <1>12 DEF EnableRaised, CallInOrder, SensorTypeOK, SupplyBalanced
    <3> QED
      BY <1>12, <3>1 DEF EnableRaised, Succeeds, SupplyBalanced, CallInOrder
  <2>4. NodesInOrder'
    BY <1>12 DEF EnableRaised, Succeeds, NodesInOrder
  <2>5. RailServes'
    BY <1>12 DEF EnableRaised, Succeeds, RailServes, RailKept
  <2>6. FilesInOrder'
    BY <1>12 DEF EnableRaised, Succeeds, FilesInOrder, ObjectKept
  <2> QED
    BY <2>1, <2>2, <2>3, <2>4, <2>5, <2>6
<1>13. CASE EnableFails
  <2>1. SensorTypeOK'
    BY <1>13 DEF EnableFails, Fails, SensorTypeOK, SupplyBalanced, CallInOrder
  <2>2. CallInOrder'
    BY <1>13 DEF EnableFails, Fails, CallInOrder, Supplied, HasSupply
  <2>3. SupplyBalanced'
    BY <1>13 DEF EnableFails, Fails, SupplyBalanced, SensorTypeOK, CallInOrder, FilesInOrder,
      NodesInOrder, Supplied
  <2>4. NodesInOrder'
    BY <1>13 DEF EnableFails, Fails, NodesInOrder
  <2>5. RailServes'
    BY <1>13 DEF EnableFails, Fails, RailServes, RailKept
  <2>6. FilesInOrder'
    BY <1>13 DEF EnableFails, Fails, FilesInOrder, ObjectKept
  <2> QED
    BY <2>1, <2>2, <2>3, <2>4, <2>5, <2>6
<1>14. CASE PowersOff
  <2>0. powered' = FALSE /\ count' = 0 /\ high' = {}
    BY <1>14, OffIsOff DEF PowersOff, LockFree, CallInOrder
  <2>1. SensorTypeOK'
    <3>1. powered' \in BOOLEAN
      BY <1>14, <2>0 DEF PowersOff, Succeeds
    <3> QED
      BY <1>14, <2>0, <3>1 DEF PowersOff, Succeeds, SensorTypeOK
  <2>2. CallInOrder'
    BY <1>14, <2>0 DEF PowersOff, Succeeds, CallInOrder, Supplied, HasSupply
  <2>3. SupplyBalanced'
    BY <1>14, <2>0 DEF PowersOff, Succeeds, SupplyBalanced
  <2>4. NodesInOrder'
    BY <1>14, <2>0 DEF PowersOff, Succeeds, NodesInOrder
  <2>5. RailServes'
    BY <1>14, <2>0 DEF PowersOff, Succeeds, RailServes, RailKept
  <2>6. FilesInOrder'
    BY <1>14, <2>0 DEF PowersOff, Succeeds, FilesInOrder, ObjectKept
  <2> QED
    BY <2>1, <2>2, <2>3, <2>4, <2>5, <2>6
<1>15. CASE Resets
  <2>1. SensorTypeOK'
    BY <1>15, ZenonT(30) DEF Resets, Succeeds, SensorTypeOK, SupplyBalanced
  <2>2. CallInOrder'
    BY <1>15 DEF Resets, Succeeds, CallInOrder, Supplied, HasSupply
  <2>3. SupplyBalanced'
    BY <1>15 DEF Resets, Succeeds, SupplyBalanced, SensorTypeOK, CallInOrder, FilesInOrder,
      NodesInOrder, Supplied
  <2>4. NodesInOrder'
    BY <1>15 DEF Resets, Succeeds, NodesInOrder
  <2>5. RailServes'
    BY <1>15 DEF Resets, Succeeds, RailServes, RailKept
  <2>6. FilesInOrder'
    BY <1>15 DEF Resets, Succeeds, FilesInOrder, ObjectKept
  <2> QED
    BY <2>1, <2>2, <2>3, <2>4, <2>5, <2>6
<1>16. CASE Transfers
  <2>1. SensorTypeOK'
    BY <1>16, SMTT(20) DEF Transfers, Succeeds, SensorTypeOK
  <2>2. CallInOrder'
    BY <1>16 DEF Transfers, Succeeds, CallInOrder, Supplied, HasSupply
  <2>3. SupplyBalanced'
    BY <1>16 DEF Transfers, Succeeds, SupplyBalanced
  <2>4. NodesInOrder'
    BY <1>16 DEF Transfers, Succeeds, NodesInOrder
  <2>5. RailServes'
    BY <1>16 DEF Transfers, Succeeds, RailServes, RailKept
  <2>6. FilesInOrder'
    BY <1>16 DEF Transfers, Succeeds, FilesInOrder, ObjectKept
  <2> QED
    BY <2>1, <2>2, <2>3, <2>4, <2>5, <2>6
<1>17. CASE SensorCalls
  <2>1. SensorTypeOK'
    BY <1>17 DEF SensorCalls, LockFree, SensorTypeOK
  <2>2. CallInOrder'
    BY <1>17 DEF SensorCalls, LockFree, CallInOrder, Supplied, HasSupply
  <2>3. SupplyBalanced'
    BY <1>17 DEF SensorCalls, LockFree, SupplyBalanced, SensorTypeOK, CallInOrder,
      FilesInOrder, NodesInOrder, Supplied
  <2>4. NodesInOrder'
    BY <1>17 DEF SensorCalls, LockFree, NodesInOrder
  <2>5. RailServes'
    BY <1>17 DEF SensorCalls, LockFree, RailServes, RailKept
  <2>6. FilesInOrder'
    BY <1>17 DEF SensorCalls, LockFree, FilesInOrder, ObjectKept
  <2> QED
    BY <2>1, <2>2, <2>3, <2>4, <2>5, <2>6
<1>18. CASE SensorOpens
  <2>1. SensorTypeOK'
    <3>1. object \in 1 .. Objects
      BY <1>18 DEF SensorOpens, SensorTypeOK, FilesInOrder
    <3>2. refs' \in [1 .. Objects -> Nat]
      BY <1>18, <3>1 DEF SensorOpens, Takes, SensorTypeOK
    <3>3. files[object] + 1 \in 0 .. MaxFiles
      BY <1>18, <3>1 DEF SensorOpens, SensorTypeOK
    <3>4. files' \in [1 .. Objects -> 0 .. MaxFiles]
      BY <1>18, <3>1, <3>3 DEF SensorOpens, SensorTypeOK
    <3> QED
      BY <1>18, <3>2, <3>4 DEF SensorOpens, SensorTypeOK
  <2>2. CallInOrder'
    BY <1>18 DEF SensorOpens, LockFree, Takes, CallInOrder, Supplied, HasSupply
  <2>3. SupplyBalanced'
    BY <1>18 DEF SensorOpens, LockFree, Takes, SupplyBalanced
  <2>4. NodesInOrder'
    BY <1>18 DEF SensorOpens, LockFree, Takes, NodesInOrder
  <2>5. RailServes'
    BY <1>18 DEF SensorOpens, LockFree, Takes, RailServes, RailKept
  <2>6. FilesInOrder'
    BY <1>18 DEF SensorOpens, LockFree, Takes, FilesInOrder, ObjectKept, SensorTypeOK,
      SupplyBalanced, NodesInOrder
  <2> QED
    BY <2>1, <2>2, <2>3, <2>4, <2>5, <2>6
<1>19. ASSUME NEW o \in 1 .. Objects, SensorCloses(o) PROVE SensorInv'
  <2>1. SensorTypeOK'
    <3>1. refs[o] - 1 \in Nat /\ files[o] - 1 \in 0 .. MaxFiles
      BY <1>19, SMTT(20) DEF SensorCloses, Puts, SensorTypeOK, FilesInOrder, ObjectKept
    <3>2. refs' \in [1 .. Objects -> Nat]
      BY <1>19, <3>1 DEF SensorCloses, Puts, SensorTypeOK
    <3>3. files' \in [1 .. Objects -> 0 .. MaxFiles]
      BY <1>19, <3>1 DEF SensorCloses, Puts, SensorTypeOK
    <3>4. UNCHANGED <<fixed, core, object, removing, got, user, step, supply, tree>>
      BY <1>19 DEF SensorCloses, Puts
    <3> QED
      BY <3>2, <3>3, <3>4 DEF SensorTypeOK
  <2>2. CallInOrder'
    BY <1>19 DEF SensorCloses, Puts, CallInOrder, Supplied, HasSupply
  <2>3. SupplyBalanced'
    BY <1>19 DEF SensorCloses, Puts, SupplyBalanced
  <2>4. NodesInOrder'
    BY <1>19 DEF SensorCloses, Puts, NodesInOrder
  <2>5. RailServes'
    BY <1>19 DEF SensorCloses, Puts, RailServes, RailKept
  <2>6. FilesInOrder'
    BY <1>19 DEF SensorCloses, Puts, FilesInOrder, ObjectKept, SensorTypeOK, SupplyBalanced,
      NodesInOrder
  <2> QED
    BY <2>1, <2>2, <2>3, <2>4, <2>5, <2>6
<1>20. CASE ProbeRegisters
  <2>1. SensorTypeOK'
    <3>1. refs' \in [1 .. Objects -> Nat] /\ object' \in 0 .. Objects
      BY <1>20 DEF ProbeRegisters, Takes, SensorTypeOK
    <3>2. removing' \in BOOLEAN
      BY <1>20 DEF ProbeRegisters
    <3> QED
      BY <1>20, <3>1, <3>2, SMTT(20) DEF ProbeRegisters, SensorTypeOK
  <2>2. CallInOrder'
    BY <1>20 DEF ProbeRegisters, Takes, CallInOrder, Supplied, HasSupply
  <2>3. SupplyBalanced'
    BY <1>20 DEF ProbeRegisters, Takes, SupplyBalanced
  <2>4. NodesInOrder'
    BY <1>20 DEF ProbeRegisters, Takes, NodesInOrder
  <2>5. RailServes'
    BY <1>20 DEF ProbeRegisters, Takes, RailServes, RailKept
  <2>6. FilesInOrder'
    <3>1. /\ object + 1 \in 1 .. Objects /\ object' = object + 1
          /\ stage = "unbound" /\ stage' = "probing"
          /\ UNCHANGED <<files, user>>
      BY <1>20 DEF ProbeRegisters, SensorTypeOK
    <3>2. user = "none"
      BY <3>1 DEF SupplyBalanced
    <3>3. \A o \in 1 .. Objects : refs[o] = files[o] /\ (o > object => files[o] = 0)
      BY <3>1 DEF FilesInOrder, ObjectKept, SensorTypeOK
    <3>4. \A o \in 1 .. Objects : refs'[o] = IF o = object + 1 THEN refs[o] + 1 ELSE refs[o]
      BY <1>20 DEF ProbeRegisters, Takes, SensorTypeOK
    <3>5. ObjectKept'
      BY <3>1, <3>3, <3>4 DEF ObjectKept, SensorTypeOK
    <3> QED
      BY <3>1, <3>2, <3>3, <3>5 DEF FilesInOrder, SensorTypeOK
  <2> QED
    BY <2>1, <2>2, <2>3, <2>4, <2>5, <2>6
<1>21. CASE ProbeEnds
  <2>1. SensorTypeOK'
    BY <1>21 DEF ProbeEnds, SensorTypeOK
  <2>2. CallInOrder'
    BY <1>21 DEF ProbeEnds, CallInOrder, Supplied, HasSupply
  <2>3. SupplyBalanced'
    BY <1>21 DEF ProbeEnds, SupplyBalanced
  <2>4. NodesInOrder'
    BY <1>21 DEF ProbeEnds, NodesInOrder
  <2>5. RailServes'
    BY <1>21 DEF ProbeEnds, RailServes, RailKept
  <2>6. FilesInOrder'
    BY <1>21 DEF ProbeEnds, FilesInOrder, ObjectKept
  <2> QED
    BY <2>1, <2>2, <2>3, <2>4, <2>5, <2>6
<1>22. CASE LeavingBegins
  <2>0. powered' = FALSE /\ count' = 0 /\ high' = {}
    BY <1>22, OffIsOff DEF LeavingBegins, LockFree, CallInOrder
  <2>1. SensorTypeOK'
    <3>1. powered' \in BOOLEAN /\ removing' \in BOOLEAN
      BY <1>22, <2>0 DEF LeavingBegins
    <3> QED
      BY <1>22, <2>0, <3>1 DEF LeavingBegins, SensorTypeOK
  <2>2. CallInOrder'
    BY <1>22, <2>0 DEF LeavingBegins, LockFree, CallInOrder, Supplied, HasSupply
  <2>3. SupplyBalanced'
    BY <1>22, <2>0 DEF LeavingBegins, LockFree, SupplyBalanced, SensorTypeOK, CallInOrder,
      FilesInOrder, NodesInOrder, Supplied
  <2>4. NodesInOrder'
    BY <1>22, <2>0 DEF LeavingBegins, LockFree, NodesInOrder
  <2>5. RailServes'
    BY <1>22, <2>0 DEF LeavingBegins, LockFree, RailServes, RailKept
  <2>6. FilesInOrder'
    BY <1>22, <2>0 DEF LeavingBegins, LockFree, FilesInOrder, ObjectKept
  <2> QED
    BY <2>1, <2>2, <2>3, <2>4, <2>5, <2>6
<1>23. CASE LeavingEnds
  <2>1. SensorTypeOK'
    <3>1. refs' \in [1 .. Objects -> Nat]
      BY <1>23 DEF LeavingEnds, Puts, SensorTypeOK, FilesInOrder, ObjectKept
    <3> QED
      BY <1>23, <3>1 DEF LeavingEnds, Puts, SensorTypeOK
  <2>2. CallInOrder'
    BY <1>23 DEF LeavingEnds, Puts, CallInOrder, SensorTypeOK, SupplyBalanced, NodesInOrder,
      RailServes, RailKept, Supplied, HasSupply
  <2>3. SupplyBalanced'
    BY <1>23 DEF LeavingEnds, Puts, SupplyBalanced, SensorTypeOK, CallInOrder, FilesInOrder,
      NodesInOrder, Supplied
  <2>4. NodesInOrder'
    BY <1>23 DEF LeavingEnds, Puts, NodesInOrder
  <2>5. RailServes'
    BY <1>23 DEF LeavingEnds, Puts, RailServes, RailKept
  <2>6. FilesInOrder'
    BY <1>23 DEF LeavingEnds, Puts, FilesInOrder, ObjectKept, SensorTypeOK, SupplyBalanced,
      NodesInOrder
  <2> QED
    BY <2>1, <2>2, <2>3, <2>4, <2>5, <2>6
<1>24. CASE SensorShutsDown
  <2>0. powered' = FALSE /\ count' = 0 /\ high' = {}
    BY <1>24, OffIsOff DEF SensorShutsDown, LockFree, CallInOrder
  <2>1. SensorTypeOK'
    <3>1. powered' \in BOOLEAN /\ removing' \in BOOLEAN
      BY <1>24, <2>0 DEF SensorShutsDown
    <3> QED
      BY <1>24, <2>0, <3>1 DEF SensorShutsDown, SensorTypeOK
  <2>2. CallInOrder'
    BY <1>24, <2>0 DEF SensorShutsDown, LockFree, CallInOrder, Supplied, HasSupply
  <2>3. SupplyBalanced'
    BY <1>24, <2>0 DEF SensorShutsDown, LockFree, SupplyBalanced, SensorTypeOK, CallInOrder,
      FilesInOrder, NodesInOrder, Supplied
  <2>4. NodesInOrder'
    BY <1>24, <2>0 DEF SensorShutsDown, LockFree, NodesInOrder
  <2>5. RailServes'
    BY <1>24, <2>0 DEF SensorShutsDown, LockFree, RailServes, RailKept
  <2>6. FilesInOrder'
    BY <1>24, <2>0 DEF SensorShutsDown, LockFree, FilesInOrder, ObjectKept
  <2> QED
    BY <2>1, <2>2, <2>3, <2>4, <2>5, <2>6
<1>25. CASE SensorSuspends
  <2>0. powered' = FALSE /\ count' = 0 /\ high' = {}
    BY <1>25, OffIsOff DEF SensorSuspends, LockFree, CallInOrder
  <2>1. SensorTypeOK'
    <3>1. powered' \in BOOLEAN /\ asleep' \in BOOLEAN
      BY <1>25, <2>0 DEF SensorSuspends
    <3> QED
      BY <1>25, <2>0, <3>1 DEF SensorSuspends, SensorTypeOK
  <2>2. CallInOrder'
    BY <1>25, <2>0 DEF SensorSuspends, LockFree, CallInOrder, Supplied, HasSupply
  <2>3. SupplyBalanced'
    BY <1>25, <2>0 DEF SensorSuspends, LockFree, SupplyBalanced, SensorTypeOK, CallInOrder,
      FilesInOrder, NodesInOrder, Supplied
  <2>4. NodesInOrder'
    BY <1>25, <2>0 DEF SensorSuspends, LockFree, NodesInOrder
  <2>5. RailServes'
    BY <1>25, <2>0 DEF SensorSuspends, LockFree, RailServes, RailKept
  <2>6. FilesInOrder'
    BY <1>25, <2>0 DEF SensorSuspends, LockFree, FilesInOrder, ObjectKept
  <2> QED
    BY <2>1, <2>2, <2>3, <2>4, <2>5, <2>6
<1>26. CASE SensorResumes
  <2>1. SensorTypeOK'
    <3>1. asleep' \in BOOLEAN
      BY <1>26 DEF SensorResumes
    <3> QED
      BY <1>26, <3>1 DEF SensorResumes, SensorTypeOK
  <2>2. CallInOrder'
    BY <1>26 DEF SensorResumes, CallInOrder, Supplied, HasSupply
  <2>3. SupplyBalanced'
    BY <1>26 DEF SensorResumes, SupplyBalanced
  <2>4. NodesInOrder'
    BY <1>26 DEF SensorResumes, NodesInOrder
  <2>5. RailServes'
    BY <1>26 DEF SensorResumes, RailServes, RailKept
  <2>6. FilesInOrder'
    BY <1>26 DEF SensorResumes, FilesInOrder, ObjectKept
  <2> QED
    BY <2>1, <2>2, <2>3, <2>4, <2>5, <2>6
<1>27. CASE ModuleStarts
  <2>1. SensorTypeOK'
    BY <1>27 DEF ModuleStarts, SensorTypeOK
  <2>2. CallInOrder'
    BY <1>27 DEF ModuleStarts, CallInOrder, SensorTypeOK, SupplyBalanced, NodesInOrder,
      RailServes, RailKept, Supplied, HasSupply
  <2>3. SupplyBalanced'
    BY <1>27 DEF ModuleStarts, SupplyBalanced, SensorTypeOK, CallInOrder, FilesInOrder,
      NodesInOrder, Supplied
  <2>4. NodesInOrder'
    BY <1>27 DEF ModuleStarts, NodesInOrder
  <2>5. RailServes'
    BY <1>27 DEF ModuleStarts, RailServes, RailKept
  <2>6. FilesInOrder'
    BY <1>27 DEF ModuleStarts, FilesInOrder, ObjectKept, SensorTypeOK, SupplyBalanced,
      NodesInOrder
  <2> QED
    BY <2>1, <2>2, <2>3, <2>4, <2>5, <2>6
<1>28. CASE ExitBegins
  <2>1. SensorTypeOK'
    BY <1>28 DEF ExitBegins, SensorTypeOK
  <2>2. CallInOrder'
    BY <1>28 DEF ExitBegins, CallInOrder, Supplied, HasSupply
  <2>3. SupplyBalanced'
    BY <1>28 DEF ExitBegins, SupplyBalanced
  <2>4. NodesInOrder'
    BY <1>28 DEF ExitBegins, NodesInOrder
  <2>5. RailServes'
    BY <1>28 DEF ExitBegins, RailServes, RailKept
  <2>6. FilesInOrder'
    BY <1>28 DEF ExitBegins, FilesInOrder, ObjectKept
  <2> QED
    BY <2>1, <2>2, <2>3, <2>4, <2>5, <2>6
<1>29. CASE ExitUnregisters
  <2>1. SensorTypeOK'
    BY <1>29 DEF ExitUnregisters, SensorTypeOK
  <2>2. CallInOrder'
    BY <1>29 DEF ExitUnregisters, CallInOrder, Supplied, HasSupply
  <2>3. SupplyBalanced'
    BY <1>29 DEF ExitUnregisters, SupplyBalanced
  <2>4. NodesInOrder'
    BY <1>29 DEF ExitUnregisters, NodesInOrder
  <2>5. RailServes'
    BY <1>29 DEF ExitUnregisters, RailServes, RailKept
  <2>6. FilesInOrder'
    BY <1>29 DEF ExitUnregisters, FilesInOrder, ObjectKept
  <2> QED
    BY <2>1, <2>2, <2>3, <2>4, <2>5, <2>6
<1>30. CASE ExitUnrails
  <2>1. SensorTypeOK'
    BY <1>30 DEF ExitUnrails, SensorTypeOK
  <2>2. CallInOrder'
    BY <1>30 DEF ExitUnrails, CallInOrder, SensorTypeOK, SupplyBalanced, NodesInOrder,
      RailServes, RailKept, Supplied, HasSupply
  <2>3. SupplyBalanced'
    BY <1>30 DEF ExitUnrails, SupplyBalanced
  <2>4. NodesInOrder'
    BY <1>30 DEF ExitUnrails, NodesInOrder
  <2>5. RailServes'
    BY <1>30 DEF ExitUnrails, RailServes, RailKept, SensorTypeOK, CallInOrder, NodesInOrder,
      SupplyBalanced, Supplied, HasSupply
  <2>6. FilesInOrder'
    BY <1>30 DEF ExitUnrails, FilesInOrder, ObjectKept
  <2> QED
    BY <2>1, <2>2, <2>3, <2>4, <2>5, <2>6
<1>31. CASE ExitEnds
  <2>1. SensorTypeOK'
    BY <1>31 DEF ExitEnds, SensorTypeOK
  <2>2. CallInOrder'
    BY <1>31 DEF ExitEnds, CallInOrder, Supplied, HasSupply
  <2>3. SupplyBalanced'
    BY <1>31 DEF ExitEnds, SupplyBalanced
  <2>4. NodesInOrder'
    BY <1>31 DEF ExitEnds, NodesInOrder
  <2>5. RailServes'
    BY <1>31 DEF ExitEnds, RailServes, RailKept
  <2>6. FilesInOrder'
    BY <1>31 DEF ExitEnds, FilesInOrder, ObjectKept
  <2> QED
    BY <2>1, <2>2, <2>3, <2>4, <2>5, <2>6
<1> QED
  BY <1>1, <1>2, <1>3, <1>4, <1>5, <1>6, <1>7, <1>8, <1>9, <1>10, <1>11, <1>12, <1>13, <1>14, <1>15, <1>16, <1>17, <1>18, <1>19, <1>20, <1>21, <1>22, <1>23, <1>24, <1>25, <1>26, <1>27, <1>28, <1>29, <1>30, <1>31
  DEF SensorNext, PowersOn

\* It holds initially.
LEMMA SensorStarts == SensorInit => SensorInv
<1> SUFFICES ASSUME SensorInit PROVE SensorInv
  OBVIOUS
<1> USE SensorAssumption DEF SensorInit
<1>1. SensorTypeOK
  <2>1. refs \in [1 .. Objects -> Nat] /\ files \in [1 .. Objects -> 0 .. MaxFiles]
    OBVIOUS
  <2>2. /\ firmware \in {"none", "bare", "supplied"}
        /\ board \in {{"enable"}, {"ldo", "enable"}}
    OBVIOUS
  <2>3. object \in 0 .. Objects /\ count \in 0 .. 1
    OBVIOUS
  <2>4. removing \in BOOLEAN /\ powered \in BOOLEAN /\ asleep \in BOOLEAN
    OBVIOUS
  <2> QED
    BY <2>1, <2>2, <2>3, <2>4 DEF SensorTypeOK
<1>2. CallInOrder /\ SupplyBalanced
  BY DEF CallInOrder, SupplyBalanced
<1>3. NodesInOrder /\ RailServes
  BY DEF NodesInOrder, RailServes, RailKept
<1>4. FilesInOrder
  BY DEF FilesInOrder, ObjectKept
<1> QED
  BY <1>1, <1>2, <1>3, <1>4 DEF SensorInv

\* The sensor's device keeps its invariant in every behaviour.
LEMMA SensorStaysInOrder == Spec => []SensorInv
<1>1. Init => SensorInv
  BY SensorStarts DEF Init
<1>2. SensorInv /\ [Next]_vars => SensorInv'
  <2> SUFFICES ASSUME SensorInv, [Next]_vars PROVE SensorInv'
    OBVIOUS
  <2>1. CASE UNCHANGED sensorVars
    BY <2>1 DEF sensorVars, fixed, core, objectVars, supply, tree, SensorInv, SensorTypeOK,
      CallInOrder, SupplyBalanced, NodesInOrder, RailServes, RailKept, FilesInOrder,
      ObjectKept, Supplied, HasSupply
  <2>2. CASE SensorStep
    BY <2>2, StepKeepsSensor DEF SensorStep
  <2> QED
    BY <2>1, <2>2 DEF Next, vars, LoaderStep, RegistersEdge, PipeStep, HeapStep, ListenerStep
<1> QED
  BY <1>1, <1>2, PTL DEF Spec

\* A sensor that is removed, shut down or suspended has its supply off and its
\* lines low, for any sequence of calls of any length, whatever of them fails
\* (egis_el721.c, el721_power_on_locked).
THEOREM SensorStaysQuiet == Spec => []SensorQuiet
<1>1. SensorInv => SensorQuiet
  <2> SUFFICES ASSUME SensorInv,
                      removing \/ asleep \/ stage \in {"absent", "unbound", "leaving"}
               PROVE  count = 0 /\ high = {}
    BY DEF SensorQuiet
  <2>1. ~powered /\ user = "none" /\ step = "idle"
    BY DEF SensorInv, SupplyBalanced, CallInOrder
  <2> QED
    BY <2>1 DEF SensorInv, SupplyBalanced
<1> QED
  BY <1>1, SensorStaysInOrder, PTL

\* The rail is published as long as a handle or the device's node refers to it
\* (egis_el721.c, el721_publish_rail and el721_exit).
THEOREM RailOutlivesUse == Spec => []RailKept
<1>1. SensorInv => RailKept
  BY DEF SensorInv, RailServes
<1> QED
  BY <1>1, SensorStaysInOrder, PTL

\* For any number of probes and files, an object is freed when neither its
\* device nor a file refers to it, and not before (egis_el721.c, el721_free).
THEOREM ObjectFreedLast == Spec => []ObjectKept
<1>1. SensorInv => ObjectKept
  BY DEF SensorInv, FilesInOrder
<1> QED
  BY <1>1, SensorStaysInOrder, PTL

------------------------------------------------------------------------------
(* The heap. *)

\* The pages of the allocation in progress are nobody else's.
CallOwns ==
    /\ call.pages \cap pool = {}
    /\ call.pages \cap vmapped = {}
    /\ \A b \in buffers : call.pages \cap b.pages = {}
    /\ call.at \in {"list", "share"} => call.pages \cap shared = {}
    /\ call.at \in {"list", "share", "export"} => call.pages \cap stale = {}
    /\ call.at = "export" => call.pages \subseteq shared
    /\ call.at \in {"none", "take"} => call.pages = {}

HInv == HeapTypeOK /\ PoolPrivate /\ CallOwns

\* HInv holds initially.
LEMMA HeapStarts == HeapInit => HInv
BY DEF HeapInit, HInv, HeapTypeOK, PoolPrivate, CallOwns, NoCall

\* Every step of an allocation keeps it,
LEMMA AllocationKeepsHeap ==
    HInv /\ (\/ \E n \in 0 .. MaxPages + 1 : AllocBegins(n)
             \/ AllocTakes \/ AllocLists \/ AllocShares \/ AllocExports) => HInv'
<1> SUFFICES ASSUME HInv,
                    \/ \E n \in 0 .. MaxPages + 1 : AllocBegins(n)
                    \/ AllocTakes \/ AllocLists \/ AllocShares \/ AllocExports
             PROVE  HInv'
  OBVIOUS
<1> USE HeapAssumption DEF HInv, HeapTypeOK, PoolPrivate, CallOwns, NoCall
<1>1. CASE \E n \in 0 .. MaxPages + 1 : AllocBegins(n)
  BY <1>1 DEF AllocBegins
<1>2. CASE AllocTakes
  BY <1>2 DEF AllocTakes
<1>3. CASE AllocLists
  BY <1>3 DEF AllocLists, ToPool
<1>4. CASE AllocShares
  BY <1>4 DEF AllocShares, ToPool
<1>5. CASE AllocExports
  <2>1. CASE buffers' = buffers
    BY <1>5, <2>1 DEF AllocExports, ToPool, Reclaims
  <2>2. CASE buffers' # buffers
    <3> DEFINE new == [pages |-> call.pages, refs |-> 1, attached |-> FALSE,
                       mapped |-> FALSE, vmaps |-> 0]
    <3>1. /\ buffers' = buffers \cup {new} /\ call' = NoCall /\ call.at = "export"
          /\ UNCHANGED <<pool, shared, stale, vmapped>>
      BY <1>5, <2>2 DEF AllocExports
    <3>2. new \in Buffers /\ new.pages = call.pages
      BY DEF Buffers
    <3> HIDE DEF new
    <3> QED
      BY <3>1, <3>2
  <2> QED
    BY <2>1, <2>2
<1> QED
  BY <1>1, <1>2, <1>3, <1>4, <1>5

\* and every use of a buffer.
LEMMA UseKeepsHeap ==
    ASSUME HInv, NEW b \in buffers,
           \/ Refers(b) \/ Drops(b) \/ Release(b)
           \/ Attach(b) \/ Maps(b) \/ Unmaps(b) \/ Detach(b)
           \/ Vmap(b) \/ Vunmap(b)
    PROVE  HInv'
<1> USE HeapAssumption DEF HInv, HeapTypeOK, PoolPrivate, CallOwns
<1>1. CASE Refers(b) \/ Drops(b)
  BY <1>1 DEF Refers, Drops, Becomes, Buffers
<1>2. CASE Release(b)
  BY <1>2 DEF Release, Reclaims, ToPool
<1>3. CASE Attach(b) \/ Maps(b) \/ Unmaps(b) \/ Detach(b)
  BY <1>3, ZenonT(30) DEF Attach, Maps, Unmaps, Detach, Becomes, Buffers
<1>4. CASE Vmap(b)
  BY <1>4 DEF Vmap, Becomes, Buffers
<1>5. CASE Vunmap(b)
  BY <1>5 DEF Vunmap, Becomes, Buffers
<1> QED
  BY <1>1, <1>2, <1>3, <1>4, <1>5

\* Memory the kernel may give to anybody is out of the secure processor's
\* reach, whatever the monitor refuses at whichever step
\* (qcom_sp_hlos_heap.c, sp_hlos_allocate and the buffer's release).
THEOREM PoolStaysPrivate == Spec => []PoolPrivate
<1>1. Init => HInv
  BY HeapStarts DEF Init
<1>2. HInv /\ [Next]_vars => HInv'
  <2> SUFFICES ASSUME HInv, [Next]_vars PROVE HInv'
    OBVIOUS
  <2>1. CASE UNCHANGED heapVars
    BY <2>1 DEF HInv, HeapTypeOK, PoolPrivate, CallOwns, heapVars
  <2>2. CASE HeapStep
    BY <2>2, AllocationKeepsHeap, UseKeepsHeap DEF HeapStep, HeapNext
  <2> QED
    BY <2>1, <2>2 DEF Next, vars, LoaderStep, RegistersEdge, PipeStep, ListenerStep, SensorStep
<1>3. HInv => PoolPrivate
  BY DEF HInv
<1> QED
  BY <1>1, <1>2, <1>3, PTL DEF Spec

------------------------------------------------------------------------------
(* The pipe. *)

PipeTypeOK ==
    /\ head \in Cells /\ head % 2 = 0
    /\ tail \in Cells /\ tail % 2 = 0
    /\ cells \in [Cells -> Units]
    /\ offer \in Seq(Units) /\ taken \in Seq(Units)
    /\ notified \in BOOLEAN

\* What is copied and not published fits, with its padding, and leaves a unit
\* free, so that a full ring never looks like an empty one; and as long as the
\* writer has not asked to be told, the request fits as well.
Room ==
    /\ Free >= Aligned(Len(offer)) + 2
    /\ ~notified => Free >= Aligned(Len(offer)) + 4

\* It is behind the index, in its order.
Copied == \A i \in 1 .. Len(offer) : cells[Wrap(head + i - 1)] = offer[i]

\* The reader has looked at no more than there is.
Kept == Len(taken) <= RxAvail

PInv == PipeTypeOK /\ Room /\ Copied /\ Kept

\* The ring holds more than the reserve.
LEMMA RingSize ==
    /\ Length \in Nat /\ Length % 2 = 0 /\ Length >= 6
    /\ \A i \in Cells : i \in Nat /\ i < Length
    /\ \A i \in Nat : i < Length => i \in Cells
BY PipeAssumption DEF Reserve, Cells

\* Where the next message begins.
LEMMA AlignedEven ==
    ASSUME NEW i \in Nat
    PROVE  /\ Aligned(i) \in Nat /\ Aligned(i) % 2 = 0
           /\ i <= Aligned(i) /\ Aligned(i) <= i + 1
BY DEF Aligned

\* Once round the ring.
LEMMA WrapCell ==
    ASSUME NEW i \in Nat, i < 2 * Length
    PROVE  Wrap(i) \in Cells /\ Wrap(i) = (IF i >= Length THEN i - Length ELSE i)
BY RingSize DEF Wrap

\* What is free and what is unread are the whole ring, and the writer goes on
\* where the unread ends.
LEMMA FreeAndUnread ==
    PipeTypeOK =>
        /\ RxAvail \in Nat /\ RxAvail < Length /\ RxAvail % 2 = 0
        /\ Free = Length - RxAvail /\ Free % 2 = 0
        /\ Wrap(tail + RxAvail) = head
<1>1. ASSUME head \in Cells, tail \in Cells, head % 2 = 0, tail % 2 = 0
      PROVE  /\ RxAvail \in Nat /\ RxAvail < Length /\ RxAvail % 2 = 0
             /\ Free = Length - RxAvail /\ Free % 2 = 0
             /\ Wrap(tail + RxAvail) = head
  BY <1>1, RingSize DEF RxAvail, Free, Wrap
<1> QED
  BY <1>1 DEF PipeTypeOK

\* The unread, unit by unit.
LEMMA UnreadUnits ==
    PipeTypeOK =>
        /\ Unread \in Seq(Units) /\ Len(Unread) = RxAvail
        /\ \A i \in 1 .. RxAvail : Unread[i] = cells[Wrap(tail + i - 1)]
<1> SUFFICES ASSUME PipeTypeOK
             PROVE  /\ Unread \in Seq(Units) /\ Len(Unread) = RxAvail
                    /\ \A i \in 1 .. RxAvail : Unread[i] = cells[Wrap(tail + i - 1)]
  OBVIOUS
<1>1. RxAvail \in Nat /\ RxAvail < Length
  BY FreeAndUnread DEF PipeTypeOK
<1>2. \A i \in 1 .. RxAvail : cells[Wrap(tail + i - 1)] \in Units
  <2> TAKE i \in 1 .. RxAvail
  <2>1. tail + i - 1 \in Nat /\ tail + i - 1 < 2 * Length
    BY <1>1, RingSize DEF PipeTypeOK
  <2> QED
    BY <2>1, WrapCell DEF PipeTypeOK
<1> QED
  BY <1>1, <1>2 DEF Unread

\* A message has as many units as its size says.
LEMMA WholeUnits ==
    ASSUME NEW m \in Messages
    PROVE  /\ m.size \in Nat /\ m.size >= 2
           /\ Whole(m) \in Seq(Units) /\ Len(Whole(m)) = m.size
<1>1. m.size \in Nat /\ m.size >= 2
  BY PipeAssumption DEF Header
<1>2. \A k \in 1 .. m.size : [of |-> m, at |-> k] \in Units
  BY <1>1 DEF Units
<1> QED
  BY <1>1, <1>2 DEF Whole

\* Writing one piece: its units from the cell on, the other cells as before.
LEMMA WritesOne ==
    ASSUME NEW ring \in [Cells -> Units], NEW from \in Cells,
           NEW units \in Seq(Units), Len(units) <= Length
    PROVE  /\ TxWriteOne(ring, from, units) \in [Cells -> Units]
           /\ \A j \in 0 .. Length - 1 :
                TxWriteOne(ring, from, units)[Wrap(from + j)] =
                    IF j < Len(units) THEN units[j + 1] ELSE ring[Wrap(from + j)]
<1> DEFINE dist(i) == IF i >= from THEN i - from ELSE i - from + Length
<1>1. Len(units) \in Nat
  OBVIOUS
<1>2. \A i \in Cells : dist(i) \in Nat
  BY RingSize
<1>3. TxWriteOne(ring, from, units) =
        [i \in Cells |-> IF dist(i) < Len(units) THEN units[dist(i) + 1] ELSE ring[i]]
  BY DEF TxWriteOne
<1>4. \A i \in Cells : dist(i) < Len(units) => units[dist(i) + 1] \in Units
  BY <1>1, <1>2
<1>5. ASSUME NEW j \in 0 .. Length - 1
      PROVE  Wrap(from + j) \in Cells /\ dist(Wrap(from + j)) = j
  BY RingSize, WrapCell, SMTT(20)
<1> HIDE DEF dist
<1> QED
  BY <1>3, <1>4, <1>5

\* A message is copied behind the index, and nothing else is touched.
LEMMA CopiesMessage ==
    ASSUME PipeTypeOK, NEW n \in Nat, n >= 2, n <= Length,
           NEW units \in Seq(Units), Len(units) = n, TxCopies(units)
    PROVE  /\ cells' \in [Cells -> Units]
           /\ \A i \in 1 .. n : cells'[Wrap(head + i - 1)] = units[i]
           /\ \A j \in n .. Length - 1 : cells'[Wrap(head + j)] = cells[Wrap(head + j)]
<1> DEFINE hdr == SubSeq(units, 1, 2)
           data == SubSeq(units, 3, n)
           middle == TxWriteOne(cells, head, hdr)
           next == Wrap(head + 2)
<1>0. head \in Nat /\ head < Length
  BY RingSize DEF PipeTypeOK
<1>1. hdr \in Seq(Units) /\ Len(hdr) = 2 /\ hdr[1] = units[1] /\ hdr[2] = units[2]
  BY <1>0
<1>2. /\ data \in Seq(Units) /\ Len(data) = n - 2
      /\ \A i \in 3 .. n : data[i - 2] = units[i]
  <2>1. \A i \in 3 .. n : units[i] \in Units
    BY <1>0
  <2>2. /\ data \in Seq(Units)
        /\ Len(data) = IF 3 <= n THEN n - 3 + 1 ELSE 0
        /\ \A k \in 1 .. n - 3 + 1 : data[k] = units[3 + k - 1]
    BY <1>0, <2>1, SubSeqProperties
  <2> HIDE DEF data
  <2>3. Len(data) = n - 2
    BY <2>2
  <2>4. ASSUME NEW i \in 3 .. n
        PROVE  data[i - 2] = units[i]
    <3>1. i - 2 \in 1 .. n - 3 + 1 /\ 3 + (i - 2) - 1 = i
      BY <1>0
    <3> QED
      BY <2>2, <3>1
  <2> QED
    BY <2>2, <2>3, <2>4
<1>3. next \in Cells
  BY <1>0, WrapCell, RingSize
<1>4. cells' = TxWriteOne(middle, next, data)
  BY DEF TxCopies, Header
<1> HIDE DEF hdr, data, middle, next
<1>5. /\ middle \in [Cells -> Units]
      /\ \A j \in 0 .. Length - 1 :
           middle[Wrap(head + j)] = IF j < 2 THEN hdr[j + 1] ELSE cells[Wrap(head + j)]
  <2>1. cells \in [Cells -> Units] /\ head \in Cells /\ Len(hdr) <= Length
    BY <1>1, RingSize DEF PipeTypeOK
  <2>2. /\ middle \in [Cells -> Units]
        /\ \A j \in 0 .. Length - 1 :
             middle[Wrap(head + j)] =
                 IF j < Len(hdr) THEN hdr[j + 1] ELSE cells[Wrap(head + j)]
    BY <1>1, <2>1, WritesOne DEF middle
  <2> QED
    BY <1>1, <2>2
<1>6. /\ cells' \in [Cells -> Units]
      /\ \A j \in 0 .. Length - 1 :
           cells'[Wrap(next + j)] =
               IF j < n - 2 THEN data[j + 1] ELSE middle[Wrap(next + j)]
  <2>1. Len(data) <= Length
    BY <1>0, <1>2, RingSize
  <2>2. /\ cells' \in [Cells -> Units]
        /\ \A j \in 0 .. Length - 1 :
             cells'[Wrap(next + j)] =
                 IF j < Len(data) THEN data[j + 1] ELSE middle[Wrap(next + j)]
    BY <1>2, <1>3, <1>4, <1>5, <2>1, WritesOne
  <2> QED
    BY <1>2, <2>2
<1>7. ASSUME NEW j \in 2 .. Length - 1
      PROVE  Wrap(head + j) = Wrap(next + (j - 2))
  BY <1>0, RingSize DEF next, Wrap
<1>8. ASSUME NEW j \in 0 .. 1
      PROVE  Wrap(head + j) = Wrap(next + (Length - 2 + j))
  BY <1>0, RingSize DEF next, Wrap
<1>9. ASSUME NEW i \in 1 .. n
      PROVE  cells'[Wrap(head + i - 1)] = units[i]
  <2>1. CASE i \in 1 .. 2
    <3>1. Wrap(head + (i - 1)) = Wrap(next + (Length - 2 + (i - 1)))
      BY <1>8, <2>1
    <3>2. Length - 2 + (i - 1) \in 0 .. Length - 1 /\ ~(Length - 2 + (i - 1) < n - 2)
      BY <1>0, <2>1, RingSize
    <3>3. middle[Wrap(head + (i - 1))] = hdr[i]
      BY <1>5, <2>1, RingSize
    <3>4. hdr[i] = units[i]
      BY <1>1, <2>1
    <3>5. head + i - 1 = head + (i - 1)
      BY <1>0
    <3> QED
      BY <1>6, <3>1, <3>2, <3>3, <3>4, <3>5
  <2>2. CASE i \in 3 .. n
    <3>1. Wrap(head + (i - 1)) = Wrap(next + (i - 3))
      <4>1. i - 1 \in 2 .. Length - 1 /\ (i - 1) - 2 = i - 3
        BY <1>0, <2>2, RingSize
      <4> QED
        BY <1>7, <4>1
    <3>2. i - 3 \in 0 .. Length - 1 /\ i - 3 < n - 2 /\ (i - 3) + 1 = i - 2
      BY <1>0, <2>2, RingSize
    <3>3. head + i - 1 = head + (i - 1)
      BY <1>0
    <3> QED
      BY <1>2, <1>6, <2>2, <3>1, <3>2, <3>3
  <2> QED
    BY <1>0, <2>1, <2>2
<1>10. ASSUME NEW j \in n .. Length - 1
       PROVE  cells'[Wrap(head + j)] = cells[Wrap(head + j)]
  <2>1. Wrap(head + j) = Wrap(next + (j - 2))
    BY <1>0, <1>7
  <2>2. j - 2 \in 0 .. Length - 1 /\ ~(j - 2 < n - 2) /\ j \in 0 .. Length - 1 /\ ~(j < 2)
    BY <1>0, RingSize
  <2> QED
    BY <1>5, <1>6, <2>1, <2>2
<1> QED
  BY <1>6, <1>9, <1>10

\* The same of the next state.
LEMMA NextFreeAndUnread ==
    PipeTypeOK' =>
        /\ RxAvail' \in Nat /\ RxAvail' < Length /\ RxAvail' % 2 = 0
        /\ Free' = Length - RxAvail' /\ Free' % 2 = 0
        /\ Wrap(tail' + RxAvail') = head'
        /\ Unread' \in Seq(Units) /\ Len(Unread') = RxAvail'
        /\ \A i \in 1 .. RxAvail' : Unread'[i] = cells'[Wrap(tail' + i - 1)]
<1>1. (PipeTypeOK =>
         /\ RxAvail \in Nat /\ RxAvail < Length /\ RxAvail % 2 = 0
         /\ Free = Length - RxAvail /\ Free % 2 = 0
         /\ Wrap(tail + RxAvail) = head
         /\ Unread \in Seq(Units) /\ Len(Unread) = RxAvail
         /\ \A i \in 1 .. RxAvail : Unread[i] = cells[Wrap(tail + i - 1)])'
  BY FreeAndUnread, UnreadUnits, PTL
<1> QED
  BY <1>1 DEF Wrap

\* A message that fits is copied: nothing unread is overwritten.
LEMMA CopyingOffers ==
    ASSUME PInv, NEW m \in Messages, TxCopies(Whole(m)), notified' \in BOOLEAN,
           Free >= Aligned(m.size) + 2, ~notified' => Free >= Aligned(m.size) + 4
    PROVE  /\ PInv'
           /\ offer = <<>> /\ offer' = Whole(m) /\ UNCHANGED <<Unread, taken>>
<1> DEFINE n == m.size
<1>1. n \in Nat /\ n >= 2 /\ Whole(m) \in Seq(Units) /\ Len(Whole(m)) = n
  BY WholeUnits
<1>2. /\ PipeTypeOK /\ Kept
      /\ head \in Nat /\ head < Length /\ tail \in Nat /\ tail < Length
  BY RingSize DEF PInv, PipeTypeOK
<1>3. /\ RxAvail \in Nat /\ RxAvail < Length /\ Free = Length - RxAvail
      /\ Wrap(tail + RxAvail) = head
  BY <1>2, FreeAndUnread
<1>4. n <= Length /\ n <= Free
  <2>1. Aligned(n) \in Nat /\ n <= Aligned(n)
    BY <1>1, AlignedEven
  <2>2. ASSUME NEW a \in Nat, NEW free \in Nat, NEW k \in Nat, k <= a, free >= a + 2, free <= Length
        PROVE  k <= Length /\ k <= free
    BY <2>2, RingSize
  <2>3. Free \in Nat /\ Free <= Length
    BY <1>3, RingSize
  <2> QED
    BY <1>1, <2>1, <2>2, <2>3
<1>5. /\ cells' \in [Cells -> Units]
      /\ \A i \in 1 .. n : cells'[Wrap(head + i - 1)] = Whole(m)[i]
      /\ \A j \in n .. Length - 1 : cells'[Wrap(head + j)] = cells[Wrap(head + j)]
  BY <1>1, <1>2, <1>4, CopiesMessage
<1>6. offer = <<>> /\ offer' = Whole(m) /\ UNCHANGED <<head, tail, taken>>
  BY DEF TxCopies
<1>7. RxAvail' = RxAvail /\ Free' = Free
  BY <1>6 DEF RxAvail, Free
<1> HIDE DEF n
<1>8. PipeTypeOK'
  BY <1>1, <1>2, <1>5, <1>6 DEF PipeTypeOK
<1>9. Room' /\ Copied' /\ Kept'
  <2>1. Len(offer') = n
    BY <1>1, <1>6
  <2>2. Room'
    BY <1>7, <2>1 DEF Room, n
  <2>3. Copied'
    BY <1>5, <1>6, <2>1 DEF Copied, Wrap
  <2>4. Kept'
    BY <1>2, <1>6, <1>7 DEF Kept
  <2> QED
    BY <2>2, <2>3, <2>4
<1>10. Unread' = Unread
  <2>1. ASSUME NEW i \in 1 .. RxAvail
        PROVE  Unread'[i] = Unread[i]
    <3>1. Wrap(tail + i - 1) = Wrap(head + (Free + i - 1))
      BY <1>2, <1>3, RingSize DEF Wrap
    <3>2. Free + i - 1 \in n .. Length - 1
      BY <1>1, <1>3, <1>4, RingSize
    <3>3. cells'[Wrap(tail + i - 1)] = cells[Wrap(tail + i - 1)]
      BY <1>5, <3>1, <3>2
    <3>4. Unread'[i] = cells'[Wrap(tail' + i - 1)]
      BY <1>7, <1>8, NextFreeAndUnread
    <3>5. Unread[i] = cells[Wrap(tail + i - 1)]
      BY <1>2, UnreadUnits
    <3> QED
      BY <1>6, <3>3, <3>4, <3>5
  <2>2. /\ Unread \in Seq(Units) /\ Len(Unread) = RxAvail
        /\ Unread' \in Seq(Units) /\ Len(Unread') = RxAvail
    BY <1>2, <1>7, <1>8, UnreadUnits, NextFreeAndUnread
  <2> QED
    BY <2>1, <2>2, SeqEqual
<1> QED
  BY <1>6, <1>8, <1>9, <1>10 DEF PInv

\* The writing functions keep PInv and offer.
LEMMA SendingOffers ==
    ASSUME PInv, NEW m \in Messages, TxSends(m) \/ TxAsks(m)
    PROVE  /\ PInv'
           /\ offer = <<>> /\ UNCHANGED <<Unread, taken>>
           /\ \E w \in Messages : offer' = Whole(w)
<1>1. /\ PipeTypeOK /\ Free \in Nat /\ Free % 2 = 0 /\ offer = <<>>
      /\ Free >= 2 /\ (~notified => Free >= 4)
  <2>1. PipeTypeOK /\ Room /\ offer = <<>>
    BY DEF PInv, TxSends, TxAsks, TxCopies
  <2>2. RxAvail \in Nat /\ RxAvail < Length /\ Free = Length - RxAvail /\ Free % 2 = 0
    BY <2>1, FreeAndUnread
  <2>3. Aligned(Len(offer)) = 0
    BY <2>1 DEF Aligned
  <2> QED
    BY <2>1, <2>2, <2>3, RingSize DEF Room
<1>2. CASE TxSends(m)
  <2>1. m.size \in Nat /\ m.size >= 2 /\ TxAvail >= m.size
    BY <1>2, WholeUnits DEF TxSends
  <2>2. Free >= m.size + 4
    BY <1>1, <2>1 DEF TxAvail, Reserve
  <2>3. Free >= Aligned(m.size) + 4
    BY <1>1, <2>1, <2>2 DEF Aligned
  <2>4. Aligned(m.size) \in Nat
    BY <2>1, AlignedEven
  <2> QED
    <3>1. Free >= Aligned(m.size) + 2
      BY <1>1, <2>3, <2>4
    <3>2. TxCopies(Whole(m)) /\ notified' = FALSE
      BY <1>2 DEF TxSends
    <3> QED
      BY <2>3, <3>1, <3>2, CopyingOffers
<1>3. CASE TxAsks(m)
  <2>1. Ask \in Messages /\ Aligned(Ask.size) = 2
    BY PipeAssumption DEF Ask, Header, Aligned
  <2>2. TxCopies(Whole(Ask)) /\ notified' = TRUE /\ ~notified
    BY <1>3 DEF TxAsks
  <2> QED
    BY <1>1, <2>1, <2>2, CopyingOffers
<1> QED
  BY <1>2, <1>3

\* Where the index goes: past the message and its padding, round the ring.
LEMMA IndexMoves ==
    ASSUME NEW h \in Cells, h % 2 = 0, NEW n \in Nat, Aligned(n) < Length
    PROVE  Wrap(Aligned(Wrap(h + n))) = Wrap(h + Aligned(n))
<1>1. h \in Nat /\ h < Length /\ Length \in Nat /\ Length % 2 = 0
  BY RingSize
<1>2. CASE n % 2 = 0
  BY <1>1, <1>2 DEF Wrap, Aligned
<1>3. CASE n % 2 # 0
  <2>1. Aligned(n) = n + 1 /\ (h + n) % 2 # 0 /\ (h + n - Length) % 2 # 0
    BY <1>1, <1>3 DEF Aligned
  <2>2. CASE h + n < Length
    BY <1>1, <2>1, <2>2 DEF Wrap, Aligned
  <2>3. CASE h + n >= Length
    BY <1>1, <2>1, <2>3 DEF Wrap, Aligned
  <2> QED
    BY <1>1, <2>2, <2>3
<1> QED
  BY <1>2, <1>3

\* The index makes the message part of the unread.
LEMMA PublishingAppends ==
    ASSUME PInv, TxPublishes
    PROVE  /\ PInv' /\ Promised!Publish
           /\ Len(Unread') = Len(Unread) + Aligned(Len(offer))
           /\ \A i \in 1 .. Len(Unread) : Unread'[i] = Unread[i]
           /\ \A i \in 1 .. Len(offer) : Unread'[Len(Unread) + i] = offer[i]
<1> DEFINE n == Len(offer)
           a == Aligned(n)
<1>1. /\ PipeTypeOK /\ Copied /\ Kept /\ offer \in Seq(Units) /\ offer # <<>>
      /\ head \in Nat /\ head < Length /\ tail \in Nat /\ tail < Length
  BY RingSize DEF PInv, PipeTypeOK, TxPublishes
<1>2. n \in Nat /\ n > 0 /\ a \in Nat /\ a % 2 = 0 /\ n <= a /\ a <= n + 1
  <2>1. n \in Nat \ {0}
    BY <1>1, EmptySeq
  <2> QED
    BY <2>1, AlignedEven
<1>3. /\ RxAvail \in Nat /\ RxAvail < Length /\ RxAvail % 2 = 0 /\ Free = Length - RxAvail
      /\ Wrap(tail + RxAvail) = head
  BY <1>1, FreeAndUnread
<1>4. Free >= a + 2 /\ (~notified => Free >= a + 4)
  BY DEF PInv, Room
<1> HIDE DEF n, a
<1>5. RxAvail + a + 2 <= Length /\ (~notified => RxAvail + a + 4 <= Length)
  BY <1>2, <1>3, <1>4, RingSize
<1>6. head' = Wrap(head + a) /\ offer' = <<>> /\ UNCHANGED <<tail, cells, taken, notified>>
  <2>1. head \in Cells /\ head % 2 = 0 /\ Aligned(n) < Length
    BY <1>1, <1>2, <1>3, <1>5, RingSize DEF PipeTypeOK, a
  <2> QED
    BY <1>2, <2>1, IndexMoves DEF TxPublishes, n, a
<1>7. head' \in Cells /\ head' % 2 = 0 /\ RxAvail' = RxAvail + a /\ Free' = Length - RxAvail'
  <2>1. head % 2 = 0 /\ tail % 2 = 0 /\ head \in Cells /\ tail \in Cells
    BY <1>1 DEF PipeTypeOK
  <2>2. head' \in Cells /\ head' % 2 = 0
    BY <1>1, <1>2, <1>3, <1>5, <1>6, <2>1, RingSize DEF Wrap
  <2>3. RxAvail' = RxAvail + a
    BY <1>1, <1>2, <1>3, <1>5, <1>6, <2>1, RingSize DEF Wrap, RxAvail
  <2>4. Free' = Length - RxAvail'
    BY <1>1, <1>2, <1>3, <1>5, <1>6, <2>1, <2>2, RingSize DEF RxAvail, Free
  <2> QED
    BY <2>2, <2>3, <2>4
<1>8. PipeTypeOK'
  BY <1>1, <1>6, <1>7 DEF PipeTypeOK
<1>9. Room' /\ Copied' /\ Kept'
  <2>1. Len(offer') = 0 /\ Aligned(0) = 0
    BY <1>6 DEF Aligned
  <2>2. Room'
    <3>1. Free' >= 2 /\ (~notified' => Free' >= 4)
      BY <1>2, <1>3, <1>5, <1>6, <1>7, RingSize
    <3> QED
      BY <2>1, <3>1, <1>3, <1>7, <1>2, RingSize DEF Room
  <2>3. Copied'
    BY <2>1 DEF Copied
  <2>4. Len(taken) \in Nat /\ Len(taken) <= RxAvail
    BY <1>1 DEF PipeTypeOK, Kept
  <2>5. Kept'
    BY <1>2, <1>3, <1>6, <1>7, <2>4 DEF Kept
  <2> QED
    BY <2>2, <2>3, <2>5
<1>10. /\ Unread \in Seq(Units) /\ Len(Unread) = RxAvail
       /\ Unread' \in Seq(Units) /\ Len(Unread') = RxAvail + a
  BY <1>1, <1>7, <1>8, UnreadUnits, NextFreeAndUnread
<1>11. ASSUME NEW i \in 1 .. RxAvail
       PROVE  Unread'[i] = Unread[i]
  <2>1. Unread[i] = cells[Wrap(tail + i - 1)]
    BY <1>1, UnreadUnits
  <2>2. i \in 1 .. RxAvail'
    BY <1>2, <1>3, <1>7
  <2>3. Unread'[i] = cells'[Wrap(tail' + i - 1)]
    BY <1>8, <2>2, NextFreeAndUnread
  <2> QED
    BY <1>6, <2>1, <2>3
<1>12. ASSUME NEW i \in 1 .. n
       PROVE  Unread'[RxAvail + i] = offer[i]
  <2>1. RxAvail + i \in 1 .. RxAvail'
    BY <1>2, <1>3, <1>7
  <2>2. Unread'[RxAvail + i] = cells'[Wrap(tail' + (RxAvail + i) - 1)]
    BY <1>8, <2>1, NextFreeAndUnread
  <2>3. Wrap(tail + (RxAvail + i) - 1) = Wrap(head + i - 1)
    BY <1>1, <1>2, <1>3, <1>5, RingSize DEF Wrap
  <2>4. cells[Wrap(head + i - 1)] = offer[i]
    BY <1>1 DEF Copied, n
  <2> QED
    BY <1>6, <2>2, <2>3, <2>4
<1>13. SubSeq(Unread', 1, RxAvail + n) = Unread \o offer
  <2>1. /\ Unread \o offer \in Seq(Units) /\ Len(Unread \o offer) = RxAvail + n
        /\ \A i \in 1 .. RxAvail + n :
             (Unread \o offer)[i] = IF i <= RxAvail THEN Unread[i] ELSE offer[i - RxAvail]
    BY <1>1, <1>10, ConcatProperties DEF n
  <2>2. \A i \in 1 .. RxAvail + n : Unread'[i] \in Units
    BY <1>2, <1>3, <1>10
  <2>3. /\ SubSeq(Unread', 1, RxAvail + n) \in Seq(Units)
        /\ Len(SubSeq(Unread', 1, RxAvail + n)) = RxAvail + n
        /\ \A i \in 1 .. RxAvail + n : SubSeq(Unread', 1, RxAvail + n)[i] = Unread'[i]
    <3>1. /\ SubSeq(Unread', 1, RxAvail + n) \in Seq(Units)
          /\ Len(SubSeq(Unread', 1, RxAvail + n)) =
               IF 1 <= RxAvail + n THEN RxAvail + n - 1 + 1 ELSE 0
          /\ \A i \in 1 .. RxAvail + n - 1 + 1 :
               SubSeq(Unread', 1, RxAvail + n)[i] = Unread'[1 + i - 1]
      BY <1>2, <1>3, <2>2, SubSeqProperties
    <3> QED
      BY <1>2, <1>3, <3>1
  <2>4. ASSUME NEW i \in 1 .. RxAvail + n
        PROVE  Unread'[i] = (Unread \o offer)[i]
    <3>1. CASE i <= RxAvail
      BY <1>2, <1>3, <1>11, <2>1, <3>1
    <3>2. CASE ~(i <= RxAvail)
      <4>1. i - RxAvail \in 1 .. n /\ RxAvail + (i - RxAvail) = i
        BY <1>2, <1>3, <3>2
      <4> QED
        BY <1>12, <2>1, <3>2, <4>1
    <3> QED
      BY <3>1, <3>2
  <2> QED
    BY <2>1, <2>3, <2>4, SeqEqual
<1>14. Promised!Publish
  <2>1. RxAvail + a \in {RxAvail + n, RxAvail + n + 1}
    BY <1>2, <1>3
  <2> QED
    BY <1>1, <1>6, <1>10, <1>13, <2>1 DEF Promised!Publish, n
<1> QED
  BY <1>8, <1>9, <1>10, <1>11, <1>12, <1>14 DEF PInv, n, a

\* What the reader looks at is the beginning of the unread.
LEMMA LookingTakes ==
    ASSUME PInv, RxLooks
    PROVE  /\ PInv'
           /\ taken = <<>> /\ UNCHANGED <<Unread, offer>>
           /\ taken' = SubSeq(Unread, 1, Len(taken'))
           /\ taken' \in Seq(Units) /\ Len(taken') = Unread[1].of.size
           /\ Len(Unread) > 0 /\ Len(taken') <= Len(Unread)
           /\ \A i \in 1 .. Len(taken') : taken'[i] = Unread[i]
<1> DEFINE size == RxPeek(0, 1)[1].of.size
           first == RxPeek(0, 2)
           rest == RxPeek(2, size - 2)
<1>1. /\ PipeTypeOK /\ Room /\ Copied /\ tail \in Nat /\ tail < Length
      /\ taken = <<>> /\ RxAvail >= 2
      /\ RxAvail \in Nat /\ RxAvail < Length
      /\ UNCHANGED <<head, tail, cells, offer, notified>>
  BY RingSize, FreeAndUnread DEF PInv, PipeTypeOK, RxLooks, Header
<1>2. /\ Unread \in Seq(Units) /\ Len(Unread) = RxAvail
      /\ \A i \in 1 .. RxAvail : Unread[i] = cells[Wrap(tail + i - 1)] /\ Unread[i] \in Units
  BY <1>1, UnreadUnits
<1>3. size \in Nat /\ size >= 2 /\ size <= RxAvail /\ taken' = first \o rest
  <2>1. RxPeek(0, 1)[1] = cells[Wrap(Wrap(tail + 0) + 1 - 1)]
    BY DEF RxPeek
  <2>2. Wrap(Wrap(tail + 0) + 1 - 1) = tail
    BY <1>1, RingSize DEF Wrap
  <2>3. cells[tail] \in Units
    BY <1>1 DEF PipeTypeOK
  <2>4. size \in Nat /\ size >= 2
    BY <2>1, <2>2, <2>3, PipeAssumption DEF Units, Header
  <2> QED
    BY <2>4 DEF RxLooks, Header
<1> HIDE DEF size
<1>4. ASSUME NEW i \in 1 .. 2
      PROVE  first[i] = Unread[i]
  <2>1. Wrap(Wrap(tail + 0) + i - 1) = Wrap(tail + i - 1)
    BY <1>1, RingSize DEF Wrap
  <2> QED
    BY <1>1, <1>2, <2>1 DEF RxPeek
<1>5. ASSUME NEW i \in 3 .. size
      PROVE  rest[i - 2] = Unread[i]
  <2>1. Wrap(Wrap(tail + 2) + (i - 2) - 1) = Wrap(tail + i - 1)
    BY <1>1, <1>3, RingSize DEF Wrap
  <2>2. i - 2 \in 1 .. size - 2 /\ i \in 1 .. RxAvail
    BY <1>1, <1>3
  <2>3. rest[i - 2] = cells[Wrap(Wrap(tail + 2) + (i - 2) - 1)]
    BY <2>2 DEF RxPeek
  <2> QED
    BY <1>2, <2>1, <2>2, <2>3
<1>6. first \in Seq(Units) /\ Len(first) = 2
  <2>1. \A i \in 1 .. 2 : first[i] \in Units
    BY <1>1, <1>2, <1>4
  <2> QED
    BY <2>1 DEF RxPeek
<1>7. rest \in Seq(Units) /\ Len(rest) = size - 2
  <2>1. ASSUME NEW k \in 1 .. size - 2
        PROVE  cells[Wrap(Wrap(tail + 2) + k - 1)] \in Units
    <3>1. k + 2 \in 3 .. size /\ k + 2 \in 1 .. RxAvail /\ (k + 2) - 2 = k
      BY <1>1, <1>3
    <3>2. rest[k] = Unread[k + 2]
      BY <1>5, <3>1
    <3>3. rest[k] = cells[Wrap(Wrap(tail + 2) + k - 1)]
      BY <3>1 DEF RxPeek
    <3> QED
      BY <1>2, <3>1, <3>2, <3>3
  <2>2. size - 2 \in Nat
    BY <1>3
  <2> QED
    BY <2>1, <2>2 DEF RxPeek
<1> HIDE DEF first, rest
<1>8. /\ taken' \in Seq(Units) /\ Len(taken') = size
      /\ \A i \in 1 .. size : taken'[i] = Unread[i]
  <2>1. /\ taken' \in Seq(Units) /\ Len(taken') = 2 + (size - 2)
        /\ \A i \in 1 .. 2 + (size - 2) : taken'[i] = IF i <= 2 THEN first[i] ELSE rest[i - 2]
    <3>1. /\ first \o rest \in Seq(Units) /\ Len(first \o rest) = Len(first) + Len(rest)
          /\ \A i \in 1 .. Len(first) + Len(rest) :
               (first \o rest)[i] = IF i <= Len(first) THEN first[i] ELSE rest[i - Len(first)]
      BY <1>6, <1>7, ConcatProperties
    <3>2. Len(first) = 2 /\ Len(rest) = size - 2 /\ taken' = first \o rest
      BY <1>3, <1>6, <1>7
    <3> QED
      BY <3>1, <3>2
  <2>2. ASSUME NEW i \in 1 .. size
        PROVE  taken'[i] = Unread[i]
    <3>1. CASE i \in 1 .. 2
      BY <1>3, <1>4, <2>1, <3>1
    <3>2. CASE i \in 3 .. size
      BY <1>3, <1>5, <2>1, <3>2
    <3>3. size \in Nat /\ size >= 2
      BY <1>3
    <3>4. i \in 1 .. 2 \/ i \in 3 .. size
      BY <3>3
    <3> QED
      BY <3>1, <3>2, <3>4
  <2> QED
    BY <1>3, <2>1, <2>2
<1>9. RxAvail' = RxAvail /\ Free' = Free /\ Unread' = Unread
  BY <1>1 DEF RxAvail, Free, Unread, Wrap
<1>10. PInv'
  <2>1. PipeTypeOK'
    BY <1>1, <1>8 DEF PipeTypeOK
  <2>2. Room' /\ Copied'
    BY <1>1, <1>9 DEF Room, Copied, Wrap
  <2>3. Kept'
    BY <1>3, <1>8, <1>9 DEF Kept
  <2> QED
    BY <2>1, <2>2, <2>3 DEF PInv
<1>11. taken' = SubSeq(Unread, 1, Len(taken'))
  <2>1. \A i \in 1 .. size : Unread[i] \in Units
    BY <1>1, <1>2, <1>3
  <2>2. /\ SubSeq(Unread, 1, size) \in Seq(Units)
        /\ Len(SubSeq(Unread, 1, size)) = IF 1 <= size THEN size - 1 + 1 ELSE 0
        /\ \A i \in 1 .. size - 1 + 1 : SubSeq(Unread, 1, size)[i] = Unread[1 + i - 1]
    BY <1>3, <2>1, SubSeqProperties
  <2>3. /\ Len(SubSeq(Unread, 1, size)) = size
        /\ \A i \in 1 .. size : SubSeq(Unread, 1, size)[i] = Unread[i]
    BY <1>3, <2>2
  <2> QED
    BY <1>8, <2>2, <2>3, SeqEqual
<1>12. size = Unread[1].of.size
  <2>1. RxPeek(0, 1)[1] = first[1]
    BY DEF RxPeek, first
  <2> QED
    BY <1>4, <2>1 DEF size
<1>13. Len(Unread) > 0 /\ size <= Len(Unread)
  BY <1>1, <1>2, <1>3
<1> QED
  BY <1>1, <1>8, <1>9, <1>10, <1>11, <1>12, <1>13

\* Past the message and its padding, which are unread no more.
LEMMA AdvancingDrops ==
    ASSUME PInv, RxAdvances
    PROVE  /\ PInv' /\ Promised!Drop
           /\ Aligned(Len(taken)) <= Len(Unread)
           /\ Len(Unread') = Len(Unread) - Aligned(Len(taken))
           /\ \A i \in 1 .. Len(Unread') : Unread'[i] = Unread[Aligned(Len(taken)) + i]
<1> DEFINE n == Len(taken)
           a == Aligned(n)
<1>1. /\ PipeTypeOK /\ Room /\ Copied /\ Kept /\ taken \in Seq(Units) /\ taken # <<>>
      /\ head \in Nat /\ head < Length /\ tail \in Nat /\ tail < Length
      /\ taken' = <<>> /\ tail' = Wrap(tail + a)
      /\ UNCHANGED <<head, cells, offer, notified>>
  BY RingSize DEF PInv, PipeTypeOK, RxAdvances
<1>2. n \in Nat /\ n > 0 /\ a \in Nat /\ a % 2 = 0 /\ n <= a /\ a <= n + 1
  <2>1. n \in Nat \ {0}
    BY <1>1, EmptySeq
  <2> QED
    BY <2>1, AlignedEven
<1>3. /\ RxAvail \in Nat /\ RxAvail < Length /\ RxAvail % 2 = 0 /\ Free = Length - RxAvail
      /\ Wrap(tail + RxAvail) = head
  BY <1>1, FreeAndUnread
<1>4. n <= RxAvail
  BY <1>1 DEF Kept
<1> HIDE DEF n, a
<1>5. a <= RxAvail
  BY <1>2, <1>3, <1>4
<1>6. tail' \in Cells /\ tail' % 2 = 0 /\ RxAvail' = RxAvail - a /\ Free' = Free + a
  <2>1. head % 2 = 0 /\ tail % 2 = 0 /\ head \in Cells /\ tail \in Cells
    BY <1>1 DEF PipeTypeOK
  <2>2. tail' \in Cells /\ tail' % 2 = 0
    BY <1>1, <1>2, <1>3, <1>5, <2>1, RingSize DEF Wrap
  <2>3. RxAvail' = RxAvail - a
    BY <1>1, <1>2, <1>3, <1>5, <2>1, RingSize DEF Wrap, RxAvail
  <2>4. Free' = Free + a
    BY <1>1, <1>2, <1>3, <1>5, <2>1, RingSize DEF Wrap, RxAvail, Free
  <2> QED
    BY <2>2, <2>3, <2>4
<1>7. PipeTypeOK'
  BY <1>1, <1>6 DEF PipeTypeOK
<1>8. Room' /\ Copied' /\ Kept'
  <2>1. Aligned(Len(offer)) \in Nat /\ Free \in Nat
    BY <1>1, <1>3, AlignedEven, RingSize DEF PipeTypeOK
  <2>2. Room'
    BY <1>1, <1>2, <1>6, <2>1 DEF Room
  <2>3. Copied'
    BY <1>1 DEF Copied, Wrap
  <2>4. Len(taken') = 0 /\ RxAvail' >= 0
    BY <1>1, <1>2, <1>3, <1>5, <1>6
  <2> QED
    BY <2>2, <2>3, <2>4 DEF Kept
<1>9. /\ Unread \in Seq(Units) /\ Len(Unread) = RxAvail
      /\ Unread' \in Seq(Units) /\ Len(Unread') = RxAvail - a
  BY <1>1, <1>6, <1>7, UnreadUnits, NextFreeAndUnread
<1>10. ASSUME NEW i \in 1 .. RxAvail - a
       PROVE  Unread'[i] = Unread[a + i]
  <2>1. Unread'[i] = cells'[Wrap(tail' + i - 1)]
    BY <1>6, <1>7, NextFreeAndUnread
  <2>2. a + i \in 1 .. RxAvail
    BY <1>2, <1>3, <1>5
  <2>3. Unread[a + i] = cells[Wrap(tail + (a + i) - 1)]
    BY <1>1, <2>2, UnreadUnits
  <2>4. Wrap(tail' + i - 1) = Wrap(tail + (a + i) - 1)
    BY <1>1, <1>2, <1>3, <1>5, RingSize DEF Wrap
  <2> QED
    BY <1>1, <2>1, <2>3, <2>4
<1>11. Unread' = SubSeq(Unread, a + 1, Len(Unread))
  <2>1. \A i \in a + 1 .. RxAvail : Unread[i] \in Units
    BY <1>2, <1>3, <1>9
  <2>2. /\ SubSeq(Unread, a + 1, RxAvail) \in Seq(Units)
        /\ Len(SubSeq(Unread, a + 1, RxAvail)) =
             IF a + 1 <= RxAvail THEN RxAvail - (a + 1) + 1 ELSE 0
        /\ \A i \in 1 .. RxAvail - (a + 1) + 1 :
             SubSeq(Unread, a + 1, RxAvail)[i] = Unread[(a + 1) + i - 1]
    BY <1>2, <1>3, <2>1, SubSeqProperties
  <2>3. Len(SubSeq(Unread, a + 1, RxAvail)) = RxAvail - a
    BY <1>2, <1>3, <1>5, <2>2
  <2>4. ASSUME NEW i \in 1 .. RxAvail - a
        PROVE  Unread'[i] = SubSeq(Unread, a + 1, RxAvail)[i]
    <3>1. i \in 1 .. RxAvail - (a + 1) + 1 /\ (a + 1) + i - 1 = a + i
      BY <1>2, <1>3, <1>5
    <3> QED
      BY <1>10, <2>2, <3>1
  <2> QED
    BY <1>9, <2>2, <2>3, <2>4, SeqEqual
<1>12. a \in {n, n + 1}
  BY <1>2
<1>13. Promised!Drop
  BY <1>1, <1>11, <1>12 DEF Promised!Drop, n
<1> QED
  BY <1>1, <1>5, <1>7, <1>8, <1>9, <1>10, <1>13 DEF PInv, n, a

\* Both indices at zero: nothing is unread.
LEMMA RegisteringReopens ==
    ASSUME PInv, Register
    PROVE  PInv' /\ Promised!Reopen
<1>1. PipeTypeOK' /\ head' = 0 /\ tail' = 0 /\ offer' = <<>> /\ taken' = <<>>
  <2>1. 0 \in Cells /\ 0 % 2 = 0
    BY RingSize
  <2>2. <<>> \in Seq(Units)
    OBVIOUS
  <2> QED
    BY <2>1, <2>2 DEF PInv, PipeTypeOK, Register
<1>2. RxAvail' = 0 /\ Free' = Length
  BY <1>1, RingSize DEF RxAvail, Free
<1>3. Len(offer') = 0 /\ Aligned(0) = 0 /\ Len(taken') = 0
  BY <1>1 DEF Aligned
<1>4. Room' /\ Copied' /\ Kept'
  BY <1>2, <1>3, RingSize DEF Room, Copied, Kept
<1>5. Unread' = <<>>
  BY <1>1, <1>2, NextFreeAndUnread
<1> QED
  BY <1>1, <1>4, <1>5 DEF PInv, Promised!Reopen

\* A pipe that has not been used is empty.
LEMMA PipeStarts == PipeInit => PInv /\ Promised!Open
<1> SUFFICES ASSUME PipeInit PROVE PInv /\ Promised!Open
  OBVIOUS
<1>1. PipeTypeOK
  <2>1. 0 \in Cells /\ 0 % 2 = 0
    BY RingSize
  <2>2. <<>> \in Seq(Units)
    OBVIOUS
  <2>3. [of |-> Ask, at |-> 0] \in Units
    BY PipeAssumption DEF Units
  <2> QED
    BY <2>1, <2>2, <2>3 DEF PipeInit, PipeTypeOK
<1>2. RxAvail = 0 /\ Free = Length
  BY RingSize DEF PipeInit, RxAvail, Free
<1>3. Len(offer) = 0 /\ Aligned(0) = 0 /\ Len(taken) = 0
  BY DEF PipeInit, Aligned
<1>4. Room /\ Copied /\ Kept
  BY <1>2, <1>3, RingSize DEF Room, Copied, Kept
<1>5. Unread = <<>>
  BY <1>1, <1>2, UnreadUnits
<1> QED
  BY <1>1, <1>4, <1>5 DEF PipeInit, PInv, Promised!Open

------------------------------------------------------------------------------
(* The messages in the pipe. *)

\* Units u are messages, one after the other, that begin at the places S.
Framing(u, S) ==
    /\ 0 \in S /\ Len(u) \in S
    /\ \A s \in S :
         /\ s <= Len(u)
         /\ s < Len(u) => \E m \in Messages :
              /\ s + Aligned(m.size) \in S
              /\ \A k \in 1 .. m.size : u[s + k] = [of |-> m, at |-> k]

\* What is unread is a sequence of messages, what is copied a message, and what
\* the reader has looked at is the first of the unread.
FInv ==
    /\ \E S \in SUBSET Nat : Framing(Unread, S)
    /\ offer # <<>> => \E m \in Messages : offer = Whole(m)
    /\ taken # <<>> => \E m \in Messages : taken = Whole(m) /\ Unread[1].of = m
    /\ taken # <<>> => Len(Unread) > 0

\* The first message.
LEMMA FirstFrame ==
    ASSUME NEW u \in Seq(Units), NEW S \in SUBSET Nat, Framing(u, S), Len(u) > 0
    PROVE  /\ u[1].of \in Messages
           /\ Aligned(u[1].of.size) \in S
           /\ \A k \in 1 .. u[1].of.size : u[k] = Whole(u[1].of)[k]
<1>1. PICK m \in Messages : /\ 0 + Aligned(m.size) \in S
                            /\ \A k \in 1 .. m.size : u[0 + k] = [of |-> m, at |-> k]
  BY DEF Framing
<1>2. m.size \in Nat /\ m.size >= 2
  BY WholeUnits
<1>3. Aligned(m.size) \in Nat
  BY <1>2, AlignedEven
<1>4. \A k \in 1 .. m.size : u[k] = [of |-> m, at |-> k]
  <2> TAKE k \in 1 .. m.size
  <2>1. 0 + k = k
    BY <1>2
  <2> QED
    BY <1>1, <2>1
<1>5. u[1].of = m
  <2>1. 1 \in 1 .. m.size
    BY <1>2
  <2>2. u[1] = [of |-> m, at |-> 1]
    BY <1>4, <2>1
  <2> QED
    BY <2>2
<1> QED
  BY <1>1, <1>3, <1>4, <1>5 DEF Whole

\* One message more.
LEMMA AppendedFrame ==
    ASSUME NEW u \in Seq(Units), NEW v \in Seq(Units), NEW S \in SUBSET Nat, Framing(u, S),
           NEW m \in Messages, Len(v) = Len(u) + Aligned(m.size),
           \A i \in 1 .. Len(u) : v[i] = u[i],
           \A k \in 1 .. m.size : v[Len(u) + k] = [of |-> m, at |-> k]
    PROVE  Framing(v, S \cup {Len(v)})
<1>1. m.size \in Nat /\ m.size >= 2 /\ Len(u) \in Nat /\ Len(v) \in Nat
  BY WholeUnits
<1>2. Aligned(m.size) \in Nat /\ Aligned(m.size) >= 2
  <2>1. Aligned(m.size) \in Nat /\ m.size <= Aligned(m.size)
    BY <1>1, AlignedEven
  <2> QED
    BY <1>1, <2>1
<1>3. Len(u) < Len(v)
  BY <1>1, <1>2
<1>4. ASSUME NEW s \in S, s < Len(u)
      PROVE  \E w \in Messages :
               /\ s + Aligned(w.size) \in S
               /\ \A k \in 1 .. w.size : v[s + k] = [of |-> w, at |-> k]
  <2>1. PICK w \in Messages : /\ s + Aligned(w.size) \in S
                              /\ \A k \in 1 .. w.size : u[s + k] = [of |-> w, at |-> k]
    BY <1>4 DEF Framing
  <2>2. w.size \in Nat /\ s \in Nat
    BY WholeUnits
  <2>3. Aligned(w.size) \in Nat /\ w.size <= Aligned(w.size)
    BY <2>2, AlignedEven
  <2>4. s + Aligned(w.size) <= Len(u)
    BY <2>1 DEF Framing
  <2>5. ASSUME NEW k \in 1 .. w.size
        PROVE  v[s + k] = u[s + k]
    <3>1. s + k \in 1 .. Len(u)
      BY <1>1, <2>2, <2>3, <2>4
    <3> QED
      BY <3>1
  <2> QED
    BY <2>1, <2>5
<1>5. ASSUME NEW s \in S \cup {Len(v)}
      PROVE  /\ s <= Len(v)
             /\ s < Len(v) => \E w \in Messages :
                  /\ s + Aligned(w.size) \in S \cup {Len(v)}
                  /\ \A k \in 1 .. w.size : v[s + k] = [of |-> w, at |-> k]
  <2>1. CASE s = Len(v)
    BY <1>1, <2>1
  <2>2. CASE s \in S /\ s = Len(u)
    <3>1. s <= Len(v)
      BY <1>1, <1>3, <2>2
    <3>2. s + Aligned(m.size) \in S \cup {Len(v)}
      BY <2>2
    <3> QED
      BY <2>2, <3>1, <3>2
  <2>3. CASE s \in S /\ s < Len(u)
    <3>1. s \in Nat
      BY <2>3
    <3>2. s <= Len(v)
      BY <1>1, <1>3, <2>3, <3>1
    <3> QED
      BY <1>4, <2>3, <3>2
  <2>4. CASE s \in S /\ s # Len(u) /\ ~(s < Len(u))
    <3>1. s \in Nat /\ s <= Len(u)
      BY <2>4 DEF Framing
    <3> QED
      BY <1>1, <2>4, <3>1
  <2> QED
    BY <2>1, <2>2, <2>3, <2>4
<1>6. 0 \in S \cup {Len(v)} /\ Len(v) \in S \cup {Len(v)}
  BY DEF Framing
<1> QED
  BY <1>5, <1>6 DEF Framing

\* From the beginning of a message on.
LEMMA DroppedFrame ==
    ASSUME NEW u \in Seq(Units), NEW v \in Seq(Units), NEW S \in SUBSET Nat, Framing(u, S),
           NEW a \in S, a <= Len(u), Len(v) = Len(u) - a,
           \A i \in 1 .. Len(v) : v[i] = u[a + i]
    PROVE  Framing(v, {t \in Nat : t + a \in S})
<1>1. a \in Nat /\ Len(u) \in Nat /\ Len(v) \in Nat
  OBVIOUS
<1>2. 0 + a = a /\ Len(v) + a = Len(u)
  BY <1>1
<1>3. ASSUME NEW t \in Nat, t + a \in S
      PROVE  /\ t <= Len(v)
             /\ t < Len(v) => \E m \in Messages :
                  /\ t + Aligned(m.size) \in Nat /\ t + Aligned(m.size) + a \in S
                  /\ \A k \in 1 .. m.size : v[t + k] = [of |-> m, at |-> k]
  <2>1. t + a <= Len(u)
    BY <1>3 DEF Framing
  <2>2. t <= Len(v)
    BY <1>1, <2>1
  <2>3. ASSUME t < Len(v)
        PROVE  \E m \in Messages :
                 /\ t + Aligned(m.size) \in Nat /\ t + Aligned(m.size) + a \in S
                 /\ \A k \in 1 .. m.size : v[t + k] = [of |-> m, at |-> k]
    <3>1. t + a < Len(u)
      BY <1>1, <2>3
    <3>2. PICK m \in Messages : /\ (t + a) + Aligned(m.size) \in S
                                /\ \A k \in 1 .. m.size : u[(t + a) + k] = [of |-> m, at |-> k]
      BY <1>3, <3>1 DEF Framing
    <3>3. m.size \in Nat
      BY WholeUnits
    <3>4. Aligned(m.size) \in Nat /\ m.size <= Aligned(m.size)
      BY <3>3, AlignedEven
    <3>5. t + Aligned(m.size) \in Nat /\ t + Aligned(m.size) + a = (t + a) + Aligned(m.size)
      BY <1>1, <3>4
    <3>6. (t + a) + Aligned(m.size) <= Len(u)
      BY <3>2 DEF Framing
    <3>7. ASSUME NEW k \in 1 .. m.size
          PROVE  v[t + k] = u[(t + a) + k]
      <4>1. t + k \in 1 .. Len(v) /\ a + (t + k) = (t + a) + k
        BY <1>1, <3>3, <3>4, <3>6
      <4> QED
        BY <4>1
    <3>8. \A k \in 1 .. m.size : v[t + k] = [of |-> m, at |-> k]
      BY <3>2, <3>7
    <3> QED
      BY <3>2, <3>5, <3>8
  <2> QED
    BY <2>2, <2>3
<1>4. 0 \in {t \in Nat : t + a \in S} /\ Len(v) \in {t \in Nat : t + a \in S}
  BY <1>1, <1>2 DEF Framing
<1> QED
  BY <1>3, <1>4 DEF Framing

\* Offering, publishing, looking and dropping keep the messages whole, and do
\* what the stream promises.
LEMMA OffersWhole ==
    ASSUME PInv, FInv, NEW m \in Messages, TxSends(m) \/ TxAsks(m)
    PROVE  PInv' /\ FInv' /\ Promised!Offer
<1>1. /\ PInv' /\ offer = <<>> /\ UNCHANGED <<Unread, taken>>
      /\ \E w \in Messages : offer' = Whole(w)
  BY SendingOffers
<1>2. FInv'
  BY <1>1 DEF FInv, Framing, Whole, Aligned
<1>3. Promised!Offer
  BY <1>1 DEF Promised!Offer
<1> QED
  BY <1>1, <1>2, <1>3

LEMMA PublishesWhole ==
    ASSUME PInv, FInv, TxPublishes
    PROVE  PInv' /\ FInv' /\ Promised!Publish
<1>1. /\ PInv' /\ Promised!Publish
      /\ Len(Unread') = Len(Unread) + Aligned(Len(offer))
      /\ \A i \in 1 .. Len(Unread) : Unread'[i] = Unread[i]
      /\ \A i \in 1 .. Len(offer) : Unread'[Len(Unread) + i] = offer[i]
  BY PublishingAppends
<1>2. /\ Unread \in Seq(Units) /\ Unread' \in Seq(Units)
      /\ offer # <<>> /\ offer' = <<>> /\ UNCHANGED taken
  BY <1>1, UnreadUnits, NextFreeAndUnread DEF PInv, TxPublishes
<1>3. PICK S \in SUBSET Nat : Framing(Unread, S)
  BY DEF FInv
<1>4. PICK m \in Messages : offer = Whole(m)
  BY <1>2 DEF FInv
<1>5. Len(offer) = m.size /\ m.size \in Nat
  BY <1>4, WholeUnits
<1>6. \A k \in 1 .. m.size : Unread'[Len(Unread) + k] = [of |-> m, at |-> k]
  BY <1>1, <1>4, <1>5 DEF Whole
<1>7. Framing(Unread', S \cup {Len(Unread')})
  <2>1. Len(Unread') = Len(Unread) + Aligned(m.size)
    BY <1>1, <1>5
  <2>2. \A i \in 1 .. Len(Unread) : Unread'[i] = Unread[i]
    BY <1>1
  <2>3. ASSUME NEW u \in Seq(Units), NEW v \in Seq(Units), Framing(u, S),
               Len(v) = Len(u) + Aligned(m.size),
               \A i \in 1 .. Len(u) : v[i] = u[i],
               \A k \in 1 .. m.size : v[Len(u) + k] = [of |-> m, at |-> k]
        PROVE  Framing(v, S \cup {Len(v)})
    BY <2>3, AppendedFrame
  <2> QED
    BY <1>2, <1>3, <1>6, <2>1, <2>2, <2>3
<1>8. \E T \in SUBSET Nat : Framing(Unread', T)
  <2>1. Len(Unread') \in Nat
    BY <1>2
  <2> QED
    BY <1>7, <2>1
<1>9. taken' # <<>> => /\ \E w \in Messages : taken' = Whole(w) /\ Unread'[1].of = w
                       /\ Len(Unread') > 0
  <2> SUFFICES ASSUME taken' # <<>>
               PROVE  /\ \E w \in Messages : taken' = Whole(w) /\ Unread'[1].of = w
                      /\ Len(Unread') > 0
    OBVIOUS
  <2>1. Len(Unread) \in Nat /\ Aligned(Len(offer)) \in Nat
    <3>1. Aligned(Len(offer)) \in Nat
      BY <1>5, AlignedEven
    <3> QED
      BY <1>2, <3>1
  <2>3. Len(Unread) > 0
    BY <1>2 DEF FInv
  <2>2. Unread'[1] = Unread[1] /\ Len(Unread') > 0
    BY <1>1, <2>1, <2>3
  <2> QED
    BY <1>2, <2>2 DEF FInv
<1> QED
  BY <1>1, <1>2, <1>8, <1>9 DEF FInv, Framing, Whole, Aligned

LEMMA LooksAtWhole ==
    ASSUME PInv, FInv, RxLooks
    PROVE  PInv' /\ FInv' /\ Promised!Look
<1>1. /\ PInv' /\ taken = <<>> /\ UNCHANGED <<Unread, offer>>
      /\ taken' = SubSeq(Unread, 1, Len(taken'))
      /\ taken' \in Seq(Units) /\ Len(taken') = Unread[1].of.size
      /\ Len(Unread) > 0 /\ Len(taken') <= Len(Unread)
      /\ \A i \in 1 .. Len(taken') : taken'[i] = Unread[i]
  BY LookingTakes
<1>2. Unread \in Seq(Units)
  BY UnreadUnits DEF PInv
<1>3. PICK S \in SUBSET Nat : Framing(Unread, S)
  BY DEF FInv
<1> DEFINE m == Unread[1].of
<1>4. m \in Messages /\ \A k \in 1 .. m.size : Unread[k] = Whole(m)[k]
  BY <1>1, <1>2, <1>3, FirstFrame
<1>5. Whole(m) \in Seq(Units) /\ Len(Whole(m)) = m.size
  BY <1>4, WholeUnits
<1>6. taken' = Whole(m)
  BY <1>1, <1>4, <1>5, SeqEqual
<1> HIDE DEF m
<1>7. FInv'
  <2>1. \E T \in SUBSET Nat : Framing(Unread', T)
    BY <1>1, <1>3
  <2>2. offer' # <<>> => \E w \in Messages : offer' = Whole(w)
    BY <1>1 DEF FInv
  <2>3. Unread'[1].of = m /\ Len(Unread') > 0
    BY <1>1 DEF m
  <2> QED
    BY <1>4, <1>6, <2>1, <2>2, <2>3 DEF FInv, Framing, Whole, Aligned
<1>8. Promised!Look
  BY <1>1, <1>4, <1>6 DEF Promised!Look
<1> QED
  BY <1>1, <1>7, <1>8

LEMMA DropsWhole ==
    ASSUME PInv, FInv, RxAdvances
    PROVE  PInv' /\ FInv' /\ Promised!Drop
<1> DEFINE a == Aligned(Len(taken))
<1>1. /\ PInv' /\ Promised!Drop
      /\ a <= Len(Unread)
      /\ Len(Unread') = Len(Unread) - a
      /\ \A i \in 1 .. Len(Unread') : Unread'[i] = Unread[a + i]
  BY AdvancingDrops
<1>2. /\ Unread \in Seq(Units) /\ Unread' \in Seq(Units)
      /\ taken # <<>> /\ taken' = <<>> /\ UNCHANGED offer
  BY <1>1, UnreadUnits, NextFreeAndUnread DEF PInv, RxAdvances
<1>3. PICK S \in SUBSET Nat : Framing(Unread, S)
  BY DEF FInv
<1>4. PICK m \in Messages : taken = Whole(m) /\ Unread[1].of = m
  BY <1>2 DEF FInv
<1>5. Len(taken) = m.size
  BY <1>4, WholeUnits
<1>6. a \in S
  <2>1. Len(Unread) > 0
    BY <1>2 DEF FInv
  <2> QED
    BY <1>2, <1>3, <1>4, <1>5, <2>1, FirstFrame
<1> HIDE DEF a
<1>7. Framing(Unread', {t \in Nat : t + a \in S})
  BY <1>1, <1>2, <1>3, <1>6, DroppedFrame
<1>8. \E T \in SUBSET Nat : Framing(Unread', T)
  BY <1>7
<1>9. offer' # <<>> => \E w \in Messages : offer' = Whole(w)
  BY <1>2 DEF FInv
<1> QED
  BY <1>1, <1>2, <1>8, <1>9 DEF FInv, Framing, Whole, Aligned

\* An empty pipe holds no message.
LEMMA NothingFramed == Framing(<<>>, {0})
BY DEF Framing

\* The pipe implements the stream of messages it promises, for every ring and every
\* set of messages, through every new registration of the edge
\* (qcom_glink_spss.c, tx_write and rx_advance).
THEOREM PipeKeepsOrder == Spec => KeepsOrder
<1> DEFINE I == PInv /\ FInv
<1>1. Init => I /\ Promised!Open
  <2> SUFFICES ASSUME PipeInit PROVE I /\ Promised!Open
    BY DEF Init
  <2>1. PInv /\ Promised!Open
    BY PipeStarts
  <2> QED
    BY <2>1, NothingFramed DEF FInv, Promised!Open
<1>2. I /\ [Next]_vars => I' /\ [Promised!StreamNext]_(Promised!streamVars)
  <2> SUFFICES ASSUME PInv, FInv, [Next]_vars
               PROVE  PInv' /\ FInv' /\ [Promised!StreamNext]_(Promised!streamVars)
    OBVIOUS
  <2>1. CASE UNCHANGED pipeVars
    <3>1. UNCHANGED <<head, tail, cells, offer, taken, notified>>
      BY <2>1 DEF pipeVars
    <3>2. RxAvail' = RxAvail /\ Free' = Free /\ Unread' = Unread
      BY <3>1 DEF RxAvail, Free, Unread, Wrap
    <3>3. PInv'
      BY <3>1, <3>2 DEF PInv, PipeTypeOK, Room, Copied, Kept, Wrap
    <3>4. FInv'
      BY <3>1, <3>2 DEF FInv, Framing, Whole, Aligned
    <3> QED
      BY <3>1, <3>2, <3>3, <3>4 DEF Promised!streamVars
  <2>2. CASE RegistersEdge /\ Register
    <3>1. PInv' /\ Promised!Reopen
      BY <2>2, RegisteringReopens
    <3>2. \E S \in SUBSET Nat : Framing(Unread', S)
      <4>1. Unread' = <<>> /\ {0} \in SUBSET Nat
        BY <3>1 DEF Promised!Reopen
      <4> QED
        BY <4>1, NothingFramed
    <3>3. offer' = <<>> /\ taken' = <<>>
      BY <3>1 DEF Promised!Reopen
    <3>4. FInv'
      BY <3>2, <3>3 DEF FInv, Framing, Whole, Aligned
    <3> QED
      BY <3>1, <3>4 DEF Promised!StreamNext
  <2>3. CASE PipeStep
    BY <2>3, OffersWhole, PublishesWhole, LooksAtWhole, DropsWhole
       DEF PipeStep, Promised!StreamNext
  <2> QED
    BY <2>1, <2>2, <2>3 DEF Next, vars, LoaderStep, RegistersEdge, HeapStep, ListenerStep, SensorStep
<1> HIDE DEF I
<1> QED
  BY <1>1, <1>2, PTL DEF Spec, KeepsOrder, Promised!StreamSpec

=============================================================================
