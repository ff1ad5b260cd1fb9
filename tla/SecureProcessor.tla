--------------------------- MODULE SecureProcessor ---------------------------
(***************************************************************************)
(* The kernel's side of the secure world: the secure processor's loader, a *)
(* GLINK pipe to it, the heap of memory shared with it, the listener for   *)
(* its interrupts, and the supply of the sensor that the secure world      *)
(* reads. The loader registers and unregisters the pipe's edge; the heap,  *)
(* the listener and the sensor share nothing with the others.              *)
(***************************************************************************)
EXTENDS SpssLoader, GlinkPipe, SharedHeap, SplListener, SensorDevice

VARIABLE client   \* bound: what is used besides the loader in this behaviour

vars == <<loaderVars, pipeVars, heapVars, splVars, sensorVars, client>>

Clients == {"events", "pipe", "heap", "listener", "sensor"}

Init ==
    /\ LoaderInit /\ PipeInit /\ HeapInit /\ SplInit /\ SensorInit
    /\ client \in Clients
    /\ client # "sensor" => firmware = "none" /\ board = {"enable"}

\* While the pipe is used there are no events, and no second command (bounds).
\* qcom_glink_spss_register is called by the start of the edge.
LoaderStep ==
    /\ client \in {"events", "pipe"}
    /\ \/ PublishNode
       \/ RestartSp /\ (client = "pipe" => power = 0)
       \/ StartLoads \/ StartSignals \/ StartResets \/ AttachChecks
       \/ StartWaits \/ StartsEvents
       \/ Shutdown \/ StopsEvents \/ StopsEdge \/ Aborts \/ Stops \/ Unprepares
       \/ HandlerReads \/ HandlerActs \/ CrashWork
       \/ PblDone \/ InitDone
       \/ client = "events" /\ (UtilsProbe \/ WatchdogBites \/ \E e \in UserEvents : Signals(e))
    /\ UNCHANGED <<pipeVars, heapVars, splVars, sensorVars>>

RegistersEdge ==
    /\ client \in {"events", "pipe"}
    /\ StartsEdge
    /\ IF edge' THEN Register ELSE UNCHANGED pipeVars
    /\ UNCHANGED <<heapVars, splVars, sensorVars>>

\* The edge is used once the start is over, and no more when it is stopped.
PipeStep ==
    /\ client = "pipe"
    /\ edge /\ op = "none" /\ image = "up"
    /\ \/ \E m \in Messages : TxSends(m) \/ TxAsks(m)
       \/ TxPublishes \/ RxLooks \/ RxAdvances
    /\ UNCHANGED <<loaderVars, heapVars, splVars, sensorVars>>

HeapStep ==
    /\ client = "heap"
    /\ HeapNext
    /\ UNCHANGED <<loaderVars, pipeVars, splVars, sensorVars>>

ListenerStep ==
    /\ client = "listener"
    /\ SplNext
    /\ UNCHANGED <<loaderVars, pipeVars, heapVars, sensorVars>>

SensorStep ==
    /\ client = "sensor"
    /\ SensorNext
    /\ UNCHANGED <<loaderVars, pipeVars, heapVars, splVars>>

Next ==
    /\ LoaderStep \/ RegistersEdge \/ PipeStep \/ HeapStep \/ ListenerStep \/ SensorStep
    /\ UNCHANGED client

Spec == Init /\ [][Next]_vars

TypeOK == LoaderTypeOK /\ HeapTypeOK /\ SplTypeOK /\ SensorTypeOK /\ client \in Clients
=============================================================================
