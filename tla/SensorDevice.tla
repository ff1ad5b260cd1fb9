---------------------------- MODULE SensorDevice ----------------------------
(***************************************************************************)
(* The kernel's companion of the fingerprint sensor (egis_el721.c): the    *)
(* supply and the two lines of the sensor, whose data the secure world     *)
(* reads. The sensor is powered by the ioctls of /dev/esfp0 or by a sysfs  *)
(* attribute; its handles are taken at the first power-on, and a rail that *)
(* the firmware does not describe is published in the device tree then.    *)
(*                                                                         *)
(* What is done under el721->lock, a mutex of the object a probe made, is  *)
(* broken into the calls that can fail; user says who is in it. An object  *)
(* is one of 1 .. Objects, in the order of the probes; one that was        *)
(* removed is kept by its open files. Values that an ioctl only stores or  *)
(* reads are left out.                                                     *)
(***************************************************************************)
EXTENDS Naturals

CONSTANTS
    Objects,     \* how many probes there are (a bound)
    MaxFiles     \* how many files are open of one object (a bound)

ASSUME SensorAssumption == Objects \in Nat /\ MaxFiles \in Nat

VARIABLES
    firmware,    \* the sensor's node in the tree: "none", "bare", "supplied"
    board,       \* the lines the sensor has: "enable", perhaps "ldo"
    driver,      \* the module: "out", "in", or how far its exit is
    consumer,    \* the of_node of the device: "none", "firmware", "rail"
    stage,       \* the device: "absent", "unbound", "probing", "bound", "leaving"
    object,      \* the object of the last probe
    refs,        \* refcount of each object
    files,       \* open files of each object
    removing,    \* of the last object, as are those that follow
    powered,
    got,         \* its handles: "vdd" or a "dummy" for it, "ldo", "enable"
    user,        \* who holds its lock: "none", "store", "ioctl"
    step,        \* where el721_power_on_locked is, or "idle"
    rail,        \* what is published: "none", "applied", with its "device"
    count,       \* how often the supply is enabled
    high,        \* the lines that are driven high
    asleep       \* the system is suspended

fixed == <<firmware, board>>
objectVars == <<object, refs, files>>
supply == <<powered, count, high>>
tree == <<consumer, rail>>
core == <<driver, stage, asleep>>
sensorVars == <<fixed, core, objectVars, removing, got, user, step, supply, tree>>

SensorInit ==
    /\ firmware \in {"none", "bare", "supplied"}
    /\ board \in {{"enable"}, {"ldo", "enable"}}
    /\ driver = "out" /\ consumer = "none" /\ stage = "absent"
    /\ object = 0
    /\ refs = [o \in 1 .. Objects |-> 0] /\ files = [o \in 1 .. Objects |-> 0]
    /\ removing = TRUE /\ powered = FALSE /\ got = {}
    /\ user = "none" /\ step = "idle"
    /\ rail = "none" /\ count = 0 /\ high = {} /\ asleep = FALSE

------------------------------------------------------------------------------
(* el721_power_on_locked, with what it prepares. *)

\* A store is one operation; an ioctl goes on with its next transfer.
Succeeds == user' \in (IF user = "ioctl" THEN {"ioctl", "none"} ELSE {"none"})
Fails == user' = "none" /\ step' = "idle"

Supplied == got \intersect {"vdd", "dummy"} # {}

HasSupply == consumer = "rail" \/ (consumer = "firmware" /\ firmware = "supplied")

PowerOnBegins ==
    /\ user # "none" /\ step = "idle"
    /\ \/ powered /\ Succeeds /\ UNCHANGED step
       \/ ~powered /\ step' = "rail" /\ UNCHANGED user
    /\ UNCHANGED <<fixed, core, objectVars, removing, got, supply, tree>>

RailThere ==
    /\ step = "rail"
    /\ Supplied \/ HasSupply
    /\ step' = "supply"
    /\ UNCHANGED <<fixed, core, objectVars, removing, got, user, supply, tree>>

\* Anything before the changeset is applied fails, and is destroyed.
RailFails ==
    /\ step = "rail"
    /\ ~Supplied /\ ~HasSupply
    /\ Fails
    /\ UNCHANGED <<fixed, core, objectVars, removing, got, supply, tree>>

RailPublished ==
    /\ step = "rail"
    /\ ~Supplied /\ ~HasSupply
    /\ \/ rail = "none" /\ rail' \in {"applied", "device"} /\ step' = "attach"
       \/ rail # "none" /\ UNCHANGED rail /\ step' = "reattach"
    /\ UNCHANGED <<fixed, core, objectVars, removing, got, user, supply, consumer>>

RailAttached ==
    /\ step \in {"attach", "reattach"}
    /\ consumer = "none"
    /\ consumer' = "rail"
    /\ step' = "supply"
    /\ UNCHANGED <<fixed, core, objectVars, removing, got, user, supply, rail>>

\* A rail that was published before is left to the next attempt.
AttachFails ==
    /\ step \in {"attach", "reattach"}
    /\ rail' = IF step = "attach" THEN "none" ELSE rail
    /\ Fails
    /\ UNCHANGED <<fixed, core, objectVars, removing, got, supply, consumer>>

\* The supply is asked for until the rail's device has bound, fifty times. If
\* the module's exit has taken the node away by then, a dummy answers.
SupplyFound ==
    /\ step = "supply"
    /\ ~Supplied /\ consumer = "rail" => rail = "device"
    /\ got' = IF Supplied THEN got
              ELSE got \union {IF consumer = "none" THEN "dummy" ELSE "vdd"}
    /\ step' = "lines"
    /\ UNCHANGED <<fixed, core, objectVars, removing, user, supply, tree>>

LineFound ==
    /\ step = "lines"
    /\ \E line \in board \ got :
        /\ line = "enable" => board \ got = {"enable"}
        /\ got' = got \union {line}
    /\ UNCHANGED <<fixed, core, objectVars, removing, user, step, supply, tree>>

HandlesMissing ==
    /\ \/ step = "supply" /\ ~Supplied
       \/ step = "lines" /\ ~(board \subseteq got)
    /\ Fails
    /\ UNCHANGED <<fixed, core, objectVars, removing, got, supply, tree>>

SupplyEnabled ==
    /\ step = "lines" /\ board \subseteq got
    /\ \/ count' = count + 1 /\ step' = "ldo" /\ UNCHANGED user
       \/ Fails /\ UNCHANGED count
    /\ UNCHANGED <<fixed, core, objectVars, removing, got, powered, high, tree>>

LdoRaised ==
    /\ step = "ldo"
    /\ \/ /\ high' = high \union (got \intersect {"ldo"})
          /\ step' = "line"
          /\ UNCHANGED <<user, count>>
       \/ "ldo" \in got /\ Fails /\ count' = count - 1 /\ UNCHANGED high
    /\ UNCHANGED <<fixed, core, objectVars, removing, got, powered, tree>>

EnableRaised ==
    /\ step = "line"
    /\ high' = high \union {"enable"}
    /\ powered' = TRUE
    /\ Succeeds /\ step' = "idle"
    /\ UNCHANGED <<fixed, core, objectVars, removing, got, count, tree>>

\* Mutant: the supply stays enabled behind a line that cannot be driven.
EnableLeaks ==
    /\ step = "line"
    /\ Fails
    /\ high' = high \ {"ldo"}
    /\ UNCHANGED <<fixed, core, objectVars, removing, got, powered, count, tree>>

EnableFails ==
    /\ step = "line"
    /\ Fails
    /\ high' = high \ {"ldo"} /\ count' = count - 1
    /\ UNCHANGED <<fixed, core, objectVars, removing, got, powered, tree>>

PowersOn == \/ PowerOnBegins \/ RailThere \/ RailFails \/ RailPublished \/ RailAttached
            \/ AttachFails \/ SupplyFound \/ LineFound \/ HandlesMissing \/ SupplyEnabled
            \/ LdoRaised \/ EnableRaised \/ EnableFails

------------------------------------------------------------------------------
(* The other operations under the lock. *)

\* el721_power_off_locked
SupplyOff ==
    IF powered
      THEN powered' = FALSE /\ high' = high \ got /\ count' = count - 1
      ELSE UNCHANGED supply

PowersOff ==
    /\ user # "none" /\ step = "idle"
    /\ SupplyOff
    /\ Succeeds
    /\ UNCHANGED <<fixed, core, objectVars, removing, got, step, tree>>

\* el721_reset_locked leaves the line high, el721_reset_control_locked as asked.
Resets ==
    /\ user # "none" /\ step = "idle"
    /\ IF powered
         THEN /\ high' \in {high \union {"enable"}, high \ {"enable"}}
              /\ high' = high \ {"enable"} => user = "ioctl"
              /\ Succeeds
         ELSE (user' = "none" \/ Succeeds) /\ UNCHANGED high
    /\ UNCHANGED <<fixed, core, objectVars, removing, got, step, powered, count, tree>>

\* A transfer that only stores or reads a value, or is refused.
Transfers ==
    /\ user = "ioctl" /\ step = "idle"
    /\ Succeeds
    /\ UNCHANGED <<fixed, core, objectVars, removing, got, step, supply, tree>>

LockFree == user = "none"

\* Of an object that is removing nothing is done.
SensorCalls ==
    /\ LockFree /\ ~removing /\ ~asleep
    /\ \/ stage = "bound" /\ user' = "store"
       \/ object > 0 /\ files[object] > 0 /\ user' = "ioctl"
    /\ UNCHANGED <<fixed, core, objectVars, removing, got, step, supply, tree>>

------------------------------------------------------------------------------
(* The objects and their files. *)

Takes(o) == refs' = [refs EXCEPT ![o] = @ + 1]

Puts(o) == refs' = [refs EXCEPT ![o] = @ - 1]

\* misc_open holds back misc_deregister, and takes no file of a module that goes.
SensorOpens ==
    /\ driver = "in" /\ ~asleep
    /\ stage \in {"probing", "bound", "leaving"}
    /\ LockFree /\ ~removing
    /\ files[object] < MaxFiles
    /\ files' = [files EXCEPT ![object] = @ + 1]
    /\ Takes(object)
    /\ UNCHANGED <<fixed, core, object, removing, got, user, step, supply, tree>>

SensorCloses(o) ==
    /\ files[o] > 0 /\ ~asleep
    /\ o = object => user # "ioctl"
    /\ files' = [files EXCEPT ![o] = @ - 1]
    /\ Puts(o)
    /\ UNCHANGED <<fixed, core, object, removing, got, user, step, supply, tree>>

\* The device node is there from here on. If it cannot be made, the object is
\* freed again.
ProbeRegisters ==
    /\ driver = "in" /\ ~asleep
    /\ stage = "unbound"
    /\ object < Objects
    /\ object' = object + 1
    /\ Takes(object + 1)
    /\ removing' = FALSE
    /\ stage' = "probing"
    /\ UNCHANGED <<fixed, driver, asleep, files, got, user, step, supply, tree>>

ProbeEnds ==
    /\ stage = "probing"
    /\ stage' = "bound"
    /\ UNCHANGED <<fixed, driver, asleep, objectVars, removing, got, user, step, supply, tree>>

\* The attributes cannot be made; or el721_remove, by hand or with the module.
LeavingBegins ==
    /\ ~asleep
    /\ \/ stage = "probing"
       \/ stage = "bound" /\ driver \in {"in", "unregister", "undriver"}
    /\ LockFree
    /\ stage' = "leaving"
    /\ removing' = TRUE
    /\ SupplyOff
    /\ UNCHANGED <<fixed, driver, asleep, objectVars, got, user, step, tree>>

\* The device node goes, and with the device its handles.
LeavingEnds ==
    /\ stage = "leaving"
    /\ stage' = "unbound"
    /\ Puts(object)
    /\ got' = {}
    /\ UNCHANGED <<fixed, driver, asleep, object, files, removing, user, step, supply, tree>>

SensorShutsDown ==
    /\ stage = "bound" /\ LockFree
    /\ removing' = TRUE
    /\ SupplyOff
    /\ UNCHANGED <<fixed, core, objectVars, got, user, step, tree>>

\* Tasks are frozen before; there is nothing to resume.
SensorSuspends ==
    /\ stage = "bound" /\ driver = "in" /\ ~asleep
    /\ LockFree
    /\ SupplyOff
    /\ asleep' = TRUE
    /\ UNCHANGED <<fixed, driver, stage, objectVars, removing, got, user, step, tree>>

SensorResumes ==
    /\ asleep
    /\ asleep' = FALSE
    /\ UNCHANGED <<fixed, driver, stage, objectVars, removing, got, user, step, supply, tree>>

------------------------------------------------------------------------------
(* The module. What fails in its start is undone at once. *)

ModuleStarts ==
    /\ driver = "out"
    /\ driver' = "in" /\ stage' = "unbound"
    /\ consumer' = IF firmware = "none" THEN "none" ELSE "firmware"
    /\ UNCHANGED <<fixed, asleep, objectVars, removing, got, user, step, supply, rail>>

\* Only a device of the module's own is unregistered before its rail.
ExitBegins ==
    /\ driver = "in" /\ ~asleep
    /\ \A o \in 1 .. Objects : files[o] = 0
    /\ IF firmware = "none"
         THEN driver' = "unregister" /\ consumer' = "none"
         ELSE driver' = "unrail" /\ UNCHANGED consumer
    /\ UNCHANGED <<fixed, stage, asleep, objectVars, removing, got, user, step, supply, rail>>

ExitUnregisters ==
    /\ driver = "unregister"
    /\ stage = "unbound"
    /\ driver' = "unrail" /\ stage' = "absent" /\ consumer' = "none"
    /\ UNCHANGED <<fixed, asleep, objectVars, removing, got, user, step, supply, rail>>

\* Mutant: the rail goes before the device that uses it.
ExitUnrailsFirst ==
    /\ driver \in {"unregister", "unrail"}
    /\ driver' = IF driver = "unrail" THEN "undriver" ELSE driver
    /\ rail' = "none"
    /\ UNCHANGED <<fixed, stage, asleep, objectVars, removing, got, user, step, supply, consumer>>

ExitUnrails ==
    /\ driver = "unrail"
    /\ driver' = "undriver"
    /\ rail' = "none"
    /\ UNCHANGED <<fixed, stage, asleep, objectVars, removing, got, user, step, supply, consumer>>

ExitEnds ==
    /\ driver = "undriver"
    /\ stage \in {"absent", "unbound"}
    /\ driver' = "out" /\ stage' = "absent" /\ consumer' = "none"
    /\ UNCHANGED <<fixed, asleep, objectVars, removing, got, user, step, supply, rail>>

SensorNext ==
    \/ PowersOn \/ PowersOff \/ Resets \/ Transfers \/ SensorCalls
    \/ SensorOpens \/ \E o \in 1 .. Objects : SensorCloses(o)
    \/ ProbeRegisters \/ ProbeEnds \/ LeavingBegins \/ LeavingEnds
    \/ SensorShutsDown \/ SensorSuspends \/ SensorResumes
    \/ ModuleStarts \/ ExitBegins \/ ExitUnregisters \/ ExitUnrails \/ ExitEnds

SensorSpec == SensorInit /\ [][SensorNext]_sensorVars

------------------------------------------------------------------------------
SensorTypeOK ==
    /\ firmware \in {"none", "bare", "supplied"}
    /\ board \in {{"enable"}, {"ldo", "enable"}}
    /\ driver \in {"out", "in", "unregister", "unrail", "undriver"}
    /\ consumer \in {"none", "firmware", "rail"}
    /\ stage \in {"absent", "unbound", "probing", "bound", "leaving"}
    /\ object \in 0 .. Objects
    /\ refs \in [1 .. Objects -> Nat] /\ files \in [1 .. Objects -> 0 .. MaxFiles]
    /\ removing \in BOOLEAN /\ powered \in BOOLEAN /\ asleep \in BOOLEAN
    /\ got \subseteq {"vdd", "dummy", "ldo", "enable"} /\ high \subseteq {"ldo", "enable"}
    /\ user \in {"none", "store", "ioctl"}
    /\ step \in {"idle", "rail", "attach", "reattach", "supply", "lines", "ldo", "line"}
    /\ rail \in {"none", "applied", "device"}
    /\ count \in 0 .. 1

\* A sensor that nobody can switch off any more is off: of a device that was
\* removed, shut down or suspended the supply is not enabled and no line is
\* high, whatever failed before (egis_el721.c, el721_power_on_locked).
SensorQuiet ==
    removing \/ asleep \/ stage \in {"absent", "unbound", "leaving"} =>
        count = 0 /\ high = {}

\* The published rail outlives every handle and every node that refers to it,
\* through failed publications, rebinding and the module's exit
\* (egis_el721.c, el721_publish_rail and el721_exit).
RailKept ==
    /\ "vdd" \in got => rail = "device" \/ firmware = "supplied"
    /\ consumer = "rail" => rail # "none"

\* An object is there as long as its device or a file refers to it, and no
\* longer (egis_el721.c, el721_free).
ObjectKept ==
    \A o \in 1 .. Objects :
        refs[o] = files[o]
                  + IF o = object /\ stage \in {"probing", "bound", "leaving"} THEN 1 ELSE 0
==============================================================================
