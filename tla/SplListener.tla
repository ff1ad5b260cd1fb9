----------------------------- MODULE SplListener -----------------------------
(***************************************************************************)
(* How a trusted application waits for the secure processor: it calls the  *)
(* listener that the fingerprint daemon has registered                     *)
(* (el721-qtee.c, el721-spl-wire.h), and this polls a device that turns    *)
(* the processor's interrupt into an event (qcom_spss_irq.c).              *)
(*                                                                         *)
(* A poll first puts its caller on the device's queue and asks for the     *)
(* event, sleeps until it is woken or its time is over, and asks again.    *)
(***************************************************************************)
EXTENDS Naturals

CONSTANT Daemons   \* who may open the device

VARIABLES
    pending,     \* spss_irq_pending
    opened,      \* who has the device open, or nobody
    registered,  \* the secure world has its callback
    irq,         \* the handler of the interrupt: "idle" or "wake"
    listener,    \* the listener's call: "idle", "call", "ask", "asleep", "again"
    queued,      \* it is on the queue of the device
    woken,       \* it has been woken since
    late,        \* its time is over
    reply        \* what the application was told last

splVars == <<pending, opened, registered, irq, listener, queued, woken, late, reply>>

SplInit ==
    /\ pending = FALSE /\ opened = "nobody" /\ registered = FALSE /\ irq = "idle"
    /\ listener = "idle" /\ queued = FALSE /\ woken = FALSE /\ late = FALSE
    /\ reply = "none"

------------------------------------------------------------------------------
(* qcom_spss_irq.c *)

IrqSets ==
    /\ irq = "idle"
    /\ pending' = TRUE /\ irq' = "wake"
    /\ UNCHANGED <<opened, registered, listener, queued, woken, late, reply>>

IrqWakes ==
    /\ irq = "wake"
    /\ irq' = "idle" /\ woken' = (woken \/ queued)
    /\ UNCHANGED <<pending, opened, registered, listener, queued, late, reply>>

\* One consumer: a second one is refused.
DeviceOpens(d) ==
    /\ opened = "nobody"
    /\ opened' = d
    /\ UNCHANGED <<pending, registered, irq, listener, queued, woken, late, reply>>

\* The secure world lets go of the callback, or its process ends.
DeviceCloses ==
    /\ opened # "nobody" /\ listener = "idle"
    /\ opened' = "nobody" /\ registered' = FALSE
    /\ UNCHANGED <<pending, irq, listener, queued, woken, late, reply>>

\* Mutant: the question comes first, and the caller is not on the queue yet.
PollAsksFirst ==
    /\ listener = "call"
    /\ listener' = IF pending THEN "idle" ELSE "asleep"
    /\ reply' = IF pending THEN "irq" ELSE reply
    /\ pending' = FALSE
    /\ UNCHANGED <<opened, registered, irq, queued, woken, late>>

PollRegisters ==
    /\ listener = "call"
    /\ listener' = "ask" /\ queued' = TRUE
    /\ UNCHANGED <<pending, opened, registered, irq, woken, late, reply>>

\* The event is taken by the poll that sees it.
PollAsks ==
    /\ listener \in {"ask", "again"}
    /\ pending' = FALSE
    /\ \/ /\ pending \/ late
          /\ listener' = "idle" /\ queued' = FALSE /\ woken' = FALSE
          /\ reply' = IF pending THEN "irq" ELSE "timeout"
       \/ /\ ~pending /\ ~late
          /\ listener' = "asleep"
          /\ UNCHANGED <<queued, woken, reply>>
    /\ UNCHANGED <<opened, registered, irq, late>>

PollResumes ==
    /\ listener = "asleep"
    /\ \/ woken /\ woken' = FALSE /\ UNCHANGED late
       \/ ~woken /\ late' = TRUE /\ UNCHANGED woken
    /\ listener' = "again"
    /\ UNCHANGED <<pending, opened, registered, irq, queued, reply>>

\* A signal ends the poll.
PollBreaks ==
    /\ listener = "asleep"
    /\ listener' = "idle" /\ queued' = FALSE /\ woken' = FALSE
    /\ reply' = "io_error"
    /\ UNCHANGED <<pending, opened, registered, irq, late>>

------------------------------------------------------------------------------
(* el721_spl_dispatch and spl_wait_diagnostic *)

\* The service, the shared buffer, the callback and its registration, after the
\* device: whatever fails closes the device again.
ListenerRegisters ==
    /\ opened # "nobody" /\ ~registered
    /\ \/ registered' = TRUE /\ UNCHANGED opened
       \/ opened' = "nobody" /\ UNCHANGED registered
    /\ UNCHANGED <<pending, irq, listener, queued, woken, late, reply>>

\* A wait has a bound of five seconds whatever the application asks for; any
\* other command is answered as unknown, without waiting.
SplWaits ==
    /\ registered /\ listener = "idle"
    /\ listener' = "call" /\ late' = FALSE /\ woken' = FALSE
    /\ UNCHANGED <<pending, opened, registered, irq, queued, reply>>

SplUnknown ==
    /\ registered /\ listener = "idle"
    /\ reply' = "unknown"
    /\ UNCHANGED <<pending, opened, registered, irq, listener, queued, woken, late>>

SplNext ==
    \/ IrqSets \/ IrqWakes
    \/ \E d \in Daemons : DeviceOpens(d)
    \/ DeviceCloses
    \/ PollRegisters \/ PollAsks \/ PollResumes \/ PollBreaks
    \/ ListenerRegisters \/ SplWaits \/ SplUnknown

SplSpec == SplInit /\ [][SplNext]_splVars

------------------------------------------------------------------------------
SplTypeOK ==
    /\ registered \in BOOLEAN
    /\ pending \in BOOLEAN /\ queued \in BOOLEAN /\ woken \in BOOLEAN /\ late \in BOOLEAN
    /\ opened \in Daemons \cup {"nobody"}
    /\ irq \in {"idle", "wake"}
    /\ listener \in {"idle", "call", "ask", "asleep", "again"}
    /\ reply \in {"none", "irq", "timeout", "io_error", "unknown"}

\* An interrupt is not lost between the question whether there was one and the
\* sleep: whoever sleeps while one is pending has been woken or is about to be
\* (qcom_spss_irq.c:49).
WakeKept ==
    listener = "asleep" /\ pending => woken \/ (irq = "wake" /\ queued)
=============================================================================
