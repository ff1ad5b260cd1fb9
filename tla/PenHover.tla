------------------------------ MODULE PenHover ------------------------------
(***************************************************************************)
(* The pen over the panel, in the digitizer's driver                       *)
(* (kernel/drivers/samsung_wacom_w90xx.c): the thread of the data          *)
(* interrupt, the timer that takes silence for leaving, and                *)
(* update_digitizer, which the thread of the dock interrupt and the writer *)
(* of disable_digitizer_when_docked call, at the same time if need be.     *)
(*                                                                         *)
(* What of the driver runs under wacom->lock or option_lock is one step,   *)
(* and every other access that another thread can come between.  The timer *)
(* may fire at any time after it was armed, so the reading of a frame,     *)
(* which waits for the bus, may last longer than it.                       *)
(* PenGarage has the garage of the same driver: what it changes, nothing   *)
(* here reads, and of this module it reads only which edges docked follows.*)
(***************************************************************************)
EXTENDS Naturals

VARIABLES
    near,       \* a pen is over the panel
    pdct,       \* the dock detection: [in, edge: an edge of it nobody has seen]
    wacom,      \* struct samsung_wacom: [docked, option, off, range, missed]
    prox,       \* prox_timer: [armed, callback]
    input,      \* what is reported: [tool: BTN_TOOL_PEN, suppress: pen_proximity]
    frame,      \* how far the interrupt thread has come with its frame
    updates,    \* the callers of update_digitizer: [pc, disable]
    crossed     \* history: the pen was taken out of range while its last
                \* frame was on its way

hoverVars == <<near, pdct, wacom, prox, input, frame, updates, crossed>>
outsideDriver == <<near, pdct>>

OutOfRangeFrames == 3
Updaters == {"dock", "option"}

HoverTypeOK ==
    /\ near \in BOOLEAN /\ pdct \in [in : BOOLEAN, edge : BOOLEAN]
    /\ wacom \in [docked : BOOLEAN, option : BOOLEAN, off : BOOLEAN, range : BOOLEAN,
                  missed : 0 .. OutOfRangeFrames]
    /\ prox \in [armed : BOOLEAN, callback : {"none", "leaves", "stays"}]
    /\ input \in [tool : BOOLEAN, suppress : BOOLEAN]
    /\ frame \in {"none", "pen", "armed", "ranged", "near", "leaves"}
    /\ updates \in [Updaters -> [pc : {"idle", "reads", "locks"}, disable : BOOLEAN]]
    /\ crossed \in BOOLEAN

\* samsung_wacom_probe looks at the dock before it asks for its interrupt: a
\* move between the two is not noticed.
HoverInit ==
    /\ near \in BOOLEAN /\ pdct \in [in : BOOLEAN, edge : {FALSE}]
    /\ wacom \in [docked : BOOLEAN, option : {FALSE}, off : {FALSE}, range : {FALSE},
                  missed : {0}]
    /\ prox = [armed |-> FALSE, callback |-> "none"]
    /\ input = [tool |-> FALSE, suppress |-> FALSE]
    /\ frame = "none"
    /\ updates = [u \in Updaters |-> [pc |-> "idle", disable |-> FALSE]]
    /\ crossed = FALSE

PenMoves ==
    /\ near' = ~near
    /\ UNCHANGED <<pdct, wacom, prox, input, frame, updates, crossed>>

PdctMoves ==
    /\ pdct' = [in |-> ~pdct.in, edge |-> TRUE]
    /\ UNCHANGED <<near, wacom, prox, input, frame, updates, crossed>>

------------------------------------------------------------------------------
(* samsung_wacom_irq. *)

\* leave_range and the report of it, by a thread that no other one can delay
\* for longer than its own few stores.
OutOfRange(w) == [w EXCEPT !.range = FALSE, !.missed = 0]
OnItsWay == frame \in {"armed", "ranged", "near"}

\* A frame of a pen in range; of a disabled digitizer it is dropped.
FrameOfPen ==
    /\ near /\ frame = "none" /\ ~wacom.off
    /\ frame' = "pen"
    /\ UNCHANGED <<outsideDriver, wacom, prox, input, updates, crossed>>

\* A frame without a pen, the stray ones included.
FrameOfNone ==
    /\ frame = "none" /\ ~wacom.off
    /\ LET missed == IF wacom.range THEN wacom.missed + 1 ELSE 0 IN
         /\ wacom' = IF wacom.range THEN [wacom EXCEPT !.missed = missed] ELSE wacom
         /\ frame' = IF missed >= OutOfRangeFrames THEN "leaves" ELSE "none"
    /\ UNCHANGED <<outsideDriver, prox, input, updates, crossed>>

FrameLeaves ==
    /\ frame = "leaves"
    /\ frame' = "none"
    /\ wacom' = OutOfRange(wacom)
    /\ prox' = [prox EXCEPT !.armed = FALSE]
    /\ input' = [suppress |-> FALSE, tool |-> input.tool /\ ~wacom.range]
    /\ UNCHANGED <<outsideDriver, updates, crossed>>

FrameArms ==
    /\ frame = "pen"
    /\ frame' = "armed"
    /\ prox' = [prox EXCEPT !.armed = TRUE]
    /\ crossed' = FALSE
    /\ UNCHANGED <<outsideDriver, wacom, input, updates>>

FrameRanges ==
    /\ frame = "armed"
    /\ frame' = "ranged"
    /\ wacom' = [wacom EXCEPT !.range = TRUE, !.missed = 0]
    /\ UNCHANGED <<outsideDriver, prox, input, updates, crossed>>

\* The rate is asked for again after this, on the transition: a command on the
\* bus, whatever it answers.
FrameSuppresses ==
    /\ frame = "ranged"
    /\ frame' = "near"
    /\ input' = [input EXCEPT !.suppress = TRUE]
    /\ UNCHANGED <<outsideDriver, wacom, prox, updates, crossed>>

FrameReports ==
    /\ frame = "near"
    /\ frame' = "none"
    /\ input' = [input EXCEPT !.tool = TRUE]
    /\ UNCHANGED <<outsideDriver, wacom, prox, updates, crossed>>

------------------------------------------------------------------------------
(* samsung_wacom_prox_timeout. *)

TimeoutLeaves ==
    /\ prox.armed /\ prox.callback = "none"
    /\ prox' = [armed |-> FALSE, callback |-> IF wacom.range THEN "leaves" ELSE "stays"]
    /\ wacom' = OutOfRange(wacom)
    /\ crossed' = (crossed \/ OnItsWay)
    /\ UNCHANGED <<outsideDriver, input, frame, updates>>

\* Mutant: the touch stays suppressed when silence takes the pen away.
TimeoutForgetsTouch ==
    /\ prox.callback # "none"
    /\ prox' = [prox EXCEPT !.callback = "none"]
    /\ input' = [input EXCEPT !.tool = @ /\ prox.callback # "leaves"]
    /\ UNCHANGED <<outsideDriver, wacom, frame, updates, crossed>>

TimeoutReports ==
    /\ prox.callback # "none"
    /\ prox' = [prox EXCEPT !.callback = "none"]
    /\ input' = [suppress |-> FALSE, tool |-> input.tool /\ prox.callback # "leaves"]
    /\ UNCHANGED <<outsideDriver, wacom, frame, updates, crossed>>

------------------------------------------------------------------------------
(* samsung_wacom_update_digitizer and its callers. *)

Idle == [pc |-> "idle", disable |-> FALSE]
Calls(u) == updates' = [updates EXCEPT ![u].pc = "reads"]
Returns(u) == updates' = [updates EXCEPT ![u] = Idle]

\* samsung_wacom_pdct_irq.
PdctIrq ==
    /\ pdct.edge /\ updates["dock"].pc = "idle"
    /\ pdct' = [pdct EXCEPT !.edge = FALSE]
    /\ \/ /\ pdct.in # wacom.docked
          /\ wacom' = [wacom EXCEPT !.docked = pdct.in]
          /\ Calls("dock")
       \/ pdct.in = wacom.docked /\ UNCHANGED <<wacom, updates>>
    /\ UNCHANGED <<near, prox, input, frame, crossed>>

\* disable_digitizer_when_docked_store.
OptionStore ==
    /\ updates["option"].pc = "idle"
    /\ \E enabled \in BOOLEAN : wacom' = [wacom EXCEPT !.option = enabled]
    /\ Calls("option")
    /\ UNCHANGED <<outsideDriver, prox, input, frame, crossed>>

\* Before the lock: what it then does may be out of date.
UpdateReads(u) ==
    /\ updates[u].pc = "reads"
    /\ updates' = [updates EXCEPT ![u] = [pc |-> "locks",
                                          disable |-> wacom.option /\ wacom.docked]]
    /\ UNCHANGED <<outsideDriver, wacom, prox, input, frame, crossed>>

UpdateKeeps(u) ==
    /\ updates[u].pc = "locks"
    /\ updates[u].disable = wacom.off
    /\ Returns(u)
    /\ UNCHANGED <<outsideDriver, wacom, prox, input, frame, crossed>>

\* timer_delete_sync waits for the callback.
UpdateDisables(u) ==
    /\ updates[u].pc = "locks"
    /\ updates[u].disable /\ ~wacom.off
    /\ prox.callback = "none"
    /\ Returns(u)
    /\ prox' = [prox EXCEPT !.armed = FALSE]
    /\ wacom' = [OutOfRange(wacom) EXCEPT !.off = TRUE]
    /\ input' = [suppress |-> FALSE, tool |-> input.tool /\ ~wacom.range]
    /\ crossed' = (crossed \/ OnItsWay)
    /\ UNCHANGED <<outsideDriver, frame>>

UpdateEnables(u) ==
    /\ updates[u].pc = "locks"
    /\ ~updates[u].disable /\ wacom.off
    /\ Returns(u)
    /\ wacom' = [wacom EXCEPT !.off = FALSE]
    /\ UNCHANGED <<outsideDriver, prox, input, frame, crossed>>

------------------------------------------------------------------------------
HoverIrq == \/ FrameOfPen \/ FrameLeaves \/ FrameArms \/ FrameRanges \/ FrameSuppresses
            \/ FrameReports
HoverTimer == TimeoutLeaves \/ TimeoutReports
HoverUpdate == \E u \in Updaters : \/ UpdateReads(u) \/ UpdateKeeps(u)
                                   \/ UpdateDisables(u) \/ UpdateEnables(u)

HoverNext == \/ PenMoves \/ PdctMoves \/ FrameOfNone \/ HoverIrq \/ HoverTimer
             \/ PdctIrq \/ OptionStore \/ HoverUpdate

------------------------------------------------------------------------------
\* A pen that has gone is not reported for ever, and does not go on keeping the
\* finger from the panel, although the controller may fall silent without
\* having said so (samsung_wacom_w90xx.c:78) -- unless it was taken out of
\* range while its last frame was on its way, whose report then comes later.
PenForgotten ==
    <>[]~near => <>[](crossed \/ (~input.tool /\ ~input.suppress))
=============================================================================
