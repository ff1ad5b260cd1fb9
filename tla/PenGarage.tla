----------------------------- MODULE PenGarage -----------------------------
(***************************************************************************)
(* The pen in its garage, in the digitizer's driver                        *)
(* (kernel/drivers/samsung_wacom_w90xx.c): the thread of the dock          *)
(* interrupt, charge_work, and the writer of pen_ble_reset.  No lock       *)
(* orders them: each access another thread can come between is a step, and *)
(* a delay of the work item is any.  What is only shown (charge_status,    *)
(* garage_direction, and the garage answers they come from) is left out.   *)
(*                                                                         *)
(* Of the controller: a charging pattern it accepts switches the coil of   *)
(* the garage on, KEEP_OFF switches it off, and KEEP_ON leaves it.         *)
(* Bound: MaxErrors commands fail.                                         *)
(***************************************************************************)
EXTENDS Naturals

CONSTANT MaxErrors

ASSUME PenAssumption == MaxErrors \in Nat

VARIABLES
    silo,       \* the dock detection: [in, edge: an edge of it nobody has seen]
    pen,        \* struct samsung_wacom: [docked, stage]
    charge,     \* charge_work: [queued, pc]
    docking,    \* the thread of the dock interrupt has charge_work to queue
    reset,      \* pen_ble_reset_store
    coil,       \* what the controller was told
    refused,    \* history: the last KEEP_OFF failed, or nobody saw it was due
    overtaken,  \* history: the pen was docked or taken out under a reset of its
                \* bond, under the work item such a reset had misled, or unseen
    errors

garageVars == <<silo, pen, charge, docking, reset, coil, refused, overtaken, errors>>

GarageTypeOK ==
    /\ silo \in [in : BOOLEAN, edge : BOOLEAN]
    /\ pen \in [docked : BOOLEAN, stage : 0 .. 2]
    /\ charge \in [queued : BOOLEAN,
                   pc : {"idle", "away", "docked", "enabled", "started", "kept"}]
    /\ docking \in BOOLEAN
    /\ reset \in {"none", "checked", "waits", "cancelled", "done"}
    /\ coil \in {"on", "off"}
    /\ refused \in BOOLEAN /\ overtaken \in BOOLEAN /\ errors \in 0 .. MaxErrors

\* samsung_wacom_probe; a move of the pen between its look at the dock and the
\* interrupt is not noticed.
GarageInit ==
    /\ silo \in [in : BOOLEAN, edge : {FALSE}]
    /\ pen \in [docked : BOOLEAN, stage : {0}]
    /\ charge = [queued |-> pen.docked, pc |-> "idle"]
    /\ docking = FALSE /\ reset = "none"
    /\ coil = "off" /\ errors = 0
    /\ refused = (pen.docked /\ ~silo.in) /\ overtaken = (silo.in /\ ~pen.docked)

SiloMoves ==
    /\ silo' = [in |-> ~silo.in, edge |-> TRUE]
    /\ UNCHANGED <<pen, charge, docking, reset, coil, refused, overtaken, errors>>

Fault == errors < MaxErrors /\ errors' = errors + 1

\* mod_delayed_work, which does nothing while cancel_delayed_work_sync waits.
Queued(c) == [c EXCEPT !.queued = reset # "waits"]

------------------------------------------------------------------------------
(* samsung_wacom_pdct_irq. *)

PenDocks ==
    /\ silo.edge /\ ~docking
    /\ silo' = [silo EXCEPT !.edge = FALSE]
    /\ \/ /\ silo.in # pen.docked
          /\ pen' = [docked |-> silo.in, stage |-> 0]
          /\ docking' = TRUE
          /\ overtaken' = (reset # "none" \/ (overtaken /\ charge.pc # "idle"))
       \/ silo.in = pen.docked /\ UNCHANGED <<pen, docking, overtaken>>
    /\ UNCHANGED <<charge, reset, coil, refused, errors>>

\* After update_digitizer and notify_garage.
PenDocked ==
    /\ docking
    /\ docking' = FALSE
    /\ charge' = Queued(charge)
    /\ UNCHANGED <<silo, pen, reset, coil, refused, overtaken, errors>>

------------------------------------------------------------------------------
(* samsung_wacom_charge_work. *)

ChargeRuns ==
    /\ charge.queued /\ charge.pc = "idle"
    /\ charge' = [queued |-> FALSE, pc |-> IF pen.docked THEN "docked" ELSE "away"]
    /\ UNCHANGED <<silo, pen, docking, reset, coil, refused, overtaken, errors>>

Finished == [charge EXCEPT !.pc = "idle"]
Again == Queued(Finished)

\* A KEEP_OFF that fails is not repeated.
ChargeStops ==
    /\ charge.pc = "away"
    /\ charge' = Finished
    /\ pen' = [pen EXCEPT !.stage = 0]
    /\ \/ coil' = "off" /\ refused' = FALSE /\ UNCHANGED errors
       \/ Fault /\ refused' = TRUE /\ UNCHANGED coil
    /\ UNCHANGED <<silo, docking, reset, overtaken>>

ChargeEnables ==
    /\ charge.pc = "docked" /\ pen.stage = 0
    /\ \/ charge' = [charge EXCEPT !.pc = "enabled"] /\ UNCHANGED errors
       \/ Fault /\ charge' = Again
    /\ UNCHANGED <<silo, pen, docking, reset, coil, refused, overtaken>>

ChargeStarts ==
    /\ charge.pc = "enabled"
    /\ \/ coil' = "on" /\ charge' = [charge EXCEPT !.pc = "started"] /\ UNCHANGED errors
       \/ Fault /\ charge' = Again /\ UNCHANGED coil
    /\ UNCHANGED <<silo, pen, docking, reset, refused, overtaken>>

ChargeStarted ==
    /\ charge.pc = "started"
    /\ pen' = [pen EXCEPT !.stage = 1]
    /\ charge' = Again
    /\ UNCHANGED <<silo, docking, reset, coil, refused, overtaken, errors>>

ChargeKeeps ==
    /\ charge.pc = "docked" /\ pen.stage = 1
    /\ \/ charge' = [charge EXCEPT !.pc = "kept"] /\ UNCHANGED errors
       \/ Fault /\ charge' = Again
    /\ UNCHANGED <<silo, pen, docking, reset, coil, refused, overtaken>>

\* The garage is asked for its state, whatever becomes of the command.
ChargeAsks ==
    /\ charge.pc = "kept" \/ (charge.pc = "docked" /\ pen.stage = 2)
    /\ pen' = [pen EXCEPT !.stage = 2]
    /\ charge' = Again
    /\ UNCHANGED <<silo, docking, reset, coil, refused, overtaken, errors>>

------------------------------------------------------------------------------
(* pen_ble_reset_store. *)

ResetChecks ==
    /\ reset = "none" /\ pen.docked
    /\ reset' = "checked"
    /\ UNCHANGED <<silo, pen, charge, docking, coil, refused, overtaken, errors>>

ResetCancels ==
    /\ reset = "checked"
    /\ reset' = "waits"
    /\ charge' = [charge EXCEPT !.queued = FALSE]
    /\ UNCHANGED <<silo, pen, docking, coil, refused, overtaken, errors>>

ResetCancelled ==
    /\ reset = "waits" /\ charge.pc = "idle"
    /\ reset' = "cancelled"
    /\ UNCHANGED <<silo, pen, charge, docking, coil, refused, overtaken, errors>>

\* Mutant: a reset that fails leaves the work item cancelled.
ResetFailsQuietly ==
    /\ reset = "cancelled"
    /\ \/ coil' = "on" /\ reset' = "done" /\ UNCHANGED <<charge, errors>>
       \/ Fault /\ reset' = "none" /\ UNCHANGED <<charge, coil>>
    /\ UNCHANGED <<silo, pen, docking, refused, overtaken>>

ResetSends ==
    /\ reset = "cancelled"
    /\ \/ coil' = "on" /\ reset' = "done" /\ UNCHANGED <<charge, errors>>
       \/ Fault /\ reset' = "none" /\ charge' = Queued(charge) /\ UNCHANGED coil
    /\ UNCHANGED <<silo, pen, docking, refused, overtaken>>

ResetEnds ==
    /\ reset = "done"
    /\ reset' = "none"
    /\ pen' = [pen EXCEPT !.stage = 1]
    /\ charge' = Queued(charge)
    /\ UNCHANGED <<silo, docking, coil, refused, overtaken, errors>>

------------------------------------------------------------------------------
GarageDock == PenDocks \/ PenDocked
GarageCharge == \/ ChargeRuns \/ ChargeStops \/ ChargeEnables \/ ChargeStarts
                \/ ChargeStarted \/ ChargeKeeps \/ ChargeAsks
GarageReset == ResetCancels \/ ResetCancelled \/ ResetSends \/ ResetEnds

GarageNext == \/ SiloMoves \/ GarageDock \/ GarageCharge \/ ResetChecks \/ GarageReset

------------------------------------------------------------------------------
\* The garage charges a pen that stays in it and is switched off when the pen
\* stays away, whatever bounces and failures came before -- except that a
\* KEEP_OFF that failed is not repeated, that a pen put in under a reset of its
\* bond may be taken for one that charges, and that a move of the pen while the
\* driver was being probed, and none since, is not noticed.
CoilFollows ==
    /\ <>[]silo.in => <>[](coil = "on" \/ overtaken)
    /\ <>[]~silo.in => <>[](coil = "off" \/ refused)
=============================================================================
