---------------------------- MODULE InputDevices ----------------------------
(***************************************************************************)
(* The tablet's two input devices with threads of their own: the keyboard  *)
(* cover (PogoKeyboard) and the pen's digitizer, over the panel (PenHover) *)
(* and in the garage (PenGarage).  No two of the three share a variable,   *)
(* so a behaviour is one of them running while the others rest.            *)
(***************************************************************************)
EXTENDS PogoKeyboard, PenHover, PenGarage

VARIABLE device

vars == <<device, pogoVars, hoverVars, garageVars>>

TypeOK ==
    /\ device \in {"keyboard", "hover", "garage"}
    /\ PogoTypeOK /\ HoverTypeOK /\ GarageTypeOK

\* The ones that rest are in one of their initial states.
PogoRests == ~line /\ flash = [p \in 1 .. Pages |-> "V37"] /\ drv.version = "none"
HoverRests == ~near /\ ~pdct.in /\ ~wacom.docked
GarageRests == ~silo.in /\ ~pen.docked

Init ==
    /\ PogoInit /\ HoverInit /\ GarageInit
    /\ \/ device = "keyboard" /\ HoverRests /\ GarageRests
       \/ device = "hover" /\ PogoRests /\ GarageRests
       \/ device = "garage" /\ PogoRests /\ HoverRests

Keyboard(step) ==
    device = "keyboard" /\ step /\ UNCHANGED <<device, hoverVars, garageVars>>
Hover(step) ==
    device = "hover" /\ step /\ UNCHANGED <<device, pogoVars, garageVars>>
Garage(step) ==
    device = "garage" /\ step /\ UNCHANGED <<device, pogoVars, hoverVars>>

Next == Keyboard(PogoNext) \/ Hover(HoverNext) \/ Garage(GarageNext)

\* Interrupt threads, timers and work items run when there is reason to, and
\* an update or a write that has begun goes on.
Spec ==
    /\ Init /\ [][Next]_vars
    /\ WF_vars(Keyboard(Connection)) /\ WF_vars(Keyboard(Work))
    /\ WF_vars(Keyboard(DataIrq)) /\ WF_vars(Keyboard(ApplicationWork))
    /\ WF_vars(Keyboard(Update))
    /\ WF_vars(Hover(HoverIrq)) /\ WF_vars(Hover(HoverTimer))
    /\ WF_vars(Garage(GarageDock)) /\ WF_vars(Garage(GarageCharge))
    /\ WF_vars(Garage(GarageReset))
=============================================================================
