SPECIFICATION Spec
CONSTANTS
    Temps = {415, 505}
    BusFails = TRUE
    RestoreFails = FALSE
    Endings = {"suspend", "unload"}
INVARIANTS
    BoostExclusive
    NoOrphanPump
