SPECIFICATION Spec
CONSTANTS
    Temps = {415, 505}
    BusFails = FALSE
    RestoreFails = FALSE
    Endings = {}
PROPERTIES
    ChargingResumes
    PumpCools
