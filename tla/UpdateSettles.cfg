SPECIFICATION Spec
CONSTANTS
    NumParts = 2
    Releases = {r1, r2}
    None = none
    Torn = torn
    MaxTxns = 1
    MaxCrashes = 2
    RestoreMayFail = TRUE
    StatusMayFail = FALSE
INVARIANTS
    RebootWhole
PROPERTIES
    Settled
