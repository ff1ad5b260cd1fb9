SPECIFICATION Spec
CONSTANTS
    NumParts = 2
    Releases = {r1, r2}
    None = none
    Torn = torn
    MaxTxns = 2
    MaxCrashes = 2
    RestoreMayFail = TRUE
    StatusMayFail = TRUE
SYMMETRY Symmetry
INVARIANTS
    Recoverable
    CommitMatched
    RolledBack
