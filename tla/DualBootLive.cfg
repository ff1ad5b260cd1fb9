\* The tile, the job and Ubuntu when only the power fails.
SPECIFICATION LiveSpec
CONSTANTS
    NumParts = 2
    Androids = {a1, a2}
    Linuxes = {l1, l2}
    Torns = {t1, t2}
    None = None
    Partial = Partial
    Actors <- TileJobPages
    StepsFail = FALSE
    TornKernel = TRUE
    MaxTears = 1
    ReplayFails = FALSE
    MaxCrashes = 1
    MaxBoots = 4
    MaxOtas = 1
    MaxUpdates = 1
PROPERTIES
    BackupReturns
    BackupFollows
