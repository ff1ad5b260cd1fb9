\* The app, the job and Ubuntu's page, anything may fail, one write torn.
SPECIFICATION Spec
CONSTANTS
    NumParts = 3
    Androids = {a1, a2}
    Linuxes = {l1, l2}
    Torns = {t1, t2}
    None = None
    Partial = Partial
    Actors <- AppJobPage
    StepsFail = TRUE
    TornKernel = TRUE
    MaxTears = 1
    ReplayFails = TRUE
    MaxCrashes = 1
    MaxBoots = 3
    MaxOtas = 1
    MaxUpdates = 1
SYMMETRY Symmetry
INVARIANTS
    BackupReachable
    LinuxNeverBackup
    AndroidKept

    
