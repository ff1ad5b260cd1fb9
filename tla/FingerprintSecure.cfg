SPECIFICATION Spec
CONSTANTS
    Others = {"hand"}
    Credentials = {0, 11}
INVARIANTS
    LentPinned
    VaultKept
PROPERTIES
    LossSeen
    StartSettles
