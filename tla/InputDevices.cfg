SPECIFICATION Spec
CONSTANTS
    Keys = {k1}
    Pages = 2
    VersionPage = 1
    PowerFails = {"attach"}
    MaxQueue = 2
    MaxFaults = 1
    MaxBoots = 1
    MaxErrors = 1
PROPERTIES
    HereForGood
    NoStuckKey
    UpdateSettled
    PenForgotten
    CoilFollows
