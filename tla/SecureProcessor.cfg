SPECIFICATION Spec
CONSTANTS
    MaxBoots = 2
    MaxPower = 2
    Length = 8
    Messages <- MCMessages
    Pages = {p1, p2, p3}
    MaxPages = 2
    MaxVmaps = 2
    Daemons = {d1, d2}
    Objects = 2
    MaxFiles = 2
INVARIANTS
    PowerUpTrue
    PoolPrivate
    WakeKept
    SensorQuiet
    RailKept
PROPERTIES
    KeepsOrder
CHECK_DEADLOCK FALSE
