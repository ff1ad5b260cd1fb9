SPECIFICATION Spec
CONSTANTS
    Channels = {shared}
    Sharable = {shared}
    MaxClients = 2
    Clients = {p1, p2}
    None = none
    MaxSends = 3
    MaxRestarts = 1
\* Nobody need register, and the requests are bounded.
CHECK_DEADLOCK FALSE
INVARIANTS OwnAnswer
PROPERTIES LockComes TransactionEnds
