\* One service and one client, one restart, one fault, one move.
SPECIFICATION FairSpec
CONSTANTS
    Service = {1}
    Tunnel = {t1}
    Direction = {up}
    Request = {q1, q2}
    None = None
    Client = {1}
    MaxBuffered = 2
    Chunk = 1
    MaxBytes = 2
    MaxRestarts = 1
    MaxFaults = 1
    MaxMoves = 1
INVARIANTS
    TypeOK
    LedgerCoversCounters
    BilledOnceButForCrashes
PROPERTIES
    TrafficIsAccounted
CHECK_DEADLOCK FALSE
