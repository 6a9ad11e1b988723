SPECIFICATION RelayFairSpec
CONSTANTS
    Sockets = {s1, s2, s3}
    NoSocket = NoSocket
    MaxConnecting = 2
    MaxFinals = 3
INVARIANTS
    FinalsSafe
PROPERTIES
    ClosedSettles
    QueueDrains
CHECK_DEADLOCK FALSE
