SPECIFICATION RelaySpec
CONSTANTS
    Sockets = {s1, s2, s3}
    NoSocket = NoSocket
    MaxConnecting = 2
    MaxFinals = 1
INVARIANT Released
CHECK_DEADLOCK FALSE
