SPECIFICATION FairSpec
CONSTANTS
    Sockets = {s1, s2, s3}
    Timers = {t1, t2}
    None = None
    MaxMessages = 3
INVARIANTS
    OneAttempt
    RelaySafe
PROPERTIES
    ClosedSettles
    QueueDrains
CHECK_DEADLOCK FALSE
