SPECIFICATION Spec
CONSTANTS
    Sockets = {s1, s2, s3}
    Timers = {t1, t2}
    None = None
    MaxMessages = 3
PROPERTIES
    OwnTimeout
CHECK_DEADLOCK FALSE
