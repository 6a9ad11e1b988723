SPECIFICATION Spec
CONSTANTS
    Sessions = {a, b}
    Connections = {r1, r2, r3}
    Nobody = Nobody
    MaxConnections = 1
    MinContainers = 1
    ScaleDownIdleTime = 0
    MaxTime = 1
    MaxCrashes = 1
INVARIANTS
    OneContainer
CHECK_DEADLOCK FALSE
