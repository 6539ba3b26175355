CONSTANTS
    MaxConns = 1
    MaxPackets = 2
SPECIFICATION Spec
CHECK_DEADLOCK FALSE
PROPERTY VersionDetected
