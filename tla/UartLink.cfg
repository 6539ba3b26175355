CONSTANTS
    Capacity = 46
    OpenTries = 2
    MaxPackets = 3
    MaxSensors = 3
SPECIFICATION FairSpec
CHECK_DEADLOCK FALSE
INVARIANT TypeOK
INVARIANT LossIsExplained
PROPERTY IsChannel
PROPERTY PendingIsRead
PROPERTY FindsFifo
