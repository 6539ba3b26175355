CONSTANTS
    Size = 3
    MaxPackets = 3
    MaxConns = 3
    MaxFaults = 3
SPECIFICATION FairSpec
CHECK_DEADLOCK FALSE
INVARIANT TypeOK
INVARIANT EveryByteOnce
INVARIANT InStepIffWhole
PROPERTY IsChannel
PROPERTY ForwardedOrFailed
