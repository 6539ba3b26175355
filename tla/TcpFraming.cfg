CONSTANTS
    MaxConns = 2
    MaxPackets = 3
SPECIFICATION FairSpec
CHECK_DEADLOCK FALSE
INVARIANT TypeOK
INVARIANT WholeUntilMisread
PROPERTY NeverRealigns
PROPERTY IsChannel
PROPERTY ArrivedIsPassedOn
