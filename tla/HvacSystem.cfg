CONSTANTS
    MaxProcs = 4
    MaxRestarts = 3
    Degree = 100
SPECIFICATION FairSpec
CHECK_DEADLOCK FALSE
INVARIANT TypeOK
INVARIANT NoOrphan
INVARIANT LeavesOnlyHung
INVARIANT StaysNear
INVARIANT WindupDrivesBoth
PROPERTY CallsReturn
