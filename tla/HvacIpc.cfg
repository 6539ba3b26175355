CONSTANTS
    m1 = m1
    m2 = m2
    Meters = {m1, m2}
    Levels = {0, 1, 2}
    OpenRetries = 1
    MaxGen = 2
    MaxCrashes = 1
SPECIFICATION Spec
CHECK_DEADLOCK FALSE
SYMMETRY Symm
INVARIANT TypeOK
INVARIANT OneInside
INVARIANT WholeCommands
PROPERTY DetachedIsFrozen
