CONSTANTS
    m1 = m1
    m2 = m2
    Meters = {m1, m2}
    Levels = {0, 1}
    OpenRetries = 2
    MaxGen = 1
    MaxCrashes = 1
SPECIFICATION FairSpec
CHECK_DEADLOCK FALSE
PROPERTY SemaphoreServes
PROPERTY IsRegister
