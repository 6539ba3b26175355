CONSTANTS
    h1 = h1
    h2 = h2
    mqtt = mqtt
    analytics = analytics
    tempA = tempA
    occB = occB
    NoThread = NoThread
    Handlers = {h1, h2}
    Subscribers = {mqtt}
    Analysts = {}
    Devices = {tempA, occB}
    Registered = {tempA}
    KindOf <- MCKindOf
    ZoneADevice = tempA
    MaxRetries = 2
    ClosedCheck = {TRUE, FALSE}
    MaxPackets = 2
    MaxOutages = 2
SPECIFICATION Spec
SYMMETRY Symm
INVARIANT TypeOK
INVARIANT LockedSectionsExclusive
INVARIANT ReloadsKeepCache
PROPERTY GaveUpIsFinal
CHECK_DEADLOCK FALSE
