CONSTANTS
    h1 = h1
    h2 = h2
    mqtt = mqtt
    analytics = analytics
    tempA = tempA
    occB = occB
    NoThread = NoThread
    Handlers = {h1}
    Subscribers = {}
    Analysts = {analytics}
    Devices = {tempA, occB}
    Registered = {tempA}
    KindOf <- MCKindOf
    ZoneADevice = tempA
    MaxRetries = 2
    ClosedCheck = {TRUE, FALSE}
    MaxPackets = 2
    MaxOutages = 2
SPECIFICATION FairSpec
CHECK_DEADLOCK FALSE
PROPERTY LockReleased
