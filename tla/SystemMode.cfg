CONSTANTS
    d1 = d1
    d2 = d2
    Dashboards = {d1, d2}
    Slots <- MCSlots
    MaxSwitches = 3
    MaxTroubles = 1
SPECIFICATION FairSpec
INVARIANT TypeOK
INVARIANT AgreeUnlessDisturbed
INVARIANT ButtonsWaitForSwitch
PROPERTY EventuallyShown
