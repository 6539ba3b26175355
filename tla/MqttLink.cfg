CONSTANTS
    Topics <- MCTopics
    Publishers <- MCPublishers
    MaxReadings = 3
    MaxStarts = 2
    MaxFaults = 2
SPECIFICATION FairSpec
INVARIANT TypeOK
INVARIANT BackOncePerLoss
PROPERTY ComesBack
PROPERTY PublishedIsHandled
CHECK_DEADLOCK FALSE
