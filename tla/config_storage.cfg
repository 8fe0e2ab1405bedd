SPECIFICATION LiveSpec
CONSTANTS
    l1 = l1
    a1 = a1
    Limits = {l1, l2}
    Angles = {a1, a2}
    DefaultRecord <- Factory
    NoRecord = none
    PassiveWheelMode = TRUE
    QueueCapacity = 1
    PendingCapacity = 1
    PaddleCapacity = 1
    SaveOutcomes = {TRUE, FALSE}
    MaxUpdates = 2
    MaxGestures = 2
    MaxReboots = 1
INVARIANTS
    StorageFollows
    PublishedFollows
PROPERTIES
    AlwaysSettles
