SPECIFICATION Spec
CONSTANTS
    l1 = l1
    a1 = a1
    Limits = {l1, l2}
    Angles = {a1, a2}
    DefaultRecord <- Factory
    NoRecord = none
    PassiveWheelMode = FALSE
    QueueCapacity = 1
    PendingCapacity = 1
    PaddleCapacity = 1
    SaveOutcomes = {TRUE}
    MaxUpdates = 1
    MaxGestures = 1
    MaxReboots = 0
INVARIANTS
    GestureIsSaved
