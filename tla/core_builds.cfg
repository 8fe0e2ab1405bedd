SPECIFICATION BuildsSpec
CONSTANTS
    FullScale = 2
    PassiveWheelMode = FALSE
    QueueCapacity = 1
    PendingCapacity = 1
    PaddleCapacity = 1
    IoFailureLimit = 2
    OverrunLimit = 2
    HoldTicks = 2
    DefaultConfig <- NoDrive
    Configs <- OneConfig
    Reports = {"enable_actuators", "clear_fault", "reset", "replace_config"}
    UsbBegins = {TRUE}
    UsbEvents = {"started"}
    Samples <- EveryReading
    PaddleHolds = {FALSE}
    Forces <- Push
    SaveOutcomes = {TRUE, FALSE}
    TickOverruns = {TRUE, FALSE}
    MaxEpoch = 2
    PassiveSamples <- StillOrFailed
    PassiveHolds = {TRUE, FALSE}
    PassiveSaves = {TRUE}
    PassiveOverruns = {FALSE}
INVARIANTS
    MotorOffInBothBuilds
PROPERTIES
    FaultOnlyClears
