SPECIFICATION SpecWithHistory
CONSTANTS
    FullScale = 2
    PassiveWheelMode = FALSE
    QueueCapacity = 2
    PendingCapacity = 1
    PaddleCapacity = 1
    IoFailureLimit = 2
    OverrunLimit = 2
    HoldTicks = 2
    DefaultConfig <- NoDrive
    Configs <- OneConfig
    Reports = {"enable_actuators"}
    UsbBegins = {TRUE}
    UsbEvents = {"started"}
    Samples <- StillOrMoving
    PaddleHolds = {TRUE, FALSE}
    Forces <- Push
    SaveOutcomes = {TRUE}
    TickOverruns = {FALSE}
    MaxEpoch = 2
PROPERTIES
    ArmOnlyWhenStationary
