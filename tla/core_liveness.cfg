SPECIFICATION LiveSpec
CONSTANTS
    FullScale = 2
    PassiveWheelMode = FALSE
    QueueCapacity = 1
    PendingCapacity = 1
    PaddleCapacity = 1
    IoFailureLimit = 2
    OverrunLimit = 2
    HoldTicks = 2
    DefaultConfig <- NoDrive
    Configs <- OneConfig
    Reports = {"effect", "enable_actuators", "disable_actuators", "replace_config"}
    UsbBegins = {TRUE, FALSE}
    UsbEvents = {"started", "stopped"}
    Samples <- StillOnly
    PaddleHolds = {FALSE}
    Forces <- Push
    SaveOutcomes = {TRUE, FALSE}
    TickOverruns = {FALSE}
    MaxEpoch = 2
INVARIANTS
    TasksCanRun
PROPERTIES
    RevocationStopsMotor
    FailureIsLatched
    EnabledWheelArms
