SPECIFICATION Spec
CONSTANTS
    FullScale = 2
    PassiveWheelMode = FALSE
    QueueCapacity = 2
    PendingCapacity = 1
    PaddleCapacity = 1
    IoFailureLimit = 2
    OverrunLimit = 2
    HoldTicks = 2
    DefaultConfig <- NoDrive
    Configs <- OneConfig
    Reports = {"effect", "enable_actuators", "disable_actuators", "replace_config"}
    UsbBegins = {TRUE}
    UsbEvents = {"started", "stopped", "suspend", "resume"}
    Samples <- StillOnly
    PaddleHolds = {FALSE}
    Forces <- Push
    SaveOutcomes = {TRUE}
    TickOverruns = {FALSE}
    MaxEpoch = 3
INVARIANTS
    CoreInvariant
PROPERTIES
    DriveDecisionAuthorised
    ImplementsAuthority
