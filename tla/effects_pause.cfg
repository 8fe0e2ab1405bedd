SPECIFICATION Spec
CONSTANTS
    constant = constant
    SlotCount = 1
    Types = {constant}
    None = none
    Durations = {1}
    Delays = {1}
    Loops = {1}
    Infinite = 99
    Wrap = 5
    Downloads <- OneDownload
    QueueCapacity = 2
    Revocations = {FALSE}
    MaxLag = 1
    MaxReports = 3
PROPERTIES
    PauseEndsNothing
