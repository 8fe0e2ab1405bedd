SPECIFICATION LiveSpec
CONSTANTS
    constant = constant
    SlotCount = 2
    Types = {constant}
    None = none
    Durations = {1}
    Delays = {1}
    Loops = {2}
    Infinite = 99
    Wrap = 6
    Downloads <- OneDownload
    QueueCapacity = 2
    Revocations = {FALSE, TRUE}
    MaxLag = 2
    MaxReports = 3
INVARIANTS
    TablesAgree
    ClockInvariant
PROPERTIES
    AnswersAgree
    PlaysItsTime
    FiniteEffectsEnd
