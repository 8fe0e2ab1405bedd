SPECIFICATION BlockSpec
CONSTANTS
    One = 7
    QuarterSine <- QuarterOfSeven
    SineSteps = 4
    Endless = 99
    ShapedEffects <- EveryEffect
    Motions <- SomeMotions
    LoopCount = 2
    MaxPlayed = 8
    FullScale = 4
    Configs <- ThreeConfigs
    Forces <- SomeForces
    Capacity = 4
    Values = {v1, v2}
    Nothing = nothing
    FieldCount = 3
    MaxPublications = 4
    StateBytes = {b1, b2}
    NeverSent = none
    Refresh = 4
    Pace = 2
    ClockWrap = 7
    MaxPass = 1
CHECK_DEADLOCK FALSE
INVARIANTS
    ForceFaithful
    WavesMirror
    PopCanRun
    HostIsTold
    SteeringKeepsUp
PROPERTIES
    AttackThenFade
    RampSweeps
    ImplementsHBridge
    DutyConvergesToLimit
    ForceSettles
    ImplementsFifo
    EntryIsReceived
    ImplementsRegister
    SnapshotReturns
