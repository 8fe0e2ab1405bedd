SPECIFICATION Spec
CONSTANTS
    F = F
    S = S
    X = X
    nan = nan
    Fast = F
    State = S
    LineFeed = lf
    NotFinite = nan
    Lines <- EveryKindOfLine
    BufferSize = 6
    Interval = 2
    Timeout = 3
    Segments = 3
    HighestRpm = 5
    HighestSpeed = 1
    HighestDelta = 1
    DefaultMaxRpm = 4
    Wrap = 8
    MaxLag = 2
INVARIANTS
    DotIsTrue
    ShownInTime
    ScreenIsCurrent
PROPERTIES
    FastPaced
