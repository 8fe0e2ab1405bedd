SPECIFICATION Spec
CONSTANTS
    shift_up = shift_up
    shift_down = shift_down
    One = 3
    Turn = 6
    QuarterSine <- StraightSine
    SineSteps = 1
    Endless = 99
    Buttons = {shift_up, shift_down}
    Paddles = {shift_up, shift_down}
    DebounceTicks = 2
    Plausible = 1
    FailureLimit = 2
    HoldTicks = 2
    Configs <- BothDirections
    Presses <- SomePresses
    Springs <- SomeSprings
    MaxStep = 2
    MaxTravel = 5
    MaxCounts = 8
INVARIANTS
    PositionCongruent
    PositionTracks
    SteadyShows
PROPERTIES
    SpringHolds
    GestureNeedsHold
