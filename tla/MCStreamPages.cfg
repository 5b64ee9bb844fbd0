SPECIFICATION Spec
CONSTANTS
    MaxPages = 3
    NULL = NULL
    Setups <- TwoChannels
    SpeedRequests <- Slow
    Divisor = 2
    MaxSpeed = 6
    Freedoms <- Careful
    Slack = 0
INVARIANTS
    ListIsQueue
    OnePlace
    NoPageLost
    LevelExact
    FramesInStep
PROPERTY
    ImplementsPageFifo
