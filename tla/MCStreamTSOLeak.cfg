SPECIFICATION Spec
CONSTANTS
    MaxPages = 3
    NULL = NULL
    Setups <- PlayOne
    SpeedRequests <- Fast
    Divisor = 2
    MaxSpeed = 6
    Freedoms <- Careful
    Slack = 0
INVARIANT
    NoPageLost
