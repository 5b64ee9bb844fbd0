SPECIFICATION FairSpec
CONSTANTS
    MaxPages = 3
    NULL = NULL
    Setups <- PlayOne
    SpeedRequests <- Slow
    Divisor = 2
    MaxSpeed = 6
    Freedoms <- Careful
    Slack = 0
PROPERTY
    QueuedFramePlays
