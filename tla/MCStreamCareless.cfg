SPECIFICATION Spec
CONSTANTS
    MaxPages = 1
    NULL = NULL
    Setups <- Mixed
    SpeedRequests <- Any
    Divisor = 2
    MaxSpeed = 6
    Freedoms <- Careless
    Slack = 1
INVARIANT
    EndsAgree
