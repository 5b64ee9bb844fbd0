SPECIFICATION Spec
CONSTANTS
    p1 = p1
    p2 = p2
    Procs <- Two
    NoOne = NoOne
    MaxId = 3
    MaxLead = 2
SYMMETRY Either
INVARIANT
    TriggerAhead
    FollowStream
    NoOrphan
    SleepersUpToDate
