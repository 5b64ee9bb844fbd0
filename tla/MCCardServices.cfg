SPECIFICATION Spec
CONSTANTS
    p = p
    q = q
    c = c
    d = d
    Procs <- Two
    Admins <- JustP
    Handler = Handler
    Nobody = Nobody
    Arrivals = {6}
    Ids = {1}
    Sleepers <- JustP
    Types = {2, 3}
    NewField = 2
    Frame = 1
    MaxIrqs = 3
    MaxAdd = 5
    Cards <- TwoCards
    Slots = {1}
    MaxCards = 2
    Freedoms = {"early", "lists", "together", "late", "unbind", "deck"}
SYMMETRY Either
CHECK_DEADLOCK FALSE
INVARIANT
    EnablesAsAsked
    LoadsCleanly
    NextInterruptWakes
    NoFrameMissed
    PlaysWhatWasAdded
    CardsLeaveNothing
    CardsUsedLive
    NumbersDistinct
PROPERTY
    EnginesOwnTheirBits
