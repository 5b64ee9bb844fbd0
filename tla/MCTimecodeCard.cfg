SPECIFICATION OneSpec
CONSTANTS
    p1 = p1
    p2 = p2
    c1 = c1
    c2 = c2
    Cards <- TwoCards
    PCIe <- OnePCIe
    Slots = {0, 1, 2}
    Test = Test
    Nobody = Nobody
    Callers <- Two
    Rates <- SomeRates
    Codes = {1}
    Wrap = 2
    MaxNow = 2
    ReadTries = 2
    Freedoms = {"bus", "slow"}
SYMMETRY Either
INVARIANTS
    OneReading
    SuccessTookEffect
    MappedWhileUsed
    DevicesLeaveNothing
    DevicesUsedLive
