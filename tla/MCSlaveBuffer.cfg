SPECIFICATION FairSpec
CHECK_DEADLOCK FALSE
CONSTANTS
    f1 = f1
    f2 = f2
    Files <- Two
    Size = 3
    Wants <- Some
    Fortunes <- Cases
    MaxPkts = 6
INVARIANT
    InOrderButOneRound
    AtMostTwice
PROPERTY
    ImplementsPacketQueue
    SleeperWakes
