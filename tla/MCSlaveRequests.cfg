SPECIFICATION RequestSpec
CHECK_DEADLOCK FALSE
CONSTANTS
    Requests <- Commands
    Decks <- TwoDecks
    RxRoom = 3
    TxRoom = 2
    MaxFaults = 1
INVARIANT
    OneGoodAnswer
