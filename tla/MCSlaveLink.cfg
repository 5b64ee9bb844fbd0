SPECIFICATION FairSpec
CONSTANTS
    Requests <- Commands
    Decks <- TwoDecks
    RxRoom = 3
    TxRoom = 2
    MaxFaults = 1
INVARIANT
    InputBounded
    AnswerRight
    PassedOnOnce
PROPERTY
    AnswerComes
    ListensAgain
