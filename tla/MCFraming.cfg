CONSTANTS
    Conns <- TwoConns
    SIZE = 3
    CAPACITY = 4
    MaxMessages = 2
SPECIFICATION FairSpec
CHECK_DEADLOCK FALSE
INVARIANT TypeOK
PROPERTY ImplementsMailbox
PROPERTY WholeMessagesServed
