\* Does a long line leave the others alone?
SPECIFICATION FairSpec
CONSTANTS
    MaxConns = 3
    Senders <- MCThird
    Leavers <- MCFirst
    MaxTyped = 2
    LineUnits <- MCLong
    BufUnits = 3
    BufItems = 2
    UpCapacity = 3
    DownCapacity = 2
PROPERTIES
    NobodyStalls
\* The users may stop typing.
CHECK_DEADLOCK FALSE
