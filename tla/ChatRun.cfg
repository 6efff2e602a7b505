\* Two clients, one of long and one of short lines, and a send; every limit is reached.
SPECIFICATION FairSpec
CONSTANTS
    MaxConns = 3
    Senders <- MCThird
    Leavers <- MCFirst
    MaxTyped = 2
    LineUnits <- MCLong
    BufUnits = 3
    BufItems = 2
    UpCapacity = 3
    DownCapacity = 2
INVARIANTS
    TypeOK
    
    SameConversation

    
\* The users may stop typing.
CHECK_DEADLOCK FALSE
