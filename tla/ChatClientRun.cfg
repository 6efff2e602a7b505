\* Both directions: what is typed is sent, what is received is shown, and the end.
SPECIFICATION FairSpec
CONSTANTS
    LineUnits <- MCLongLines
    MaxTyped = 2
    MaxSent = 3
    UserUnits = 3
    BufUnits = 5
    Whats <- MCAllWhats
INVARIANTS
    TypeOK
    SentIsTyped
    
PROPERTIES
    EveryLineShown
    EndsWithServer
    LinesAreSentOrBuffered
\* The client stops when its input ends or the server is gone.
CHECK_DEADLOCK FALSE
