\* Whole lines, two hosts: the server is a relay, and every line is taken.
SPECIFICATION FairSpec
CONSTANTS
    MaxConns = 2
    MaxLines = 3
    BufUnits = 6
    MsgUnits = 4
    MaxClients = 1
    Hosts <- MCTwoHosts
    Whats <- MCAllWhats
    Pieces = FALSE
PROPERTIES
    ImplementsRelay
    EveryLineHandled
\* The clients may stop sending, and the server then waits for ever.
CHECK_DEADLOCK FALSE
