\* Three clients, one too many at a time; lines sent and read in pieces; both limits.
SPECIFICATION Spec
CONSTANTS
    MaxConns = 3
    MaxLines = 2
    BufUnits = 4
    MsgUnits = 1
    MaxClients = 1
    Hosts <- MCOneHost
    Whats <- MCText
    Pieces = TRUE
INVARIANTS
    TypeOK
    WatchedAreListed
    NothingLost
\* The clients may stop sending, and the server then waits for ever.
CHECK_DEADLOCK FALSE
