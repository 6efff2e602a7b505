\* Every kind of line, every failure: safety of the job and server state.
SPECIFICATION Spec
CONSTANTS
    MaxForks = 3
    MaxStages = 3
    Lines <- MCAllLines
    Failures <- MCBoth
INVARIANTS
    TypeOK
    ZombieHasReaper
    DoneIsTruthful
    TableExactUnlessRaced
    
    
PROPERTY
    LiveJobStaysListed
\* After "exit", and when every pid is used, nothing need happen any more.
CHECK_DEADLOCK FALSE
