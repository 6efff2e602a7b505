\* Liveness without servers: Done lines come, the prompt comes back.
SPECIFICATION FairSpec
CONSTANTS
    MaxForks = 3
    MaxStages = 3
    Lines <- MCNoServer
    Failures <- MCNone
PROPERTIES
    EndedJobGetsDone
    PromptReturns
\* Nothing need happen once the pids are used up or the shell has exited.
CHECK_DEADLOCK FALSE
