\* Is a second server refused while one runs?
SPECIFICATION Spec
CONSTANTS
    MaxForks = 3
    MaxStages = 2
    Lines <- MCServers
    Failures <- MCNone
INVARIANT
    OneServer
\* Nothing need happen once the pids are used up or the shell has exited.
CHECK_DEADLOCK FALSE
