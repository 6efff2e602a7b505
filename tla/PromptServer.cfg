\* Does the prompt come back after a pipeline while a server runs?
SPECIFICATION FairSpec
CONSTANTS
    MaxForks = 3
    MaxStages = 2
    Lines <- MCPipelineAndServer
    Failures <- MCNone
PROPERTY
    PromptReturns
\* Nothing need happen once the pids are used up or the shell has exited.
CHECK_DEADLOCK FALSE
