\* Assignments, expansions and pipelines in any order.
SPECIFICATION Spec
CONSTANTS
    MaxStr = 7
    Lines <- MCLines
    MaxLines = 4
INVARIANTS
    ValuesAreFinal
    
    CommandsAreInPlace
    CommandsAreWhole
PROPERTY
    ImplementsEnvironment
\* The shell ends with "exit"; the number of lines is bounded.
CHECK_DEADLOCK FALSE
