\* Does a "|" separate commands when it is joined to a word?
SPECIFICATION Spec
CONSTANTS
    MaxStr = 7
    Lines <- MCPipesOnly
    MaxLines = 1
INVARIANT
    SpacesAreNotRequired
\* The number of lines is bounded.
CHECK_DEADLOCK FALSE
