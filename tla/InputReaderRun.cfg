\* Terminal and pipe, lines around the limit, wc and cat on the input.
SPECIFICATION FairSpec
CONSTANTS
    Limit = 3
    Shapes <- MCShapes
    MaxTyped = 3
INVARIANTS
    TypeOK
    CommandsAreLines
    LineFate
PROPERTIES
    EndsWithInput
    LongLineIsSkipped
\* The shell ends, or nothing more is typed.
CHECK_DEADLOCK FALSE
