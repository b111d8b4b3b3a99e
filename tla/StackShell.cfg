CONSTANTS
    Lines <- MCLines
    Values = {1, 2}
    StackMax = 2
    PipeCap = 2
    MaxInput = 4
    None = None
    Junk = Junk
SPECIFICATION FairSpec
INVARIANTS
    TypeOK
    InOrder
    StackIsReplay
PROPERTIES
    EndSaturates
\* the parent may block for good on a full pipe that nobody reads
CHECK_DEADLOCK FALSE
