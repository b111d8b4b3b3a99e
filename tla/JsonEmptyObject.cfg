CONSTANTS
    o1 = o1
    o2 = o2
    o3 = o3
    Values = {x, y}
    Junk = Junk
    SizeMod = 32
    Objects <- Three
    Bucket <- OwnBucket
    MaxHeld = 1
    HashmapEntries = 3
    Openings <- SomeOpenings
    Leftovers <- SomeLeftovers
    Tokens <- SomeTokens
    Full = 5
    Written <- Serialize
    Read <- Deserialize
    Nodes <- TwoNodes
    Files <- SomeFiles
    Paths = {p1, p2}
    MaxAdded = 3
    MaxKnown = 2
SPECIFICATION Spec
INVARIANTS
    AgreesWithGrammar
\* each part has its bound, and stops where it is undefined
CHECK_DEADLOCK FALSE
