CONSTANTS
    c1 = c1
    c2 = c2
    c3 = c3
    Clients <- Three
    Networks <- Both
    Workers = {w1, w2}
    MaxQuestions = 2
    None = None
SPECIFICATION FairSpec
INVARIANTS
    TypeOK
    OneCopyInStep
PROPERTIES
    Answered
    LostForGood
\* the clients stop asking or wait for good, and the server may end
CHECK_DEADLOCK FALSE
