CONSTANTS
    Clients = {c1, c2, c3}
    Silent = {c3}
    Backlog = 2
    MaxQuestions = 2
    None = None
SPECIFICATION FairSpec
INVARIANTS
    TypeOK
    AnswersInOrder
PROPERTIES
    SurvivesItsClients
    EveryoneIsAccepted
\* the clients go, and the server waits at select
CHECK_DEADLOCK FALSE
