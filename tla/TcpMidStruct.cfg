CONSTANTS
    Clients = {c1, c2, c3}
    Silent = {}
    Backlog = 2
    MaxQuestions = 2
    None = None
SPECIFICATION Spec
PROPERTIES
    ClosedOnRequestOnly
\* the clients go, and the server waits at select
CHECK_DEADLOCK FALSE
