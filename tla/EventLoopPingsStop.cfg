CONSTANTS
    Conns = {}
    Peers = {p1}
    FdLimit = 6
    MaxFds = 7
    Master = Master
    None = None
SPECIFICATION FairSpec
PROPERTIES
    PingsGoOn
\* the process may be dead: killed, or by a handler of its own
CHECK_DEADLOCK FALSE
