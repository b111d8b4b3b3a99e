CONSTANTS
    Conns = {c1}
    Peers = {p1, p2}
    FdLimit = 6
    MaxFds = 7
    Master = Master
    None = None
SPECIFICATION FairSpec
INVARIANTS
    TypeOK
    CallbacksOwnTheirSockets
    RemovalTidy
    AlwaysListening
    OnePingPerPeer
PROPERTIES
    RemovalSparesTheLive
    DeafForGood
    AllPeersFailInTheEnd
    ClientsServed
\* the process may be dead: killed, or by a handler of its own
CHECK_DEADLOCK FALSE
