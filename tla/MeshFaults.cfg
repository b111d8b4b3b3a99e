CONSTANTS
    a = a
    b = b
    c = c
    d = d
    k = k
    h1 = h1
    h2 = h2
    h3 = h3
    h4 = h4
    h5 = h5
    Nobody = Nobody
    Nodes <- Five
    Hosts <- SomeHosts
    Ports <- SomePorts
    Buckets <- OwnBuckets
    Hash <- OwnHash
    Layouts <- Faulty
SPECIFICATION OverlapSpec
INVARIANTS
    TablesTrue
    TrueUntilOverlap
PROPERTIES
    EndsUntilOverlap
\* the network comes to rest when everyone has joined, or nobody is left
CHECK_DEADLOCK FALSE
