CONSTANTS
    a = a
    b = b
    c = c
    d = d
    k = k
    h1 = h1
    h2 = h2
    h3 = h3
    h4 = h4
    h5 = h5
    Nobody = Nobody
    Nodes <- Four
    Hosts <- SomeHosts
    Ports <- SomePorts
    Buckets <- OwnBuckets
    Hash <- OwnHash
    Layouts <- Early
SPECIFICATION OverlapSpec
INVARIANTS
    NoSelf
\* the network comes to rest when everyone has joined, or nobody is left
CHECK_DEADLOCK FALSE
