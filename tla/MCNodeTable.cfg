CONSTANTS
    n1 = n1
    n2 = n2
    n3 = n3
    a1 = a1
    a2 = a2
    Names <- MCNames
    Addrs <- MCAddrs
    Buckets <- MCBuckets
    Hash <- MCHash
    NoNode = NoNode
    NoName = NoName
    MaxEntries = 4
SPECIFICATION Spec
INVARIANTS
    TypeOK
    HeadsOnly
    PingedWaits
PROPERTIES
    EvictedForGood
    FailedForGood
    ImplementsDirectory
