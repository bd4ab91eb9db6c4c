SPECIFICATION FairSpec
CONSTANTS
    t1 = t1
    t2 = t2
    id1 = id1
    id2 = id2
    m1 = m1
    m2 = m2
    m3 = m3
    None = None
    Thread <- TwoThreads
    MapId <- TwoIds
    Map <- ThreeMaps
INVARIANTS
    TypeOK
    RegisteredAlive
PROPERTIES
    ImplementsRegistry
    EveryCallReturns
