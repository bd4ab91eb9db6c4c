SPECIFICATION Spec
CONSTANTS
    None = None
    Scripts <- FewScripts
    Own <- TheServers
    Misnamed <- MonsterPark
    Threads <- TwoThreads
INVARIANTS
    TypeOK
    EnginesForgotten
    AnswerReachesAsker
    LockedOutOnlyByKnownCauses
