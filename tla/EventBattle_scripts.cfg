SPECIFICATION Spec
CONSTANTS
    Scripts <- MCScripts
    Players = 2
    MaxDying = 1
    AllTwice = FALSE
INVARIANTS
    TypeOK
    NeverStranded
    PaidOnce
PROPERTIES
    LoopsStop
    EveryBattleEnds
CHECK_DEADLOCK FALSE
