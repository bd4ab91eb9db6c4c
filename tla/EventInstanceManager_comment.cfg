SPECIFICATION Spec
CONSTANTS
    p1 = p1
    p2 = p2
    i1 = i1
    None = None
    MaxClosers = 2
    Player <- TwoPlayers
    Instance <- OneInstance
\* Once every instance was used and forgotten, nothing is left to happen.
CHECK_DEADLOCK FALSE
INVARIANTS
    NoScriptAfterDispose
