SPECIFICATION Spec
CONSTANTS
    p1 = p1
    p2 = p2
    x = x
    y = y
    Player <- TwoPlayers
    Good = {x}
    Item = {x}
    Owner <- Dealt
    MaxTrades = 4
\* Nothing need happen once all trades are used.
CHECK_DEADLOCK FALSE
INVARIANTS
    TypeOK
PROPERTIES
    OffersStayAsConfirmed
