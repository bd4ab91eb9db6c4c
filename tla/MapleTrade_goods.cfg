SPECIFICATION Spec
CONSTANTS
    p1 = p1
    p2 = p2
    x = x
    y = y
    Player <- TwoPlayers
    Good <- TwoGoods
    Item = {x}
    Owner <- Dealt
    MaxTrades = 5
\* Nothing need happen once all trades are used.
CHECK_DEADLOCK FALSE
INVARIANTS
    NothingDoubled
    NothingLost
\* What follows a trade settled twice is not followed.
CONSTRAINT Orderly
