SPECIFICATION Spec
CONSTANTS
    p1 = p1
    p2 = p2
    p3 = p3
    x = x
    y = y
    Player <- ThreePlayers
    Item <- TwoItems
    Owner <- BothOfFirst
    Limit = 2
    MaxListings = 2
    MaxFailures = 1
SYMMETRY Symmetry
\* Nothing need happen once all ids are used.
CHECK_DEADLOCK FALSE
INVARIANTS
    NothingLost
    TypeOK
    NothingDoubled
    SellersAreLoaded
    OwnListingsShown
    SellersPaidUnlessTorn
