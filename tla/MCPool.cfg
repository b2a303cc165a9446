SPECIFICATION Spec
SYMMETRY MCSymmetry
CONSTANTS
    orderA = orderA  orderB = orderB
    siteA = siteA  siteB = siteB  xpubA = xpubA  xpubB = xpubB
    NoXpub = NoXpub  NoOrder = NoOrder  NoAddress = NoAddress
    Orders <- MCOrders
    Sites <- MCSites
    Xpubs <- MCXpubs
    MaxIndex <- MCIndexes
    Validity = 1
    LateWindow = 1
    Cooldown = 2
    XpubCooldown = 1
CHECK_DEADLOCK FALSE
INVARIANTS TypeOK PoolAddressIsExclusive PayableHoldsRow NoRowLost
PROPERTIES RetiredXpubNotReused
