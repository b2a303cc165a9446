SPECIFICATION Spec
CONSTANTS
    o1 = o1  o2 = o2  t1 = t1  t2 = t2  h1 = h1  h2 = h2
    usdt = usdt  usdc = usdc  addrW = addrW  addrV = addrV  memoA = memoA
    None = None
    Orders <- MCOrders
    Scopes <- MCScopes
    NetworkOf <- MCNetworkOf
    WalletsOf <- MCWalletChanges
    Required <- MCOneConfirmation
    Transfers <- MCTransfers
    HashOf <- MCHashOf
    Payments <- MCPaymentsModes
    Quotes = {200}
    Modes = {"B", "C", "D"}
    Memos <- MCMemos
    Dust = 1  Step = 2  MaxSteps = 1  MemoSupported = TRUE
    Validity = 1  Lookback = 1  Horizon = 1
    DropMin = 2  MissingMin = 2
    MaxDepth = 0  MaxCrashes = 1  MaxReorgs = 0
    Followers = {}
    Requotes = FALSE  LossyPolls = TRUE
SYMMETRY MCSymmetry
INVARIANTS CreditsMatchPayments CollisionsAreAmbiguous
PROPERTIES ReviewWithPaymentIsFinal
CHECK_DEADLOCK FALSE
