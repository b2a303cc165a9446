SPECIFICATION Spec
CONSTANTS
    o1 = o1  o2 = o2  t1 = t1  t2 = t2  h1 = h1  h2 = h2
    usdt = usdt  usdc = usdc  addrW = addrW  addrV = addrV  memoA = memoA
    None = None
    Orders <- MCOrders
    Scopes <- MCRails
    NetworkOf <- MCNetworkOf
    WalletsOf <- MCWalletPerToken
    Required <- MCOneConfirmation
    Transfers <- MCOneTransfer
    HashOf <- MCOneHashOf
    Payments <- MCPaymentExact
    Quotes = {200}
    Modes = {"B"}
    Memos <- MCMemos
    Dust = 1  Step = 2  MaxSteps = 1  MemoSupported = TRUE
    Validity = 1  Lookback = 1  Horizon = 0
    DropMin = 2  MissingMin = 2
    MaxDepth = 1  MaxCrashes = 0  MaxReorgs = 0
    Followers = {"priority"}
    Requotes = TRUE  LossyPolls = TRUE
INVARIANTS NeverTwoCompletedsFromOnePayment
CHECK_DEADLOCK FALSE
