SPECIFICATION FairSpec
CONSTANTS
    o1 = o1  o2 = o2  t1 = t1  t2 = t2  h1 = h1  h2 = h2
    usdt = usdt  usdc = usdc  addrW = addrW  addrV = addrV  memoA = memoA
    None = None
    Orders <- MCOneOrder
    Scopes <- MCScopes
    NetworkOf <- MCNetworkOf
    WalletsOf <- MCOneWallet
    Required <- MCThreeConfirmations
    Transfers <- MCOneTransfer
    HashOf <- MCOneHashOf
    Payments <- MCPaymentExact
    Quotes = {200}
    Modes = {"B"}
    Memos <- MCMemos
    Dust = 1  Step = 2  MaxSteps = 1  MemoSupported = TRUE
    Validity = 1  Lookback = 1  Horizon = 1
    DropMin = 2  MissingMin = 2
    MaxDepth = 3  MaxCrashes = 1  MaxReorgs = 1
    Followers = {usdt, "priority"}
    Requotes = FALSE  LossyPolls = FALSE


INVARIANTS CompletedByChain
PROPERTIES ConfirmationsGrow PaidOrderIsNoticed VerifyingConcludes
CHECK_DEADLOCK FALSE
