SPECIFICATION Spec
CONSTANTS
    orderA = orderA  orderB = orderB  tokenX = tokenX  tokenY = tokenY  memoA = memoA
    NoMemo = NoMemo
    Orders <- MCOrders
    Rows <- MCRows
    Transfers <- MCTransfers
    Dust = 1  Step = 2  MaxSteps = 1  MemoSupported = TRUE
INVARIANTS NeverGuesses FullPaymentSettles OnlyConcernedOrders
