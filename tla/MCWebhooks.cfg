SPECIFICATION FairSpec
CONSTANTS
    order = order  hookA = hookA  w1 = w1  w2 = w2
    Orders <- MCOrders
    Hooks <- MCHooks
    Workers <- MCWorkers
    Subscribed <- MCSubscribedOne
    Delays <- MCOneRetry
    Batch = 2  Lease = 1  PostTime = 1
    MaxResends = 1  MaxCrashes = 1
INVARIANTS TypeOK QueuedOnce GivenUpAfterAllAttempts
PROPERTIES OutcomesStand EveryEventConcludes
