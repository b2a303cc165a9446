SPECIFICATION Spec
CONSTANTS
    order = order  hookA = hookA  w1 = w1  w2 = w2
    Orders <- MCOrders
    Hooks <- MCHooks
    Workers <- MCWorkers
    Subscribed <- MCSubscribedAll
    Delays <- MCOneRetry
    Batch = 2  Lease = 3  PostTime = 2
    MaxResends = 0  MaxCrashes = 0
INVARIANTS LeaseCoversPosting
