SPECIFICATION Spec
CONSTANTS
    c1 = c1  m1 = m1  m2 = m2
    pool = pool  broker = broker  relay = relay
    l1 = l1  l2 = l2  l3 = l3  r1 = r1  r2 = r2
    Fallback = Fallback
    Calls <- OneCall
    FlagSets <- Plain
    Middleware <- None
    Transports <- PoolAndRelay
    Listeners <- ThreeListeners
    Matching <- MatchingBoth
    Routes <- TwoRoutes
    Filtered <- PoolOnly
    MayVeto <- None
    MayThrow <- ThrowingCallbacks
    MayMark <- None
    Priority <- Priorities
    Kind <- Kinds
CHECK_DEADLOCK FALSE
INVARIANTS FanOutExact PriorityOrder
