SPECIFICATION FairSpec
CONSTANTS
    c1 = c1  m1 = m1  m2 = m2
    pool = pool  broker = broker  relay = relay
    l1 = l1  l2 = l2  l3 = l3  r1 = r1  r2 = r2
    Fallback = Fallback
    Calls <- OneCall
    FlagSets <- AllFlags
    Middleware <- TwoMiddleware
    Transports <- PoolAndBroker
    Listeners <- TwoListeners
    Matching <- Listener1
    Routes <- None
    Filtered <- PoolAndBroker
    MayVeto <- FirstMiddleware
    MayThrow <- Throwers
    MayMark <- FirstMiddleware
    Priority <- Priorities
    Kind <- Kinds
CHECK_DEADLOCK FALSE
INVARIANTS DroppedGoesNowhere RoutingMatrix AfterMirrorsBefore
    FailuresReachMiddleware RefusalsAreSilent
PROPERTY CallsEnd
