SPECIFICATION Spec
CONSTANTS
    p1 = p1  p2 = p2  p3 = p3  w1 = w1  w2 = w2  e1 = e1  e2 = e2  d1 = d1
    NoEnv = NoEnv
    Producers <- ThreeProducers
    Workers <- TwoWorkers
    Env <- MixedEnvs
    DirectEnv <- DirectOnly
    Capacity = 2
    HandlerCalls <- AnyCall
    MayReject = TRUE
    MaxBacklog = 3
SYMMETRY ThreadSymmetry
CHECK_DEADLOCK FALSE
INVARIANTS TypeOK Accounting BacklogBounded WakeupsReachSleepers
PROPERTIES FlushReturnsIdle ImplementsAsyncDelivery
