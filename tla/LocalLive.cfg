SPECIFICATION FairSpec
CONSTANTS
    p1 = p1  p2 = p2  p3 = p3  w1 = w1  w2 = w2  e1 = e1  e2 = e2  d1 = d1
    NoEnv = NoEnv
    Producers <- TwoProducers
    Workers <- OneWorker
    Env <- TwoEnvs
    DirectEnv <- NoneDirect
    Capacity = 2
    HandlerCalls <- NoCalls
    MayReject = FALSE
    MaxBacklog = 3
PROPERTIES ProducersNotStuck QuietFlushReturns ImplementsFairDelivery
