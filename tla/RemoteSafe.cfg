SPECIFICATION FairSession
CONSTANTS
    main = main  worker = worker  rx = rx  t1 = t1  remote = remote
    Threads <- AllThreads
    Transports <- BothTransports
    Callbacks <- OnlyReceiver
    Rank <- AnyOrder
    Ops <- OpsOf
    MaxPending = 1
    Orderly = TRUE
    Adapters = {"zmq", "redis", "nats", "mqtt"}
    May = {"setup", "spawn", "wake", "receive", "late"}
    MaxInbox = 1
    MaxAttach = 2
CHECK_DEADLOCK FALSE
INVARIANTS HandlersInLiveBus HandlesOutliveUsers NothingLeftBehind
PROPERTIES DrainCoversOwn ShutdownCovers ShutdownEnds
