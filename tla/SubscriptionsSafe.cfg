SPECIFICATION Spec
CONSTANTS
    t1 = t1  t2 = t2  h1 = h1  h2 = h2  h3 = h3
    Threads <- BothThreads
    Handles <- AllHandles
    OwnerOf <- Owner
    Routes <- Route
    Own <- OwnPriority
    Passed = {1, 2}
    Default = 5
    MaxId = 3
CHECK_DEADLOCK FALSE
INVARIANTS GaugeExact OneOwner CalledAsAsked
