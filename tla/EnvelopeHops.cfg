SPECIFICATION Spec
CONSTANTS
    Threads = {th1, th2}
    Flag = {f1, f2}
    DefaultFlags = {f1}
    Registered = {f1}
    TicksPerMs = 2
    MaxClock = 3
    Clock = {1, 2}
    MaxBuilt = 1
    MaxCores = 3
    MaxSends = 2
INVARIANTS  StampsOverlap
