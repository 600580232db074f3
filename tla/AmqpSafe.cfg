SPECIFICATION Spec
CONSTANTS
    u1 = u1  Owner = Owner  Io = Io
    Users <- OneUser
    MaxCalls <- TwoSessions
    MaxAttach = 2
    May <- Events
CONSTRAINT TwoCalls
CHECK_DEADLOCK FALSE
INVARIANTS ConfirmsMatch ErrorReleasesWaiters NoLostWakeup
PROPERTY FlushCovers
