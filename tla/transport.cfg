SPECIFICATION FairSpec
CONSTANTS
    MaxSequence = 3
    StartupRange = 2
    WireCap = 1
    QueueCap = 1
    Used = {1}
    MaxSent = 3
    MaxReports = 4
    MaxRestarts = 1
    MaxFaults = 1
    Limit = 2
INVARIANTS
    TypeOK
    GapsAreLosses
    CaptureIsComplete
PROPERTIES
    ControlKeepsFlowing
    CloseReturns
CHECK_DEADLOCK FALSE
