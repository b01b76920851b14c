SPECIFICATION FairSpec
CONSTANTS
    DegradedAfter = 1
    Sessions = {s1}
    Connectors = {c1}
    Loop = Loop
    Gui = Gui
    None = None
    MaxEvents = 1
PROPERTIES
    LoopCatchesUp
    CloseReturns
