SPECIFICATION FairSpec
CONSTANTS
    DegradedAfter = 2
    Sessions = {s1, s2}
    Connectors = {}
    Loop = Loop
    Gui = Gui
    None = None
    MaxEvents = 2
PROPERTIES
    LostSessionRecovered
