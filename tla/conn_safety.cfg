SPECIFICATION Spec
CONSTANTS
    DegradedAfter = 1
    Sessions = {s1, s2, s3}
    Connectors = {c1}
    Loop = Loop
    Gui = Gui
    None = None
    MaxEvents = 2
SYMMETRY Symmetry
INVARIANTS
    TypeOK
    NoLostWakeup
    OneOwner
    PendingIsPrefix
PROPERTIES
    StreamSpec
