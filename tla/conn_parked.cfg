SPECIFICATION Spec
CONSTANTS
    DegradedAfter = 2
    Sessions = {s1, s2, s3}
    Connectors = {c1}
    Loop = Loop
    Gui = Gui
    None = None
    MaxEvents = 1
INVARIANTS
    RecoveryNeverParked
