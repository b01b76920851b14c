SPECIFICATION FairSpec
CONSTANTS
    m1 = m1
    Mains = {m1}
    Touched <- TwoModes
    Roll = 1
    Press = 1
    Release = 2
    MaxGap = 1
    MaxEvents = 1
INVARIANTS
    TypeOK
    OneOutcome
    NoStuckThumb
    NoLateModifier
    NoStaleInput
    FirmThumbModifies
PROPERTIES
    ReleasedKeyboardArms
