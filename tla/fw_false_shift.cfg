SPECIFICATION Spec
CONSTANTS
    m1 = m1
    Mains = {m1}
    Touched <- ShiftOnly
    Roll = 1
    Press = 2
    Release = 3
    MaxGap = 1
    MaxEvents = 2
INVARIANTS
    NoFalseModifier
