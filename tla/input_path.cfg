SPECIFICATION FairSpec
CONSTANTS
    None = None
    Resolves <- Known
    Partial = TRUE
    Actions <- AllActions
    Events <- Sent
    Tests <- Tested
    RealtimeCap = 1
    MacroCap = 1
    BackgroundCap = 1
    maxMacroDepth = 1
    SelectionCap = 1
    MaxEvents = 2
    MaxArms = 1
INVARIANTS
    TypeOK
    InOrder
    MacroInOrder
    NoStuckKey
    OnlyBackgroundDrops
    CaptureIsOneShot
PROPERTIES
    OneTypist
    BacklogIsWorkedOff
    WindowCloses

