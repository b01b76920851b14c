SPECIFICATION Spec
CONSTANTS
    Error = Error
    None = None
    Blank = Blank
    main = main
    copy = copy
    own = own
    russian = russian
    Tokens = {"text:", "cmd:", "+", "#", "a"}
    MaxNesting = 2
    Languages = {"en", "ru"}
    Modes = {"letters"}
    Buttons = {0}
    Taps = {"space"}
    ProfileID <- ProfileIDOf
    DefaultProfileID = main
    DefaultName = main
    DefaultBindings <- DefaultKeys
    DefaultTaps <- DefaultThumbs
    HistoryLimit = 1
    IsDraft <- ValidateLayout
    Typed <- SomeTyped
    NewNames = {copy, russian}
    Imports <- SomeImports
    MaxEdits = 2
INVARIANTS
    TypeOK
    TypesWhatIsShown
    DirtyMeansUnsaved
    WarnedOfThisKey
    ImportWarns
    ReadsBackAsWritten
PROPERTIES
    OneTimeline
