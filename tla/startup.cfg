SPECIFICATION Spec
CONSTANTS
    Error = Error
    None = None
    Absent = Absent
    Bad = Bad
    oldDevice = oldDevice
    newDevice = newDevice
    MainButtonCount = 2
    Tokens = {"text:", "cmd:", "+", "#", "a", "b", "d"}
    MaxNesting = 1
    DefaultLayout <- Default
    DefaultKeymap <- TheDefaultKeymap
    LegacyLayouts <- SomeLayouts
    LegacyKeymaps <- SomeKeymaps
    LegacyIdentities <- SomeIdentities
    Edits <- SomeEdits
    Devices = {newDevice}
    MaxStarts = 3
    MaxFaults = 2
INVARIANTS
    TypeOK
    SavedLayoutComesBack
    KeymapReadsBack
PROPERTIES
    FilesAreKept
CHECK_DEADLOCK FALSE
