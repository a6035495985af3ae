CONSTANTS
    e1 = e1
    e2 = e2
    e3 = e3
    Events <- MCEvents
    Size <- MCSize
    Limits <- MCLimits
    UploadArgs <- MCUploadArgs
    NoEvent = NoEvent
    NoList = NoList
    MaxFaults = 2
SPECIFICATION Spec
INVARIANTS
    RecordsMatchFile
    LinesAreWhole
    NothingAcceptedIsLost
PROPERTIES
    ImplementsEventBatch
