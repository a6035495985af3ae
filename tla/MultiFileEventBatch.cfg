CONSTANTS
    small = small
    big = big
    Events <- MCEvents
    Size <- MCSize
    Limits <- MCLimits
    UploadArgs <- MCUploadArgs
    MaxBatchId = 3
    NoBatch = NoBatch
    NoList = NoList
SPECIFICATION Spec
INVARIANTS
    ListComesFromTarget
    HasEventsIsComplete
    OldestHasEvents
PROPERTIES
    ImplementsEventBatch
