CONSTANTS
    e1 = e1
    e2 = e2
    e3 = e3
    e4 = e4
    Events <- MCEvents
    BufferedItemCount = 2
    MaxCount = 3
    Refused <- MCRefused
    NoEvent = NoEvent
    NoList = NoList
    Null = Null
SPECIFICATION Spec
INVARIANTS
    HasEventsIsComplete
    OnlySentIsRemoved
PROPERTIES
    ImplementsEventBatch
CHECK_DEADLOCK FALSE
