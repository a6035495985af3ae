CONSTANTS
    client1 = client1
    realtime1 = realtime1
    realtime2 = realtime2
    critical1 = critical1
    normal1 = normal1
    Clients <- MCClients
    Events <- MCEvents
    LatencyRealtime <- MCRealtime
    PersistenceCritical <- MCCritical
    Oversized <- MCOversized
    RealtimeLimit = 2
    BufferLimit = 2
    MaxEvents = 2
    StorageFails = FALSE
    NoList = NoList
SPECIFICATION FairSpec
PROPERTIES
    TooLargeIsDropped
